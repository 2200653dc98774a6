---------------------------- MODULE ThriftTypes ----------------------------
(***************************************************************************)
(* The enumerations and structs of the interface, as the generated code    *)
(* has them.  A class is what its four functions say of each member:       *)
(* instance_init the value it has at first, write whether it is always     *)
(* sent or only if it was set, and with which type and number, and read    *)
(* which type and number are read into it.  The functions themselves are   *)
(* in ThriftObjects.  A text is a string or Null.                          *)
(***************************************************************************)
EXTENDS Naturals, Sequences

CONSTANT Null   \* no text

\* the constants in the order of their numbers, the first of which is 0
Code(enum, name) == (CHOOSE i \in DOMAIN enum : enum[i] = name) - 1
NameOf(enum, code) == enum[code + 1]

I_ValueType == <<"VT_INTEGER", "VT_STRING", "VT_FLOATING", "VT_BOOLEAN">>
I_LinkType == <<"LT_TO", "LT_FROM", "LT_BOTH", "LT_ANY">>
I_Comparation == <<"CMP_GT", "CMP_LT", "CMP_GE", "CMP_LE", "CMP_EQ", "CMP_NEQ", "CMP_CONTAINS">>
I_ComparableType == <<"CMPT_FIELD", "CMPT_VALUE">>
I_PredicateType == <<"PT_TERM", "PT_OR", "PT_AND">>
I_QueryType ==
    <<"SCHEMA_CREATE", "SCHEMA_GET", "SCHEMA_GET_ALL", "SCHEMA_DELETE",
      "NODE_CREATE", "NODE_UPDATE", "NODE_DELETE", "NODE_MATCH",
      "LINK_CREATE", "LINK_DELETE", "MATCH">>
I_QueryResultType == <<"RESULT_SCHEMA", "RESULT_GENERATOR", "RESULT_NONE">>

Class(init, write, read) == [init |-> init, write |-> write, read |-> read]

Always(type, id) == [type |-> type, id |-> id, optional |-> FALSE]
IfSet(type, id) == [type |-> type, id |-> id, optional |-> TRUE]
Into(type, id) == [type |-> type, id |-> id]

\* instance_init: an object is what its members are, and those that were set
New(class) == [is |-> class.init, set |-> {}]

-----------------------------------------------------------------------------

I_uValue == Class(
    [integer |-> 0, string_ |-> Null, floating |-> 0, boolean |-> FALSE],
    [integer |-> IfSet("I32", 1), string_ |-> IfSet("STRING", 2),
     floating |-> IfSet("DOUBLE", 3), boolean |-> IfSet("BOOL", 4)],
    [integer |-> Into("I32", 1), string_ |-> Into("STRING", 2),
     floating |-> Into("DOUBLE", 3), boolean |-> Into("BOOL", 4)])

I_Value == Class(
    [type |-> 0, value |-> New(I_uValue)],
    [type |-> Always("I32", 1), value |-> Always("STRUCT", 2)],
    [type |-> Into("I32", 1), value |-> Into("STRUCT", 2)])

I_Property == Class(
    [field |-> Null, value |-> New(I_Value)],
    [field |-> IfSet("STRING", 1), value |-> Always("STRUCT", 2)],
    [field |-> Into("STRING", 1), value |-> Into("STRUCT", 2)])

I_Attribute == Class(
    [name |-> Null, vt |-> 0],
    [name |-> Always("STRING", 1), vt |-> Always("I32", 2)],
    [name |-> Into("STRING", 1), vt |-> Into("I32", 2)])

I_Schema == Class(
    [name |-> Null, attributes |-> <<>>],
    [name |-> Always("STRING", 1), attributes |-> Always("LIST", 2)],
    [name |-> Into("STRING", 1), attributes |-> Into("LIST", 2)])

I_Node == Class(
    [name |-> Null, properties |-> <<>>],
    [name |-> IfSet("STRING", 1), properties |-> Always("LIST", 2)],
    [name |-> Into("STRING", 1), properties |-> Into("LIST", 2)])

I_Link == Class(
    [name |-> Null, type |-> 0],
    [name |-> Always("STRING", 1), type |-> Always("I32", 2)],
    [name |-> Into("STRING", 1), type |-> Into("I32", 2)])

I_uComparable == Class(
    [field_name |-> Null, value |-> New(I_Value)],
    [field_name |-> IfSet("STRING", 1), value |-> IfSet("STRUCT", 2)],
    [field_name |-> Into("STRING", 1), value |-> Into("STRUCT", 2)])

I_Comparable == Class(
    [type |-> 0, comparable |-> New(I_uComparable)],
    [type |-> Always("I32", 1), comparable |-> Always("STRUCT", 2)],
    [type |-> Into("I32", 1), comparable |-> Into("STRUCT", 2)])

I_Compare == Class(
    [cmp |-> 0, with_ |-> New(I_Comparable)],
    [cmp |-> Always("I32", 1), with_ |-> Always("STRUCT", 2)],
    [cmp |-> Into("I32", 1), with_ |-> Into("STRUCT", 2)])

I_ConditionCompare == Class(
    [left |-> New(I_Comparable), compare |-> New(I_Compare)],
    [left |-> Always("STRUCT", 1), compare |-> Always("STRUCT", 2)],
    [left |-> Into("STRUCT", 1), compare |-> Into("STRUCT", 2)])

I_uPredicateAndOrMixed == Class(
    [term |-> New(I_ConditionCompare), and_ |-> <<>>, or_ |-> <<>>],
    [term |-> IfSet("STRUCT", 1), and_ |-> IfSet("LIST", 2),
     or_ |-> IfSet("LIST", 3)],
    [term |-> Into("STRUCT", 1), and_ |-> Into("LIST", 3),
     or_ |-> Into("LIST", 2)])
I_uPredicate == Class(
    [term |-> New(I_ConditionCompare), and_ |-> <<>>, or_ |-> <<>>],
    [term |-> IfSet("STRUCT", 1), and_ |-> IfSet("LIST", 2),
     or_ |-> IfSet("LIST", 3)],
    [term |-> Into("STRUCT", 1), and_ |-> Into("LIST", 2),
     or_ |-> Into("LIST", 3)])

I_Predicate == Class(
    [type |-> 0, predicate |-> New(I_uPredicate)],
    [type |-> Always("I32", 1), predicate |-> Always("STRUCT", 2)],
    [type |-> Into("I32", 1), predicate |-> Into("STRUCT", 2)])

I_NodeCondition == Class(
    [is_null |-> FALSE, schema |-> Null, predicates |-> <<>>],
    [is_null |-> Always("BOOL", 1), schema |-> Always("STRING", 2),
     predicates |-> Always("LIST", 3)],
    [is_null |-> Into("BOOL", 1), schema |-> Into("STRING", 2),
     predicates |-> Into("LIST", 3)])

I_LinkCondition == Class(
    [is_null |-> FALSE, link_type |-> 0, link_name |-> Null],
    [is_null |-> Always("BOOL", 1), link_type |-> Always("I32", 2),
     link_name |-> Always("STRING", 3)],
    [is_null |-> Into("BOOL", 1), link_type |-> Into("I32", 2),
     link_name |-> Into("STRING", 3)])

I_MatchCondition == Class(
    [is_null |-> FALSE, node_first_condition |-> New(I_NodeCondition),
     node_second_condition |-> New(I_NodeCondition),
     node_cross_condition |-> New(I_NodeCondition),
     link_condition |-> New(I_LinkCondition)],
    [is_null |-> Always("BOOL", 1),
     node_first_condition |-> Always("STRUCT", 2),
     node_second_condition |-> Always("STRUCT", 3),
     node_cross_condition |-> Always("STRUCT", 4),
     link_condition |-> Always("STRUCT", 5)],
    [is_null |-> Into("BOOL", 1), node_first_condition |-> Into("STRUCT", 2),
     node_second_condition |-> Into("STRUCT", 3),
     node_cross_condition |-> Into("STRUCT", 4),
     link_condition |-> Into("STRUCT", 5)])

I_SchemaCreateQuery == Class(
    [schema |-> New(I_Schema)],
    [schema |-> Always("STRUCT", 1)],
    [schema |-> Into("STRUCT", 1)])

I_SchemaGetQuery == Class(
    [schema_name |-> Null],
    [schema_name |-> Always("STRING", 1)],
    [schema_name |-> Into("STRING", 1)])

I_SchemaGetAllQuery == Class(<<>>, <<>>, <<>>)

I_SchemaDeleteQuery == Class(
    [schema_name |-> Null],
    [schema_name |-> Always("STRING", 1)],
    [schema_name |-> Into("STRING", 1)])

I_NodeCreateQuery == Class(
    [schema_name |-> Null, node |-> New(I_Node)],
    [schema_name |-> Always("STRING", 1), node |-> Always("STRUCT", 2)],
    [schema_name |-> Into("STRING", 1), node |-> Into("STRUCT", 2)])

I_NodeUpdateQuery == Class(
    [condition |-> New(I_NodeCondition), properties |-> <<>>],
    [condition |-> Always("STRUCT", 1), properties |-> Always("LIST", 2)],
    [condition |-> Into("STRUCT", 1), properties |-> Into("LIST", 2)])

I_NodeDeleteQuery == Class(
    [condition |-> New(I_NodeCondition)],
    [condition |-> Always("STRUCT", 1)],
    [condition |-> Into("STRUCT", 1)])

I_NodeMatchQuery == Class(
    [condition |-> New(I_NodeCondition)],
    [condition |-> Always("STRUCT", 1)],
    [condition |-> Into("STRUCT", 1)])

I_LinkCreateQuery == Class(
    [link_name |-> Null, link_type |-> 0, first |-> New(I_NodeCondition),
     second |-> New(I_NodeCondition)],
    [link_name |-> Always("STRING", 1), link_type |-> Always("I32", 2),
     first |-> Always("STRUCT", 3), second |-> Always("STRUCT", 4)],
    [link_name |-> Into("STRING", 1), link_type |-> Into("I32", 2),
     first |-> Into("STRUCT", 3), second |-> Into("STRUCT", 4)])

I_LinkDeleteQuery == Class(
    [condition |-> New(I_MatchCondition)],
    [condition |-> Always("STRUCT", 1)],
    [condition |-> Into("STRUCT", 1)])

I_MatchQuery == Class(
    [condition |-> New(I_MatchCondition)],
    [condition |-> Always("STRUCT", 1)],
    [condition |-> Into("STRUCT", 1)])

I_uQuery == Class(
    [schema_create_query |-> New(I_SchemaCreateQuery),
     schema_get_query |-> New(I_SchemaGetQuery),
     schema_get_all_query |-> New(I_SchemaGetAllQuery),
     schema_delete_query |-> New(I_SchemaDeleteQuery),
     node_create_query |-> New(I_NodeCreateQuery),
     node_update_query |-> New(I_NodeUpdateQuery),
     node_delete_query |-> New(I_NodeDeleteQuery),
     node_match_query |-> New(I_NodeMatchQuery),
     link_create_query |-> New(I_LinkCreateQuery),
     link_delete_query |-> New(I_LinkDeleteQuery),
     match_query |-> New(I_MatchQuery)],
    [schema_create_query |-> IfSet("STRUCT", 1),
     schema_get_query |-> IfSet("STRUCT", 2),
     schema_get_all_query |-> IfSet("STRUCT", 3),
     schema_delete_query |-> IfSet("STRUCT", 4),
     node_create_query |-> IfSet("STRUCT", 5),
     node_update_query |-> IfSet("STRUCT", 6),
     node_delete_query |-> IfSet("STRUCT", 7),
     node_match_query |-> IfSet("STRUCT", 8),
     link_create_query |-> IfSet("STRUCT", 9),
     link_delete_query |-> IfSet("STRUCT", 10),
     match_query |-> IfSet("STRUCT", 11)],
    [schema_create_query |-> Into("STRUCT", 1),
     schema_get_query |-> Into("STRUCT", 2),
     schema_get_all_query |-> Into("STRUCT", 3),
     schema_delete_query |-> Into("STRUCT", 4),
     node_create_query |-> Into("STRUCT", 5),
     node_update_query |-> Into("STRUCT", 6),
     node_delete_query |-> Into("STRUCT", 7),
     node_match_query |-> Into("STRUCT", 8),
     link_create_query |-> Into("STRUCT", 9),
     link_delete_query |-> Into("STRUCT", 10),
     match_query |-> Into("STRUCT", 11)])

I_Query == Class(
    [type |-> 0, query |-> New(I_uQuery)],
    [type |-> Always("I32", 1), query |-> Always("STRUCT", 2)],
    [type |-> Into("I32", 1), query |-> Into("STRUCT", 2)])

I_Result == Class(
    [return_items |-> 0, first |-> New(I_Node), link |-> New(I_Link),
     second |-> New(I_Node), schema |-> New(I_Schema)],
    [return_items |-> Always("I32", 1), first |-> IfSet("STRUCT", 2),
     link |-> IfSet("STRUCT", 3), second |-> IfSet("STRUCT", 4),
     schema |-> IfSet("STRUCT", 5)],
    [return_items |-> Into("I32", 1), first |-> Into("STRUCT", 2),
     link |-> Into("STRUCT", 3), second |-> Into("STRUCT", 4),
     schema |-> Into("STRUCT", 5)])

I_uQueryResult == Class(
    [schema |-> New(I_Schema), items |-> <<>>],
    [schema |-> IfSet("STRUCT", 1), items |-> IfSet("LIST", 2)],
    [schema |-> Into("STRUCT", 1), items |-> Into("LIST", 2)])

I_QueryResult == Class(
    [type |-> 0, message |-> Null, result |-> New(I_uQueryResult)],
    [type |-> Always("I32", 1), message |-> Always("STRING", 2),
     result |-> IfSet("STRUCT", 3)],
    [type |-> Into("I32", 1), message |-> Into("STRING", 2),
     result |-> Into("STRUCT", 3)])

querySvcExecuteArgs == Class(
    [query |-> New(I_Query)],
    [query |-> Always("STRUCT", 1)],
    [query |-> Into("STRUCT", 1)])

querySvcExecuteResult == Class(
    [success |-> New(I_QueryResult)],
    [success |-> IfSet("STRUCT", 0)],
    [success |-> Into("STRUCT", 0)])
=============================================================================
