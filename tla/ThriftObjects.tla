--------------------------- MODULE ThriftObjects ---------------------------
(***************************************************************************)
(* What the generated classes and the binary protocol do with an object:   *)
(* make it, set its properties, write it and read it.  On the wire an      *)
(* object stands for the struct that is written of it: its fields are the  *)
(* members that write sends, with their types and numbers.                 *)
(***************************************************************************)
EXTENDS ThriftTypes, SequencesExt

-----------------------------------------------------------------------------
(* Objects *)

\* a new object, and set_property of as many properties as props has
Make(class, props) ==
    [is |-> [m \in DOMAIN class.init |->
                IF m \in DOMAIN props THEN props[m] ELSE class.init[m]],
     set |-> DOMAIN props]

\* a list, here and of the parser and of the database, is a sequence
IsListOf(Is(_), list) == list \in Seq(ToSet(list)) /\ \A i \in DOMAIN list : Is(list[i])

-----------------------------------------------------------------------------
(* The wire *)

\* a text that is null is sent as one without letters, and such a text is
\* read as null
SentText(text) == IF text = Null THEN "" ELSE text
ReadText(text) == IF text = "" THEN Null ELSE text

\* write: the members of an object that are sent
Sent(class, obj) ==
    {w \in DOMAIN class.write : class.write[w].optional => w \in obj.set}

\* read: the fields that are read into a member.  A field whose number or type
\* is not known is passed over.
Fields(class, obj, m) ==
    {w \in Sent(class, obj) : /\ class.write[w].id = class.read[m].id
                              /\ class.write[w].type = class.read[m].type}

\* Fields are read into the object that is there, old, each with Deep into what
\* the member is if it is a struct or a list.
Read(class, old, obj, Deep(_, _, _)) ==
    LET source(m) == CHOOSE w \in Fields(class, obj, m) : TRUE
        content(m) ==
            CASE class.read[m].type = "STRING" -> ReadText(SentText(obj.is[source(m)]))
              [] class.read[m].type \in {"STRUCT", "LIST"} ->
                    Deep(m, old.is[m], obj.is[source(m)])
              [] OTHER -> obj.is[source(m)]
        filled == {m \in DOMAIN old.is : Fields(class, obj, m) # {}}
    IN  [is |-> [m \in DOMAIN old.is |-> IF m \in filled THEN content(m) ELSE old.is[m]],
         set |-> old.set \union filled]

\* the elements of a list behind those that are there
ReadList(class, ReadInto(_, _), old, list) ==
    old \o [i \in DOMAIN list |-> ReadInto(New(class), list[i])]

-----------------------------------------------------------------------------
(* The read of each class *)

\* of a class without structs and lists
ReadPlain(class, old, obj) == Read(class, old, obj, LAMBDA m, x, y : y)

read_Value(old, obj) ==
    Read(I_Value, old, obj, LAMBDA m, x, y : ReadPlain(I_uValue, x, y))
read_Property(old, obj) ==
    Read(I_Property, old, obj, LAMBDA m, x, y : read_Value(x, y))
read_Attribute(old, obj) == ReadPlain(I_Attribute, old, obj)
read_Schema(old, obj) ==
    Read(I_Schema, old, obj, LAMBDA m, x, y : ReadList(I_Attribute, read_Attribute, x, y))
read_Node(old, obj) ==
    Read(I_Node, old, obj, LAMBDA m, x, y : ReadList(I_Property, read_Property, x, y))
read_Link(old, obj) == ReadPlain(I_Link, old, obj)

read_uComparable(old, obj) ==
    Read(I_uComparable, old, obj, LAMBDA m, x, y : read_Value(x, y))
read_Comparable(old, obj) ==
    Read(I_Comparable, old, obj, LAMBDA m, x, y : read_uComparable(x, y))
read_Compare(old, obj) ==
    Read(I_Compare, old, obj, LAMBDA m, x, y : read_Comparable(x, y))
read_ConditionCompare(old, obj) ==
    Read(I_ConditionCompare, old, obj,
         LAMBDA m, x, y : IF m = "left" THEN read_Comparable(x, y) ELSE read_Compare(x, y))

\* Bound: an and or an or is in a has, and in it once more.
read_uPredicate(Inner(_, _), old, obj) ==
    Read(I_uPredicate, old, obj,
         LAMBDA m, x, y : IF m = "term" THEN read_ConditionCompare(x, y)
                          ELSE ReadList(I_Predicate, Inner, x, y))
read_PredicateOf(Inner(_, _), old, obj) ==
    Read(I_Predicate, old, obj, LAMBDA m, x, y : read_uPredicate(Inner, x, y))
read_InnermostPredicate(old, obj) == read_PredicateOf(LAMBDA x, y : x, old, obj)
read_InnerPredicate(old, obj) == read_PredicateOf(read_InnermostPredicate, old, obj)
read_Predicate(old, obj) == read_PredicateOf(read_InnerPredicate, old, obj)

read_NodeCondition(old, obj) ==
    Read(I_NodeCondition, old, obj, LAMBDA m, x, y : ReadList(I_Predicate, read_Predicate, x, y))
read_LinkCondition(old, obj) == ReadPlain(I_LinkCondition, old, obj)
read_MatchCondition(old, obj) ==
    Read(I_MatchCondition, old, obj,
         LAMBDA m, x, y : IF m = "link_condition" THEN read_LinkCondition(x, y)
                          ELSE read_NodeCondition(x, y))

read_SchemaCreateQuery(old, obj) ==
    Read(I_SchemaCreateQuery, old, obj, LAMBDA m, x, y : read_Schema(x, y))
read_NodeCreateQuery(old, obj) ==
    Read(I_NodeCreateQuery, old, obj, LAMBDA m, x, y : read_Node(x, y))
read_NodeUpdateQuery(old, obj) ==
    Read(I_NodeUpdateQuery, old, obj,
         LAMBDA m, x, y : IF m = "condition" THEN read_NodeCondition(x, y)
                          ELSE ReadList(I_Property, read_Property, x, y))
read_NodeDeleteQuery(old, obj) ==
    Read(I_NodeDeleteQuery, old, obj, LAMBDA m, x, y : read_NodeCondition(x, y))
read_NodeMatchQuery(old, obj) ==
    Read(I_NodeMatchQuery, old, obj, LAMBDA m, x, y : read_NodeCondition(x, y))
read_LinkCreateQuery(old, obj) ==
    Read(I_LinkCreateQuery, old, obj, LAMBDA m, x, y : read_NodeCondition(x, y))
read_LinkDeleteQuery(old, obj) ==
    Read(I_LinkDeleteQuery, old, obj, LAMBDA m, x, y : read_MatchCondition(x, y))
read_MatchQuery(old, obj) ==
    Read(I_MatchQuery, old, obj, LAMBDA m, x, y : read_MatchCondition(x, y))
read_uQuery(old, obj) ==
    Read(I_uQuery, old, obj, LAMBDA m, x, y :
        CASE m = "schema_create_query" -> read_SchemaCreateQuery(x, y)
          [] m = "schema_get_query" -> ReadPlain(I_SchemaGetQuery, x, y)
          [] m = "schema_get_all_query" -> ReadPlain(I_SchemaGetAllQuery, x, y)
          [] m = "schema_delete_query" -> ReadPlain(I_SchemaDeleteQuery, x, y)
          [] m = "node_create_query" -> read_NodeCreateQuery(x, y)
          [] m = "node_update_query" -> read_NodeUpdateQuery(x, y)
          [] m = "node_delete_query" -> read_NodeDeleteQuery(x, y)
          [] m = "node_match_query" -> read_NodeMatchQuery(x, y)
          [] m = "link_create_query" -> read_LinkCreateQuery(x, y)
          [] m = "link_delete_query" -> read_LinkDeleteQuery(x, y)
          [] m = "match_query" -> read_MatchQuery(x, y))
read_Query(old, obj) == Read(I_Query, old, obj, LAMBDA m, x, y : read_uQuery(x, y))

read_Result(old, obj) ==
    Read(I_Result, old, obj, LAMBDA m, x, y :
        CASE m \in {"first", "second"} -> read_Node(x, y)
          [] m = "link" -> read_Link(x, y)
          [] m = "schema" -> read_Schema(x, y))
read_uQueryResult(old, obj) ==
    Read(I_uQueryResult, old, obj,
         LAMBDA m, x, y : IF m = "schema" THEN read_Schema(x, y)
                          ELSE ReadList(I_Result, read_Result, x, y))
read_QueryResult(old, obj) ==
    Read(I_QueryResult, old, obj, LAMBDA m, x, y : read_uQueryResult(x, y))

-----------------------------------------------------------------------------
(* The service *)

Message(name, type, fields) == [name |-> name, type |-> type, fields |-> fields]

\* query_svc_client_send_execute
send_execute(query) ==
    Message("execute", "T_CALL", Make(querySvcExecuteArgs, [query |-> query]))

\* The method is looked up by its name; another one is answered with an
\* exception.
Served(message) == message.name = "execute"

\* query_svc_processor_process_execute, around the call of the handler
QueryOf(message) ==
    Read(querySvcExecuteArgs, New(querySvcExecuteArgs), message.fields,
         LAMBDA m, x, y : read_Query(x, y)).is.query
ReplyWith(result) ==
    Message("execute", "T_REPLY", Make(querySvcExecuteResult, [success |-> result]))

\* query_svc_client_recv_execute: the answer is read into the object that the
\* caller gives; the number of the call is not compared
Understood(message) == message.type = "T_REPLY" /\ message.name = "execute"
recv_execute(result, message) ==
    Read(querySvcExecuteResult, [is |-> [success |-> result], set |-> {}], message.fields,
         LAMBDA m, x, y : read_QueryResult(x, y)).is.success
=============================================================================
