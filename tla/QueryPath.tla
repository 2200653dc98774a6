----------------------------- MODULE QueryPath -----------------------------
(***************************************************************************)
(* What becomes of a query between the text a user types and the nodes it  *)
(* is applied to: the lists that the parser builds, their conversion by    *)
(* client and server, and the comparison of a stored value with a          *)
(* condition.  All of it is pure; a name or a text is a sequence of        *)
(* letters, and a number is of type int or float.                          *)
(*                                                                         *)
(* Where the code reads memory it never wrote, an operator gives the set   *)
(* of the outcomes there can be.                                           *)
(***************************************************************************)
EXTENDS Integers, Sequences, SequencesExt

CONSTANTS
    PtrSize,        \* sizeof(char *), which string_char_cmp takes for a length
    Mantissa,       \* digits of a float (24)
    DT_FLOATING     \* code of the type (2)

ASSUME QueryPathAssumption ==
    /\ PtrSize \in Nat \ {0} /\ Mantissa \in 1 .. 24 /\ DT_FLOATING \in Nat \ {0}

-----------------------------------------------------------------------------
(* parser.y and client_convert.c *)

\* cond_terms: each further term becomes the successor of the first one
KeptTermsUnlinked(ts) == <<ts[1]>>
KeptTerms(ts) == IF Len(ts) <= 2 THEN ts ELSE <<ts[1], ts[Len(ts)]>>

Parsed(pred) ==
    IF pred.type = "has" THEN pred ELSE [pred EXCEPT !.terms = KeptTerms(@)]

\* f_add_properties puts each property before the ones read so far, and
\* convert_property_list each one before those already converted
ParsedProperties(props) == Reverse(props)
SentPropertiesAppended(props) == props
SentProperties(props) == Reverse(props)

ReceivedProperties(props) == SentProperties(ParsedProperties(props))

-----------------------------------------------------------------------------
(* server_convert.c *)

\* the switch of convert_predicate
ConditionCmpFallsThrough ==
    [gt |-> "less", ge |-> "less", lt |-> "less", le |-> "less",
     eq |-> "equal", neq |-> "undefined", contains |-> "undefined"]
ConditionCmp ==
    [gt |-> "greater", ge |-> "greater", lt |-> "less", le |-> "less",
     eq |-> "equal", neq |-> "undefined", contains |-> "undefined"]

\* convert_node_condition: the first predicate counts, and nothing of an or
ConditionsOrAsAnd(pred) == IF pred.type = "has" THEN <<pred.term>> ELSE pred.terms
Conditions(pred) ==
    CASE pred.type = "has" -> <<pred.term>>
      [] pred.type = "and" -> pred.terms
      [] pred.type = "or"  -> <<>>

-----------------------------------------------------------------------------
(* db_lib *)

Orders == {"less", "equal", "greater"}

\* string_char_cmp
AttributeNamed(stored, asked) ==
    LET n == IF Len(stored) < PtrSize THEN Len(stored) ELSE PtrSize
    IN  IsPrefix(SubSeq(stored, 1, n), asked)

\* get_attribute_index: behind the last attribute if none has the name
AttributeIndex(attrs, field) ==
    LET i == SelectInSeq(attrs, LAMBDA a : AttributeNamed(a, field))
    IN  IF i = 0 THEN Len(attrs) + 1 ELSE i

OrderOf(x, y) == IF x < y THEN "less" ELSE IF x = y THEN "equal" ELSE "greater"

\* the conversion of an integer to float: what is longer than the mantissa is
\* rounded to the nearest, to the even one of two
ToFloat(n) ==
    LET size == IF n < 0 THEN -n ELSE n
        extra == CHOOSE k \in 0 .. 32 - Mantissa :
                    /\ size < 2^(k + Mantissa)
                    /\ k = 0 \/ size >= 2^(k + Mantissa - 1)
        unit == 2^extra
        low == n \div unit
        rest == 2 * (n % unit)
    IN  IF rest > unit \/ (rest = unit /\ low % 2 = 1)
        THEN (low + 1) * unit ELSE low * unit

Number(v) == IF v.type = "int" THEN ToFloat(v.is) ELSE v.is

\* strncmp on as many letters as a has.  Behind the last letter of b there is
\* no zero: if b ends first, the result depends on what follows in memory.
CompareTexts(a, b) ==
    LET n == IF Len(a) < Len(b) THEN Len(a) ELSE Len(b)
        differ == {i \in 1 .. n : a[i] # b[i]}
    IN  IF differ # {}
        THEN LET i == CHOOSE i \in differ : \A j \in differ : i <= j
             IN  {OrderOf(a[i], b[i])}
        ELSE IF Len(a) <= Len(b) THEN {"equal"} ELSE Orders

\* value_compare.  Of a boolean one byte is set and four are compared.
CompareValues(v, w) ==
    IF (v.type = "text") # (w.type = "text") THEN {"undefined"}
    ELSE IF v.type = "text" THEN CompareTexts(v.is, w.is)
    ELSE IF "bool" \in {v.type, w.type} THEN Orders
    ELSE {OrderOf(Number(v), Number(w))}

\* check_node_condition on the values of a node.  An attribute that does not
\* exist is read from behind the array of the pointers.
CompareField(term, attrs, row) ==
    LET i == AttributeIndex(attrs, term.field)
    IN  IF i \in DOMAIN row THEN CompareValues(row[i], term.value)
                            ELSE Orders \union {"undefined"}

Verdicts(conds, attrs, row) ==
    LET possible(k) == CompareField(conds[k], attrs, row)
        asked(k) == ConditionCmp[conds[k].cmp]
    IN  {b \in BOOLEAN :
            IF b THEN \A k \in DOMAIN conds : asked(k) \in possible(k)
                 ELSE \E k \in DOMAIN conds : possible(k) # {asked(k)}}

\* execute_node_match on one node
Found(pred, attrs, row) == Verdicts(Conditions(Parsed(pred)), attrs, row)

\* execute_node_create: the values go by position, without their names
Created(props) == LET ps == ReceivedProperties(props) IN [i \in DOMAIN ps |-> ps[i].value]

\* the bytes of a float that is a positive whole number, read as an integer
FloatBits(n) ==
    LET e == CHOOSE k \in 0 .. 30 : 2^k <= n /\ n \div 2 < 2^k
    IN  (127 + e) * 2^(Mantissa - 1) + (n * 2^(Mantissa - 1)) \div 2^e - 2^(Mantissa - 1)

\* value_update for numbers.  What goes into an integer is taken from the
\* four bytes of the new value, whatever its type; only if these bytes make
\* the float that is the code of the type, that number is stored.
Stored(old, new) ==
    LET bytes == IF new.type = "float" THEN FloatBits(new.is) ELSE new.is
    IN  [old EXCEPT !.is = IF old.type = "float" THEN Number(new)
                           ELSE IF bytes = FloatBits(DT_FLOATING) THEN DT_FLOATING
                           ELSE bytes]

\* execute_node_update on one node, with numbers for attributes of numbers
Updated(props, attrs, row) ==
    LET ps == ReceivedProperties(props)
        after[k \in 0 .. Len(ps)] ==
            IF k = 0 THEN row
            ELSE [after[k - 1] EXCEPT ![AttributeIndex(attrs, ps[k].field)] = Stored(@, ps[k].value)]
    IN  after[Len(ps)]
=============================================================================
