---------------------------- MODULE SchemaStore ----------------------------
(***************************************************************************)
(* The schemas of the database: a singly linked list in the file, whose    *)
(* ends the database header holds.  A schema owns the block of its name,   *)
(* and two blocks per attribute.  Insertions are given blocks that are not *)
(* in use, as BlockStore guarantees.                                       *)
(*                                                                         *)
(* A name is a sequence of letters.  The file keeps the letters and their  *)
(* number, and no terminating zero.                                        *)
(***************************************************************************)
EXTENDS EntityList, Functions, SequencesExt

CONSTANTS
    Names,      \* the names that queries use
    MaxAttrs    \* bound: attributes of a schema

ASSUME SchemaStoreAssumption == MaxAttrs \in Nat

VARIABLES
    used,           \* the blocks that are not free
    first, last,    \* db_header->schema_first, schema_last
    schema,         \* the schema blocks in use: name, the blocks owned, next
    reply           \* what the last query returned

vars == <<used, first, last, schema, reply>>

\* all_schemas and schema_next: the pointers of an iteration
Listed == Walk(schema, first)

Init ==
    /\ used = {}
    /\ first = Null /\ last = Null
    /\ schema = <<>>
    /\ reply = [rc |-> "OK"]

Parts(n) == ({"schema", "name"} \X {0}) \union ({"attr", "attr_name"} \X (1 .. n))

\* schema_create.  With schema_last = nullptr and a list that is not empty the
\* new pointer is written into the database header, which is then written
\* anew: no schema block changes.
LastKept(p) == IF last = Null THEN p ELSE last
NewLast(p) == p

Create(name, n, at) ==
    LET p == at[<<"schema", 0>>]
        linked == IF first = Null THEN schema ELSE SetNext(schema, last, p)
    IN  /\ used' = used \union Range(at)
        /\ schema' = [q \in DOMAIN schema \union {p} |->
                        IF q = p THEN [name |-> name, owns |-> Range(at) \ {p}, next |-> Null]
                        ELSE linked[q]]
        /\ first' = IF first = Null THEN p ELSE first
        /\ last' = NewLast(p)
        /\ reply' = [rc |-> "OK"]

\* schema_find compares as many letters as the stored name has
SameName(asked, stored) == IsPrefix(stored, asked)

Matches(name) == SelectSeq(Listed, LAMBDA p : SameName(name, schema[p].name))

\* schema_show
Get(name) ==
    /\ reply' = IF Matches(name) = <<>>
                THEN [rc |-> "NO_SUCH_SCHEMA"]
                ELSE [rc |-> "OK", found |-> schema[Matches(name)[1]].name]
    /\ UNCHANGED <<used, first, last, schema>>

\* schema_delete, having stopped at position i of the list.  The predecessor
\* takes over the successor; the tail's deletion clears schema_last.
Closed(prev, p) == SetNext(schema, prev, schema[p].next)

LastAfterKept(p) == last
LastAfter(p) == IF last = p THEN Null ELSE last

FreedSchemaOnly(p) == {p}
Freed(p) == {p} \union schema[p].owns

Unlink(i) ==
    LET p == Listed[i]
        closed == IF i = 1 THEN schema ELSE Closed(Listed[i-1], p)
    IN  /\ first' = IF i = 1 THEN schema[p].next ELSE first
        /\ last' = LastAfter(p)
        /\ schema' = Restrict(closed, DOMAIN schema \ {p})
        /\ used' = used \ Freed(p)

\* strcmp reads behind the letters of the stored name, into memory that may
\* hold a zero, or the letters that the asked name goes on with, or something
\* else: a schema of that name may be passed over, and one whose name is the
\* beginning of it may be taken.  The code returned is that of the last block
\* read.
Drop(name) ==
    \/ \E i \in DOMAIN Listed :
          /\ IsPrefix(schema[Listed[i]].name, name)
          /\ Unlink(i)
          /\ reply' = [rc |-> "OK"]
    \/ /\ reply' = [rc |-> IF first = Null THEN "NO_SUCH_SCHEMA" ELSE "OK"]
       /\ UNCHANGED <<used, first, last, schema>>

Next ==
    \E name \in Names :
        \/ \E n \in 0 .. MaxAttrs : \E at \in Injection(Parts(n), Ptr \ used) : Create(name, n, at)
        \/ Get(name)
        \/ Drop(name)

Spec == Init /\ [][Next]_vars

-----------------------------------------------------------------------------
(* Properties *)

\* The list ends: an iteration reads only schemas in use, none of them twice,
\* and stops at a null pointer.  The end that the header remembers is a schema
\* in use as well, so that no insertion writes into a block of another kind.
ListEnds ==
    /\ IsInjective(Listed)
    /\ first # Null => Listed # <<>> /\ schema[Last(Listed)].next = Null
    /\ last # Null => last \in DOMAIN schema /\ schema[last].next = Null

\* Every block in use belongs to one schema: dropping a schema gives back all
\* of its blocks and none of another's.
OwnedOnce ==
    /\ used = DOMAIN schema \union UNION {schema[p].owns : p \in DOMAIN schema}
    /\ \A p, q \in DOMAIN schema :
          /\ q \notin schema[p].owns
          /\ p # q => schema[p].owns \intersect schema[q].owns = {}

\* db_lib/README.md:342: the header points to the first and the last schema.
HeaderNamesEnds ==
    /\ Range(Listed) = DOMAIN schema
    /\ last = IF first = Null THEN Null ELSE Last(Listed)

\* The list loses its end only by a drop of the last schema of several: any
\* other query leaves a header that names both ends of a list of all schemas.
OnlyTailDropLosesEnd ==
    [][ HeaderNamesEnds /\ ~(last' = Null /\ first' # Null) => HeaderNamesEnds' ]_vars
=============================================================================
