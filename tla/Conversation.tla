---------------------------- MODULE Conversation ----------------------------
(***************************************************************************)
(* A query on its way through the layers, and its answer back: what the    *)
(* parser built, the client's object, the message, the server's object,    *)
(* the query that is executed; the result, the server's object, the        *)
(* message, the client's object, what is printed.  What a query finds is   *)
(* left open here: any schemas, nodes and links.  A server that ends is    *)
(* started again, and a client with it.                                    *)
(***************************************************************************)
EXTENDS MessageContent

CONSTANTS
    Queries,        \* what the parser can have built
    StoredSchemas,  \* what the database can hold
    StoredNodes,
    StoredLinks,
    MaxFound        \* bound: elements of a result

ASSUME ConversationAssumption ==
    /\ Null # "" /\ MaxFound \in Nat
    /\ \A q \in Queries : Client!IsQuery(q)
    /\ \A s \in StoredSchemas : Server!IsSchema(s)
    /\ \A n \in StoredNodes : Server!IsNode(n)
    /\ \A l \in StoredLinks : Server!IsLink(l)

VARIABLES
    stage,      \* how far the query is
    typed,      \* the query that the client was given
    result,     \* the client's object for the answer
    shown,      \* what the client prints
    wire,       \* the message between client and server
    executed,   \* the query the server executed
    found       \* its result

conversation == <<stage, typed, result, shown, wire, executed, found>>

-----------------------------------------------------------------------------
(* query_manager.c, as far as the type of a result and its status go *)

Elements(type) ==
    CASE type = "SCHEMA_GET_ALL" -> StoredSchemas
      [] type = "NODE_MATCH" -> StoredNodes
      [] type = "MATCH" -> [first : StoredNodes, link : StoredLinks, second : StoredNodes]

StatusCode(rc) == Code(Server!RESULT_CODES, rc)
Statuses(type) ==
    {StatusCode(rc) : rc \in {"RC_OK"}
        \union (IF type = "SCHEMA_DELETE" THEN {"RC_DATABASE_NO_SUCH_SCHEMA"} ELSE {})
        \union (IF type = "NODE_UPDATE" THEN {"RC_DATA_TYPES_ARE_NOT_EQUAL"} ELSE {})}

\* a schema that does not exist is a pointer that nobody set
ResultsOf(type) ==
    CASE type = "SCHEMA_GET" ->
            [type : {"RESULT_SCHEMA"}, status : Statuses(type), schema : StoredSchemas \union {Null}]
      [] type \in Generated ->
            [type : {"RESULT_GENERATOR"}, status : Statuses(type),
             generator : UNION {[1 .. n -> Elements(type)] : n \in 0 .. MaxFound}]
      [] OTHER -> [type : {"RESULT_NONE"}, status : Statuses(type)]

-----------------------------------------------------------------------------

ConversationInit ==
    /\ stage = "prompt"
    /\ typed = Null /\ result = Null /\ shown = Null
    /\ wire = Null /\ executed = Null /\ found = Null

\* client.c: every query has a new object for its answer
Ask ==
    /\ stage = "prompt"
    /\ typed' \in Queries
    /\ wire' = send_execute(Client!convert_query(typed'))
    /\ result' = New(I_QueryResult)
    /\ stage' = "waiting"
    /\ UNCHANGED <<shown, executed, found>>

\* example_query_svc_handler_execute, between the two messages
Serve ==
    /\ stage = "waiting"
    /\ Served(wire)
    /\ executed' \in Server!convert_query(QueryOf(wire))
    /\ found' \in ResultsOf(executed'.type)
    /\ \E answer \in Server!convert_result(found', executed'.type) :
          wire' = ReplyWith(answer)
    /\ stage' = "answered"
    /\ UNCHANGED <<typed, result, shown>>

\* The server ends in a conversion that it does not survive.
EndServer ==
    /\ stage = "waiting"
    /\ \/ Server!convert_query(QueryOf(wire)) = {}
       \/ \E q \in Server!convert_query(QueryOf(wire)) : \E r \in ResultsOf(q.type) :
             Server!convert_result(r, q.type) = {}
    /\ wire' = Null
    /\ stage' = "ended"
    /\ UNCHANGED <<typed, result, shown, executed, found>>

\* query_svc_if_execute returns, and print_result
Show ==
    /\ stage = "answered"
    /\ Understood(wire)
    /\ result' = recv_execute(result, wire)
    /\ shown' = Client!print_result(result')
    /\ stage' = "shown"
    /\ UNCHANGED <<typed, wire, executed, found>>

\* The loop goes round: what a turn had of its own is gone.
NextTurn ==
    /\ stage \in {"shown", "ended"}
    /\ stage' = "prompt"
    /\ typed' = Null /\ result' = Null /\ shown' = Null
    /\ wire' = Null /\ executed' = Null /\ found' = Null

ConversationNext == Ask \/ Serve \/ EndServer \/ Show \/ NextTurn

ConversationSpec == ConversationInit /\ [][ConversationNext]_conversation

-----------------------------------------------------------------------------
(* Properties *)

\* The query that the server executes is the one that was typed: the same
\* type, names, values with their types, comparisons and directions, in the
\* order they were typed, whichever enumerations, unions and numbers of fields
\* lie between.  Of a name without letters, and of conditions that are more
\* than an and of terms, it is not promised.
QueryArrives ==
    /\ stage \in {"answered", "shown"}
    /\ "" \notin Looked(typed)
    /\ \A c \in ConditionsOf(typed) : Simple(c)
    => executed = Says(typed)

\* Nothing of a message is lost or confused, also what no converter reads: the
\* object that the server reads holds the query that was typed, up to texts
\* without letters; and the one that the client reads holds the result, and
\* nothing of an earlier one.
MessagesSurvive ==
    /\ stage = "waiting" => HoldsQuery(QueryOf(wire), typed)
    /\ stage = "shown" => HoldsResult(result, executed.type, found)

\* What the client prints is what the query found, with its values, directions
\* and types, and the message of its status.
ResultShown ==
    stage = "shown" =>
        /\ shown.message = Server!RESULT_CODES[found.status + 1]
        /\ Printed(shown.items, executed.type, found)

\* Only a text without letters that is given, or a schema that does not exist,
\* makes a conversion end the server.
EndsOnlyOnBlank ==
    stage = "ended" => "" \in Given(typed) \/ typed.type = "SCHEMA_GET"
=============================================================================
