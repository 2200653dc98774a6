---------------------------- MODULE QueryService ----------------------------
(***************************************************************************)
(* The clients and the server as processes.  A client reads a line, parses *)
(* and sends it, and waits for the answer.  The server (Thrift's simple    *)
(* server) has one client at a time until that client hangs up; for every  *)
(* query it opens the database, executes, converts the result, closes the  *)
(* database and answers.  The server may end at any moment, by a query it  *)
(* does not survive or from outside, and may be started again.             *)
(*                                                                         *)
(* A query that changes the database is what it leaves in the file: it is  *)
(* in the file for certain when the file was closed.  A file is "bare"     *)
(* between its creation and the first header, and "damaged" when part of a *)
(* query, or a block in the place of the header, is in it.                 *)
(***************************************************************************)
EXTENDS Integers, FiniteSets, Sequences, SequencesExt

CONSTANTS
    Clients,
    None,       \* no client
    Types,      \* the types of query that users type
    MaxLines,   \* bound: queries of a client
    MaxEnds     \* bound: how often the server ends

ASSUME QueryServiceAssumption ==
    /\ None \notin Clients /\ MaxLines \in Nat /\ MaxEnds \in Nat

VARIABLES
    pc,         \* what each client does
    lines,      \* how many lines it has read
    sock,       \* its connection to the server
    request,    \* the query it has sent and the server has not read
    reply,      \* the answer on its way to it
    told,       \* the queries whose answers it printed
    srv,        \* where the server is
    queue,      \* connections that the server has not accepted
    peer,       \* the client it serves
    job,        \* the query it works on
    file,       \* the database file
    stored,     \* the changes in it, in their order
    ends        \* how often the server ended

clientVars == <<pc, lines, told>>
netVars == <<sock, request, reply, queue>>
dbVars == <<file, stored>>
vars == <<clientVars, netVars, srv, peer, job, dbVars, ends>>

-----------------------------------------------------------------------------
(* Types of query *)

QueryTypes == <<"SCHEMA_CREATE", "SCHEMA_GET", "SCHEMA_GET_ALL", "SCHEMA_DELETE",
                "NODE_CREATE", "NODE_UPDATE", "NODE_DELETE", "NODE_MATCH",
                "LINK_CREATE", "LINK_DELETE", "MATCH">>

ASSUME TypesAssumption == Types \subseteq ToSet(QueryTypes)

\* the table is indexed by the number that the type has in the client
ExecutorsWithUpdate == <<"SCHEMA_CREATE", "SCHEMA_GET", "SCHEMA_GET_ALL", "SCHEMA_DELETE",
                         "NODE_CREATE", "NODE_UPDATE", "NODE_DELETE", "NODE_MATCH",
                         "LINK_CREATE", "LINK_UPDATE", "LINK_DELETE", "MATCH">>
Executors == <<"SCHEMA_CREATE", "SCHEMA_GET", "SCHEMA_GET_ALL", "SCHEMA_DELETE",
               "NODE_CREATE", "NODE_UPDATE", "NODE_DELETE", "NODE_MATCH",
               "LINK_CREATE", "LINK_DELETE", "MATCH">>
Executed(type) == Executors[CHOOSE i \in DOMAIN QueryTypes : QueryTypes[i] = type]

Changes(type) ==
    type \notin {"SCHEMA_GET", "SCHEMA_GET_ALL", "NODE_MATCH", "MATCH"}

Ran(q) == [by |-> q.by, n |-> q.n, type |-> q.type, ran |-> Executed(q.type)]

\* Queries that may read through a pointer nobody set: a schema that does not
\* exist stays as malloc gave it, as a result or in a condition, and the where
\* of a dropE has no schema at all.
MayEndServer(type) ==
    type \notin {"SCHEMA_CREATE", "SCHEMA_GET_ALL", "SCHEMA_DELETE", "NODE_CREATE"}

-----------------------------------------------------------------------------

Init ==
    /\ pc = [c \in Clients |-> "start"]
    /\ lines = [c \in Clients |-> 0]
    /\ told = {}
    /\ sock = [c \in Clients |-> "none"]
    /\ request = [c \in Clients |-> <<>>]
    /\ reply = [c \in Clients |-> <<>>]
    /\ queue = <<>>
    /\ srv = "accept" /\ peer = None /\ job = <<>>
    /\ file = "absent" /\ stored = <<>>
    /\ ends = 0

(* The client *)

\* the result of thrift_transport_open is not looked at
Connect(c) ==
    /\ pc[c] = "start"
    /\ pc' = [pc EXCEPT ![c] = "prompt"]
    /\ \/ /\ srv # "down"
          /\ sock' = [sock EXCEPT ![c] = "open"]
          /\ queue' = Append(queue, c)
       \/ /\ srv = "down"
          /\ sock' = [sock EXCEPT ![c] = "dead"]
          /\ UNCHANGED queue
    /\ UNCHANGED <<lines, told, request, reply, srv, peer, job, dbVars, ends>>

\* the process is over, properly or not: its connection is closed
Leave(c, how) ==
    /\ pc' = [pc EXCEPT ![c] = how]
    /\ sock' = [sock EXCEPT ![c] = IF @ = "open" THEN "closed" ELSE @]
    /\ UNCHANGED <<told, request, reply, queue, srv, peer, job, dbVars, ends>>

\* A newline that was typed after a semicolon stays in the input and is the
\* first character of the next line: an "exit;" after it is not one.
IsExit(text, newline) == text = "exit" /\ ~newline

\* A text that is no query leaves the query as get_query initialised it, a
\* SCHEMA_CREATE without a schema, and its conversion reads through the null
\* pointer.  The end of the input gives an empty text, which is no query.
ReadOther(c) ==
    /\ pc[c] = "prompt"
    /\ \E text \in {"exit", "typo", "eof"}, newline \in BOOLEAN :
          /\ lines[c] = 0 => ~newline
          /\ Leave(c, IF IsExit(text, newline) THEN "exited" ELSE "crashed")
    /\ lines' = [lines EXCEPT ![c] = @ + 1]

\* A query on a connection that is dead fails, or the signal of the broken
\* pipe ends the client; it never connects again.
ReadQuery(c) ==
    /\ pc[c] = "prompt"
    /\ lines[c] < MaxLines
    /\ lines' = [lines EXCEPT ![c] = @ + 1]
    /\ \/ /\ sock[c] = "open"
          /\ \E type \in Types :
                request' = [request EXCEPT ![c] = <<[by |-> c, n |-> lines[c] + 1, type |-> type]>>]
          /\ pc' = [pc EXCEPT ![c] = "waiting"]
          /\ UNCHANGED <<told, sock, reply, queue, srv, peer, job, dbVars, ends>>
       \/ /\ sock[c] = "dead"
          /\ Leave(c, "prompt") \/ Leave(c, "crashed")

\* a user ends the client, also while it waits
Abort(c) ==
    /\ pc[c] \in {"prompt", "waiting"}
    /\ Leave(c, "crashed")
    /\ UNCHANGED lines

\* query_svc_if_execute returns: with the answer, or with an exception
Received(c) == [reply EXCEPT ![c] = <<>>]
Receive(c) ==
    /\ pc[c] = "waiting"
    /\ reply[c] # <<>>
    /\ told' = told \union {reply[c][1]}
    /\ reply' = Received(c)
    /\ pc' = [pc EXCEPT ![c] = "prompt"]
    /\ UNCHANGED <<lines, sock, request, queue, srv, peer, job, dbVars, ends>>

Fail(c) ==
    /\ pc[c] = "waiting"
    /\ sock[c] = "dead"
    /\ reply' = [reply EXCEPT ![c] = <<>>]
    /\ pc' = [pc EXCEPT ![c] = "prompt"]
    /\ UNCHANGED <<lines, told, sock, request, queue, srv, peer, job, dbVars, ends>>

-----------------------------------------------------------------------------
(* The server *)

\* thrift_simple_server_serve: accepts a connection, reads queries from it
\* until it is closed, then accepts the next one
AcceptedKept == queue
Accepted == Tail(queue)
Accept ==
    /\ srv = "accept"
    /\ queue # <<>>
    /\ peer' = Head(queue)
    /\ queue' = Accepted
    /\ srv' = "read"
    /\ UNCHANGED <<clientVars, sock, request, reply, job, dbVars, ends>>

HungUpOnExit(c) == pc[c] = "exited"
HungUp(c) == sock[c] = "closed"
Hangup ==
    /\ srv = "read"
    /\ HungUp(peer) /\ request[peer] = <<>>
    /\ srv' = "accept"
    /\ peer' = None
    /\ UNCHANGED <<clientVars, netVars, job, dbVars, ends>>

TakenAgain(c) == request
Taken(c) == [request EXCEPT ![c] = <<>>]
ReadRequest ==
    /\ srv = "read"
    /\ request[peer] # <<>>
    /\ job' = request[peer]
    /\ request' = Taken(peer)
    /\ srv' = "open"
    /\ UNCHANGED <<clientVars, sock, reply, queue, peer, dbVars, ends>>

\* database_open: a file that does not exist is created, and gets a header
\* once it is open; of one that exists the header is read, or, if it has none,
\* taken to name no schema, node or link
OpenedNewPlain == "execute"
OpenedNew == "header"
Open ==
    /\ srv = "open"
    /\ IF file = "absent"
       THEN file' = "bare" /\ srv' = OpenedNew
       ELSE srv' = "execute" /\ UNCHANGED file
    /\ UNCHANGED <<clientVars, netVars, peer, job, stored, ends>>

WriteHeader ==
    /\ srv = "header"
    /\ file' = "sound"
    /\ srv' = "execute"
    /\ UNCHANGED <<clientVars, netVars, peer, job, stored, ends>>

\* example_query_svc_handler_execute: the order of its calls
NextCallEarlyReply == [execute |-> "convert", convert |-> "reply", close |-> "read", reply |-> "close"]
NextCall == [execute |-> "convert", convert |-> "close", close |-> "reply", reply |-> "read"]

\* query_execute
Execute ==
    /\ srv = "execute"
    /\ job' = <<Ran(job[1])>>
    /\ srv' = NextCall[srv]
    /\ UNCHANGED <<clientVars, netVars, peer, dbVars, ends>>

\* convert_result reads what the query's generator finds in the open database
Convert ==
    /\ srv = "convert"
    /\ srv' = NextCall[srv]
    /\ UNCHANGED <<clientVars, netVars, peer, job, dbVars, ends>>

\* What a query that was executed makes of the file.  Without a header the
\* first block of a new schema or node is put where the header is written
\* afterwards; a deletion writes the header whether it finds anything or not.
FileAfter(q) ==
    IF file # "bare" THEN file
    ELSE CASE q.ran \in {"SCHEMA_CREATE", "NODE_CREATE"} -> "damaged"
           [] q.ran \in {"NODE_DELETE", "LINK_DELETE"} -> "sound"
           [] OTHER -> file
StoredAfter(q) == IF Changes(q.ran) THEN Append(stored, q) ELSE stored

\* close_connection: what was written is in the file
Close ==
    /\ srv = "close"
    /\ file' = FileAfter(job[1])
    /\ stored' = StoredAfter(job[1])
    /\ srv' = NextCall[srv]
    /\ UNCHANGED <<clientVars, netVars, peer, job, ends>>

Answer ==
    /\ srv = "reply"
    /\ reply' = [reply EXCEPT ![peer] = IF sock[peer] = "open" THEN job ELSE <<>>]
    /\ srv' = NextCall[srv]
    /\ UNCHANGED <<clientVars, sock, request, queue, peer, job, dbVars, ends>>

\* The process is gone, and with it every connection, accepted or not.
Cut(c) == IF sock[c] = "open" THEN "dead" ELSE sock[c]
Down ==
    /\ srv' = "down"
    /\ peer' = None /\ job' = <<>> /\ queue' = <<>>
    /\ sock' = [c \in Clients |-> Cut(c)]
    /\ request' = [c \in Clients |-> <<>>]
    /\ ends' = ends + 1
    /\ UNCHANGED <<clientVars, reply>>

\* It uses a database it could not create or open, at the latest to close it,
\* or it executes a query that it does not survive and that has changed
\* nothing yet, or follows what it finds in a damaged file, or it answers a
\* client that has gone.
Crash ==
    /\ ends < MaxEnds
    /\ \/ srv = "open" /\ file' \in {file, IF file = "absent" THEN "bare" ELSE file}
       \/ /\ srv \in {"execute", "convert"}
          /\ MayEndServer(Executed(job[1].type)) \/ file = "damaged"
          /\ UNCHANGED file
       \/ srv = "reply" /\ sock[peer] = "closed" /\ UNCHANGED file
    /\ Down
    /\ UNCHANGED stored

\* It is ended from outside.  Of a header or of a query that was not closed
\* nothing, a part or all may be in the file.
Kill ==
    /\ ends < MaxEnds
    /\ srv # "down"
    /\ Down
    /\ \/ UNCHANGED dbVars
       \/ srv = "header" /\ file' = "sound" /\ UNCHANGED stored
       \/ /\ srv \in {"execute", "convert", "close"}
          /\ Changes(Executed(job[1].type))
          /\ \/ file' = "damaged" /\ UNCHANGED stored
             \/ file' = FileAfter(Ran(job[1])) /\ stored' = StoredAfter(Ran(job[1]))

Restart ==
    /\ srv = "down"
    /\ srv' = "accept"
    /\ UNCHANGED <<clientVars, netVars, peer, job, dbVars, ends>>

-----------------------------------------------------------------------------

Work ==
    \/ Accept \/ Hangup \/ ReadRequest \/ Open \/ WriteHeader
    \/ Execute \/ Convert \/ Close \/ Answer

Next ==
    \/ \E c \in Clients :
          Connect(c) \/ ReadOther(c) \/ ReadQuery(c) \/ Receive(c) \/ Fail(c) \/ Abort(c)
    \/ Work \/ Crash \/ Kill \/ Restart

\* Lists in a damaged file may run in circles.
Circling == srv \in {"execute", "convert"} /\ file = "damaged"

\* A process that can go on does, be it client or server, and a user goes on
\* typing and ends at last.  Nobody has to start a server again.
Spec ==
    /\ Init /\ [][Next]_vars
    /\ WF_vars(Work /\ ~Circling)
    /\ \A c \in Clients :
          /\ WF_vars(Connect(c))
          /\ WF_vars(Receive(c) \/ Fail(c))
          /\ WF_vars(ReadOther(c))

-----------------------------------------------------------------------------
(* Properties *)

Busy == {"open", "header", "execute", "convert", "close", "reply"}

\* The server serves a client or none, as its position says, and every
\* connection that is not dead is the one it serves or waits to be accepted.
TypeOK ==
    /\ srv \in {"down", "accept", "read"} \union Busy
    /\ peer = None <=> srv \in {"down", "accept"}
    /\ file \in {"absent", "bare", "sound", "damaged"}
    /\ IsInjective(queue) /\ peer \notin ToSet(queue)
    /\ \A c \in Clients : sock[c] = "open" => c = peer \/ c \in ToSet(queue)

\* While a client waits on a connection, its query is in one place: on its way
\* to the server, in the server, or answered.  None is lost, none is done twice.
InFlight ==
    \A c \in Clients : pc[c] = "waiting" /\ sock[c] = "open" =>
        Cardinality({place \in {"request", "server", "reply"} :
            \/ place = "request" /\ request[c] # <<>>
            \/ place = "server" /\ srv \in Busy /\ peer = c
            \/ place = "reply" /\ reply[c] # <<>>}) = 1

\* A client that was given an answer can rely on it: as long as the file is
\* not damaged, every change that was answered is in it, whenever the server
\* ended and was started again.  (Answered before the database is closed, a
\* change is lost if the server ends in between.)
AnsweredIsStored ==
    file # "damaged" =>
        \A q \in told : Changes(q.type) => \E i \in DOMAIN stored : stored[i].by = q.by /\ stored[i].n = q.n

\* The changes in the file are queries that were typed, executed as what they
\* are, each once and those of a client in the order in which it sent them.
StoredAsTyped ==
    /\ \A i \in DOMAIN stored : stored[i].ran = stored[i].type /\ stored[i].n <= lines[stored[i].by]
    /\ \A i, j \in DOMAIN stored :
          i < j /\ stored[i].by = stored[j].by => stored[i].n < stored[j].n

\* Only an end of the server in the middle of something damages the file.
OnlyEndsDamage == ends = 0 => file # "damaged"

\* A query is answered, or its client is told that it failed, also if the
\* server serves others first or ends.  Of a damaged file nothing is promised.
NobodyWaitsForever ==
    \A c \in Clients : pc[c] = "waiting" ~> pc[c] # "waiting" \/ file = "damaged"
=============================================================================
