------------------------- MODULE QueryService_proofs -------------------------
(***************************************************************************)
(* The safety of what is between the users and the database, proved: of    *)
(* QueryService for any clients, any types of query of the program, and    *)
(* any number of queries and of ends of the server; of QueryMeaning for    *)
(* any schemas, values and queries; and of Conversation for any queries    *)
(* that the parser can build and any results.  The three have no state in  *)
(* common.                                                                 *)
(***************************************************************************)
EXTENDS QueryService, QueryMeaning, Conversation,
        SequenceTheorems, FiniteSetTheorems, TLAPS

\* induction, recursion and the least of a set of numbers
Data == INSTANCE EntityList_proofs WITH Ptr <- Nat, Null <- -1

-----------------------------------------------------------------------------
(* QueryService: lemmas on the operators *)

\* The table of executors agrees with the enumeration of the client: a query
\* is executed as what it is.
LEMMA ExecutedAsTyped == \A type \in Types : Executed(type) = type
<1> SUFFICES ASSUME NEW type \in Types
             PROVE  Executed(type) = type
  OBVIOUS
<1>1. Executors = QueryTypes
  BY DEF Executors, QueryTypes
<1>2. PICK i \in DOMAIN QueryTypes : QueryTypes[i] = type
  BY TypesAssumption DEF ToSet
<1>3. QueryTypes[CHOOSE j \in DOMAIN QueryTypes : QueryTypes[j] = type] = type
  BY <1>2
<1> QED
  BY <1>1, <1>3 DEF Executed

\* The calls of the handler follow each other as in the source.
LEMMA CallsInOrder ==
    /\ NextCall["execute"] = "convert"
    /\ NextCall["convert"] = "close"
    /\ NextCall["close"] = "reply"
    /\ NextCall["reply"] = "read"
BY DEF NextCall

Asked == [by : Clients, n : Nat, type : Types]
Done == {q \in [by : Clients, n : Nat, type : Types, ran : Types] : q.ran = q.type}
Some(S) == {<<q>> : q \in S}

LEMMA RanFacts ==
    ASSUME NEW q \in Asked \union Done
    PROVE  /\ Ran(q) \in Done
           /\ Ran(q).by = q.by /\ Ran(q).n = q.n /\ Ran(q).type = q.type
BY ExecutedAsTyped DEF Ran, Asked, Done

-----------------------------------------------------------------------------
(* Where each variable takes its values *)

Typed ==
    /\ pc \in [Clients -> {"start", "prompt", "waiting", "exited", "crashed"}]
    /\ lines \in [Clients -> Nat]
    /\ told \subseteq Done
    /\ sock \in [Clients -> {"none", "open", "dead", "closed"}]
    /\ request \in [Clients -> {<<>>} \union Some(Asked)]
    /\ reply \in [Clients -> {<<>>} \union Some(Done)]
    /\ queue \in Seq(Clients)
    /\ srv \in {"down", "accept", "read"} \union Busy
    /\ peer \in Clients \union {None}
    /\ peer = None <=> srv \in {"down", "accept"}
    /\ srv \in {"open", "header", "execute"} => job \in Some(Asked)
    /\ srv \in {"convert", "close", "reply"} => job \in Some(Done)
    /\ file \in {"absent", "bare", "sound", "damaged"}
    /\ stored \in Seq(Done)
    /\ ends \in Nat

\* What a process, or the file, is turned into is of its type again.
LEMMA FileTyped ==
    ASSUME Typed, NEW q \in Done
    PROVE  /\ FileAfter(q) \in {"absent", "bare", "sound", "damaged"}
           /\ StoredAfter(q) \in Seq(Done)
BY DEF Typed, FileAfter, StoredAfter

LEMMA InitTyped == Init => Typed
BY QueryServiceAssumption DEF Init, Typed, Busy

LEMMA NextTyped == Typed /\ [Next]_vars => Typed'
<1> SUFFICES ASSUME Typed, [Next]_vars
             PROVE  Typed'
  OBVIOUS
<1> USE DEF Typed, clientVars, netVars, dbVars, Busy
<1>1. ASSUME NEW c \in Clients, Connect(c)
      PROVE  Typed'
  <2>1. CASE queue' = Append(queue, c)
    <3>1. queue' \in Seq(Clients)
      BY <2>1, AppendProperties
    <3> QED
      BY <1>1, <3>1 DEF Connect
  <2>2. CASE queue' = queue
    BY <1>1, <2>2 DEF Connect
  <2> QED
    BY <1>1, <2>1, <2>2 DEF Connect
<1>2. ASSUME NEW c \in Clients, NEW how \in {"prompt", "exited", "crashed"}, Leave(c, how),
             lines' \in [Clients -> Nat]
      PROVE  Typed'
  BY <1>2 DEF Leave
<1>3. ASSUME NEW c \in Clients, ReadOther(c)
      PROVE  Typed'
  BY <1>2, <1>3 DEF ReadOther
<1>4. ASSUME NEW c \in Clients, ReadQuery(c)
      PROVE  Typed'
  <2>1. lines' \in [Clients -> Nat] /\ lines[c] + 1 \in Nat
    BY <1>4 DEF ReadQuery
  <2>2. CASE sock[c] = "dead"
    BY <1>2, <1>4, <2>1, <2>2 DEF ReadQuery
  <2>3. CASE sock[c] = "open"
    <3>1. PICK type \in Types :
             request' = [request EXCEPT ![c] = <<[by |-> c, n |-> lines[c] + 1, type |-> type]>>]
      BY <1>4, <2>3 DEF ReadQuery
    <3>2. request' \in [Clients -> {<<>>} \union Some(Asked)]
      BY <2>1, <3>1 DEF Some, Asked
    <3> QED
      BY <1>4, <2>1, <2>3, <3>2 DEF ReadQuery
  <2> QED
    BY <1>4, <2>2, <2>3 DEF ReadQuery
<1>5. ASSUME NEW c \in Clients, Receive(c)
      PROVE  Typed'
  BY <1>5 DEF Receive, Received, Some
<1>6. ASSUME NEW c \in Clients, Fail(c)
      PROVE  Typed'
  BY <1>6 DEF Fail
<1>7. ASSUME NEW c \in Clients, Abort(c)
      PROVE  Typed'
  BY <1>2, <1>7 DEF Abort
<1>8. ASSUME Accept
      PROVE  Typed'
  <2>1. peer' \in Clients /\ queue' \in Seq(Clients)
    BY <1>8 DEF Accept, Accepted
  <2> QED
    BY <1>8, <2>1, QueryServiceAssumption DEF Accept
<1>9. ASSUME Hangup
      PROVE  Typed'
  BY <1>9 DEF Hangup
<1>10. ASSUME ReadRequest
       PROVE  Typed'
  <2>1. peer \in Clients
    BY <1>10 DEF ReadRequest
  <2>2. job' \in Some(Asked) /\ request' \in [Clients -> {<<>>} \union Some(Asked)]
    BY <1>10, <2>1 DEF ReadRequest, Taken
  <2> QED
    BY <1>10, <2>2 DEF ReadRequest
<1>11. ASSUME Open
       PROVE  Typed'
  BY <1>11 DEF Open, OpenedNew
<1>12. ASSUME WriteHeader
       PROVE  Typed'
  BY <1>12 DEF WriteHeader
<1>13. ASSUME Execute
       PROVE  Typed'
  <2>1. srv' = "convert"
    BY <1>13, CallsInOrder DEF Execute
  <2>2. job' \in Some(Done)
    BY <1>13, RanFacts DEF Execute, Some
  <2> QED
    BY <1>13, <2>1, <2>2 DEF Execute
<1>14. ASSUME Convert
       PROVE  Typed'
  BY <1>14, CallsInOrder DEF Convert
<1>15. ASSUME Close
       PROVE  Typed'
  <2>1. job[1] \in Done
    BY <1>15 DEF Close, Some
  <2>2. srv' = "reply"
    BY <1>15, CallsInOrder DEF Close
  <2> QED
    BY <1>15, <2>1, <2>2, FileTyped DEF Close
<1>16. ASSUME Answer
       PROVE  Typed'
  <2>1. srv' = "read" /\ peer \in Clients
    BY <1>16, CallsInOrder DEF Answer
  <2> QED
    BY <1>16, <2>1 DEF Answer
<1>17. ASSUME Down, file' \in {"absent", "bare", "sound", "damaged"}, stored' \in Seq(Done)
       PROVE  Typed'
  BY <1>17 DEF Down, Cut
<1>18. ASSUME Crash
       PROVE  Typed'
  BY <1>17, <1>18 DEF Crash
<1>19. ASSUME Kill
       PROVE  Typed'
  <2>1. ASSUME srv \in {"execute", "convert", "close"}
        PROVE  Ran(job[1]) \in Done
    BY <2>1, RanFacts DEF Some
  <2>2. file' \in {"absent", "bare", "sound", "damaged"} /\ stored' \in Seq(Done)
    BY <1>19, <2>1, FileTyped DEF Kill
  <2> QED
    BY <1>17, <1>19, <2>2 DEF Kill
<1>20. ASSUME Restart
       PROVE  Typed'
  BY <1>20 DEF Restart
<1>21. CASE UNCHANGED vars
  BY <1>21 DEF vars
<1> QED
  BY <1>1, <1>3, <1>4, <1>5, <1>6, <1>7, <1>8, <1>9, <1>10, <1>11, <1>12, <1>13, <1>14,
     <1>15, <1>16, <1>18, <1>19, <1>20, <1>21 DEF Next, Work

LEMMA TypedAlways == Spec => []Typed
BY InitTyped, NextTyped, PTL DEF Spec

-----------------------------------------------------------------------------
(* Connections.  TypeOK needs that a client connects once only (a queue    *)
(* would hold it twice otherwise), which its place in the loop tells, and  *)
(* that a connection in the queue or served is not a dead one.             *)

Connected ==
    /\ \A c \in Clients :
          /\ pc[c] = "start" <=> sock[c] = "none"
          /\ sock[c] = "open" => pc[c] \in {"prompt", "waiting"}
          /\ sock[c] = "closed" => pc[c] \in {"exited", "crashed"}
          /\ sock[c] = "open" => c = peer \/ \E i \in DOMAIN queue : queue[i] = c
    /\ \A i, j \in DOMAIN queue : queue[i] = queue[j] => i = j
    /\ \A i \in DOMAIN queue : queue[i] # peer /\ sock[queue[i]] \in {"open", "closed"}
    /\ peer # None => sock[peer] \in {"open", "closed"}

LEMMA InitConnected == Init => Connected
BY DEF Init, Connected

\* Whoever leaves keeps its place in the queue, or as the client served.
LEMMA LeaveConnected ==
    ASSUME Typed, Connected, NEW c \in Clients, NEW how \in {"prompt", "exited", "crashed"},
           Leave(c, how), pc[c] \in {"prompt", "waiting"},
           how = "prompt" => sock[c] = "dead"
    PROVE  Connected'
<1>1. queue' = queue /\ peer' = peer
  BY DEF Leave, dbVars
<1>2. \A d \in Clients : d # c => pc'[d] = pc[d] /\ sock'[d] = sock[d]
  BY DEF Typed, Leave
<1>3. pc'[c] = how /\ sock'[c] = IF sock[c] = "open" THEN "closed" ELSE sock[c]
  BY DEF Typed, Leave
<1>4. \A i \in DOMAIN queue : queue[i] \in Clients
  BY DEF Typed
<1>5. peer # None => peer \in Clients
  BY DEF Typed
<1>6. ASSUME NEW d \in Clients
      PROVE  /\ pc'[d] = "start" <=> sock'[d] = "none"
             /\ sock'[d] = "open" => pc'[d] \in {"prompt", "waiting"}
             /\ sock'[d] = "closed" => pc'[d] \in {"exited", "crashed"}
             /\ sock'[d] = "open" => d = peer \/ \E i \in DOMAIN queue : queue[i] = d
             /\ sock[d] \in {"open", "closed"} => sock'[d] \in {"open", "closed"}
  <2>1. CASE d = c
    <3>1. sock[c] # "none" /\ (how = "prompt" => sock[c] = "dead")
      BY DEF Connected
    <3>2. sock[c] = "closed" => pc[c] \in {"exited", "crashed"}
      BY DEF Connected
    <3> QED
      BY <1>3, <2>1, <3>1, <3>2
  <2>2. CASE d # c
    BY <1>2, <2>2 DEF Connected
  <2> QED
    BY <2>1, <2>2
<1> QED
  BY <1>1, <1>4, <1>5, <1>6 DEF Connected

LEMMA NextConnected == Typed /\ Connected /\ [Next]_vars => Connected'
<1> SUFFICES ASSUME Typed, Connected, [Next]_vars
             PROVE  Connected'
  OBVIOUS
<1> USE DEF clientVars, netVars, dbVars
<1>0. queue \in Seq(Clients) /\ \A i \in DOMAIN queue : queue[i] \in Clients
  BY DEF Typed
<1>1. ASSUME NEW c \in Clients, Connect(c)
      PROVE  Connected'
  <2>1. peer' = peer /\ pc' = [pc EXCEPT ![c] = "prompt"] /\ pc[c] = "start" /\ sock[c] = "none"
    BY <1>1 DEF Connect, Connected
  <2>2. c # peer /\ \A i \in DOMAIN queue : queue[i] # c
    BY <2>1, QueryServiceAssumption DEF Connected
  <2>3. CASE sock' = [sock EXCEPT ![c] = "open"] /\ queue' = Append(queue, c)
    <3>1. /\ Len(queue') = Len(queue) + 1 /\ Len(queue) \in Nat
          /\ DOMAIN queue' = 1 .. Len(queue) + 1 /\ DOMAIN queue = 1 .. Len(queue)
          /\ \A i \in DOMAIN queue : queue'[i] = queue[i]
          /\ queue'[Len(queue) + 1] = c
      BY <1>0, <2>3, AppendProperties
    <3>2. \A i \in DOMAIN queue' : i \in DOMAIN queue \/ i = Len(queue) + 1
      BY <3>1
    <3>3. \A i, j \in DOMAIN queue' : queue'[i] = queue'[j] => i = j
      BY <2>2, <3>1, <3>2 DEF Connected
    <3>4. \A d \in Clients : d # c => pc'[d] = pc[d] /\ sock'[d] = sock[d]
      BY <2>1, <2>3 DEF Typed
    <3>5. pc'[c] = "prompt" /\ sock'[c] = "open"
      BY <2>1, <2>3 DEF Typed
    <3>6. \A i \in DOMAIN queue' : queue'[i] # peer' /\ sock'[queue'[i]] \in {"open", "closed"}
      BY <1>0, <2>1, <2>2, <3>1, <3>2, <3>4, <3>5 DEF Connected
    <3>7. peer' # None => sock'[peer'] \in {"open", "closed"}
      BY <2>1, <2>2, <3>4 DEF Connected, Typed
    <3>8. \A d \in Clients : sock'[d] = "open" => d = peer' \/ \E i \in DOMAIN queue' : queue'[i] = d
      BY <2>1, <3>1, <3>4 DEF Connected
    <3> QED
      BY <3>3, <3>4, <3>5, <3>6, <3>7, <3>8 DEF Connected
  <2>4. CASE sock' = [sock EXCEPT ![c] = "dead"] /\ queue' = queue
    <3>1. \A d \in Clients : d # c => pc'[d] = pc[d] /\ sock'[d] = sock[d]
      BY <2>1, <2>4 DEF Typed
    <3>2. pc'[c] = "prompt" /\ sock'[c] = "dead"
      BY <2>1, <2>4 DEF Typed
    <3> QED
      BY <1>0, <2>1, <2>2, <2>4, <3>1, <3>2 DEF Connected, Typed
  <2> QED
    BY <1>1, <2>3, <2>4 DEF Connect
<1>2. ASSUME NEW c \in Clients, ReadOther(c)
      PROVE  Connected'
  BY <1>2, LeaveConnected DEF ReadOther
<1>3. ASSUME NEW c \in Clients, ReadQuery(c)
      PROVE  Connected'
  <2>1. CASE sock[c] = "dead" /\ (Leave(c, "prompt") \/ Leave(c, "crashed"))
    BY <1>3, <2>1, LeaveConnected DEF ReadQuery
  <2>2. CASE /\ sock[c] = "open" /\ pc' = [pc EXCEPT ![c] = "waiting"]
             /\ UNCHANGED <<sock, queue, peer>>
    BY <1>3, <2>2 DEF Connected, Typed, ReadQuery
  <2> QED
    BY <1>3, <2>1, <2>2 DEF ReadQuery
<1>4. ASSUME NEW c \in Clients, Receive(c) \/ Fail(c)
      PROVE  Connected'
  <2>1. pc[c] = "waiting" /\ pc' = [pc EXCEPT ![c] = "prompt"] /\ UNCHANGED <<sock, queue, peer>>
    BY <1>4 DEF Receive, Fail
  <2> QED
    BY <2>1 DEF Connected, Typed
<1>5. ASSUME NEW c \in Clients, Abort(c)
      PROVE  Connected'
  BY <1>5, LeaveConnected DEF Abort
<1>6. ASSUME Accept
      PROVE  Connected'
  <2>1. /\ queue # <<>> /\ peer = None /\ peer' = queue[1] /\ queue' = Tail(queue)
        /\ UNCHANGED <<pc, sock>>
    BY <1>6 DEF Accept, Accepted, Typed
  <2>2. /\ Len(queue) \in Nat /\ Len(queue) > 0 /\ DOMAIN queue = 1 .. Len(queue)
        /\ DOMAIN queue' = 1 .. Len(queue) - 1
        /\ \A i \in 1 .. Len(queue) - 1 : queue'[i] = queue[i + 1]
    BY <1>0, <2>1, HeadTailProperties
  <2>3. \A i, j \in DOMAIN queue' : queue'[i] = queue'[j] => i = j
    <3> SUFFICES ASSUME NEW i \in DOMAIN queue', NEW j \in DOMAIN queue', queue'[i] = queue'[j]
                 PROVE  i = j
      OBVIOUS
    <3>1. i + 1 \in DOMAIN queue /\ j + 1 \in DOMAIN queue /\ queue[i + 1] = queue[j + 1]
      BY <2>2
    <3>2. i + 1 = j + 1
      BY <3>1 DEF Connected
    <3> QED
      BY <2>2, <3>2
  <2>4. \A i \in DOMAIN queue' : queue'[i] # peer' /\ sock'[queue'[i]] \in {"open", "closed"}
    <3> SUFFICES ASSUME NEW i \in DOMAIN queue'
                 PROVE  queue'[i] # peer' /\ sock'[queue'[i]] \in {"open", "closed"}
      OBVIOUS
    <3>1. i + 1 \in DOMAIN queue /\ 1 \in DOMAIN queue /\ i + 1 # 1 /\ queue'[i] = queue[i + 1]
      BY <2>2
    <3> QED
      BY <2>1, <3>1 DEF Connected
  <2>5. \A d \in Clients : sock'[d] = "open" => d = peer' \/ \E i \in DOMAIN queue' : queue'[i] = d
    <3> SUFFICES ASSUME NEW d \in Clients, sock[d] = "open", d # queue[1]
                 PROVE  \E i \in DOMAIN queue' : queue'[i] = d
      BY <2>1
    <3>1. PICK i \in DOMAIN queue : queue[i] = d
      BY <2>1, QueryServiceAssumption DEF Connected
    <3>2. i - 1 \in DOMAIN queue' /\ queue'[i - 1] = d
      BY <2>2, <3>1
    <3> QED
      BY <3>2
  <2>6. sock'[peer'] \in {"open", "closed"}
    BY <2>1, <2>2 DEF Connected
  <2> QED
    BY <2>1, <2>3, <2>4, <2>5, <2>6 DEF Connected
<1>7. ASSUME Hangup
      PROVE  Connected'
  <2>1. sock[peer] = "closed" /\ peer' = None /\ UNCHANGED <<pc, sock, queue>>
    BY <1>7 DEF Hangup, HungUp
  <2> QED
    BY <1>0, <2>1, QueryServiceAssumption DEF Connected
<1>8. ASSUME ReadRequest \/ Open \/ WriteHeader \/ Execute \/ Convert \/ Close \/ Answer \/ Restart
      PROVE  Connected'
  <2>1. UNCHANGED <<pc, sock, queue, peer>>
    BY <1>8 DEF ReadRequest, Open, WriteHeader, Execute, Convert, Close, Answer, Restart
  <2> QED
    BY <2>1 DEF Connected
<1>9. ASSUME Down
      PROVE  Connected'
  <2>1. pc' = pc /\ peer' = None /\ queue' = <<>> /\ sock' = [c \in Clients |-> Cut(c)]
    BY <1>9 DEF Down
  <2>2. \A c \in Clients : sock'[c] = IF sock[c] = "open" THEN "dead" ELSE sock[c]
    BY <2>1 DEF Cut
  <2> QED
    BY <2>1, <2>2 DEF Connected
<1>10. CASE UNCHANGED vars
  BY <1>10 DEF vars, Connected
<1> QED
  BY <1>1, <1>2, <1>3, <1>4, <1>5, <1>6, <1>7, <1>8, <1>9, <1>10 DEF Next, Work, Crash, Kill

LEMMA ConnectedAlways == Spec => []Connected
BY TypedAlways, InitConnected, NextConnected, PTL DEF Spec

\* The server serves whom it accepted and nobody twice, and no connection
\* that lives is forgotten, whichever clients and ends of processes there are.
THEOREM TypeCorrect == Spec => []TypeOK
<1>1. Typed /\ Connected => TypeOK
  <2> SUFFICES ASSUME Typed, Connected
               PROVE  TypeOK
    OBVIOUS
  <2>1. ToSet(queue) = {queue[i] : i \in DOMAIN queue}
    BY DEF ToSet
  <2>2. IsInjective(queue)
    BY DEF IsInjective, Connected
  <2>3. peer \notin ToSet(queue)
    BY <2>1 DEF Connected
  <2>4. \A c \in Clients : sock[c] = "open" => c = peer \/ c \in ToSet(queue)
    BY <2>1 DEF Connected
  <2> QED
    BY <2>2, <2>3, <2>4 DEF Typed, TypeOK
<1> QED
  BY <1>1, TypedAlways, ConnectedAlways, PTL

-----------------------------------------------------------------------------
(* Where a query is.  InFlight is about clients that wait; it is kept only *)
(* because nothing of an earlier query is left in any of the three places  *)
(* when a client asks, and because of no client there is ever something in *)
(* two of them, also of one that has gone.                                 *)

InServer(c) == srv \in Busy /\ peer = c

Placed ==
    \A c \in Clients :
        /\ pc[c] \in {"start", "prompt"} => request[c] = <<>> /\ reply[c] = <<>> /\ ~InServer(c)
        /\ request[c] # <<>> => reply[c] = <<>> /\ ~InServer(c)
        /\ InServer(c) => reply[c] = <<>>
        /\ sock[c] = "dead" => request[c] = <<>>
        /\ pc[c] = "waiting" /\ sock[c] = "open" =>
              request[c] # <<>> \/ InServer(c) \/ reply[c] # <<>>

LEMMA InitPlaced == Init => Placed
BY DEF Init, Placed, InServer, Busy

\* Going away takes nothing from any place.
LEMMA LeavePlaced ==
    ASSUME Typed, Placed, NEW c \in Clients, NEW how \in {"prompt", "exited", "crashed"},
           Leave(c, how), how = "prompt" => pc[c] = "prompt"
    PROVE  Placed'
<1>1. UNCHANGED <<request, reply, srv, peer>>
  BY DEF Leave
<1>2. \A d \in Clients : d # c => pc'[d] = pc[d] /\ sock'[d] = sock[d]
  BY DEF Typed, Leave
<1>3. pc'[c] = how /\ sock'[c] = IF sock[c] = "open" THEN "closed" ELSE sock[c]
  BY DEF Typed, Leave
<1> QED
  BY <1>1, <1>2, <1>3 DEF Placed, InServer

LEMMA NextPlaced == Typed /\ Connected /\ Placed /\ [Next]_vars => Placed'
<1> SUFFICES ASSUME Typed, Connected, Placed, [Next]_vars
             PROVE  Placed'
  OBVIOUS
<1> USE DEF clientVars, netVars, dbVars
<1>1. ASSUME NEW c \in Clients, Connect(c)
      PROVE  Placed'
  <2>1. \A d \in Clients : d # c => pc'[d] = pc[d] /\ sock'[d] = sock[d]
    BY <1>1 DEF Typed, Connect
  <2>2. pc[c] = "start" /\ pc'[c] = "prompt" /\ UNCHANGED <<request, reply, srv, peer>>
    BY <1>1 DEF Typed, Connect
  <2> QED
    BY <2>1, <2>2 DEF Placed, InServer
<1>2. ASSUME NEW c \in Clients, ReadOther(c) \/ Abort(c)
      PROVE  Placed'
  BY <1>2, LeavePlaced DEF ReadOther, Abort
<1>3. ASSUME NEW c \in Clients, ReadQuery(c)
      PROVE  Placed'
  <2>1. CASE sock[c] = "dead" /\ (Leave(c, "prompt") \/ Leave(c, "crashed"))
    BY <1>3, <2>1, LeavePlaced DEF ReadQuery
  <2>2. CASE sock[c] = "open" /\ UNCHANGED <<reply, sock, srv, peer>>
    <3>1. PICK q : request' = [request EXCEPT ![c] = <<q>>]
      BY <1>3, <2>2 DEF ReadQuery
    <3>2. pc[c] = "prompt" /\ pc' = [pc EXCEPT ![c] = "waiting"]
      BY <1>3, <2>2 DEF ReadQuery
    <3>3. pc'[c] = "waiting" /\ request'[c] # <<>>
      BY <3>1, <3>2 DEF Typed
    <3>4. \A d \in Clients : d # c => pc'[d] = pc[d] /\ request'[d] = request[d]
      BY <3>1, <3>2 DEF Typed
    <3> QED
      BY <2>2, <3>2, <3>3, <3>4 DEF Placed, InServer
  <2> QED
    BY <1>3, <2>1, <2>2 DEF ReadQuery
<1>4. ASSUME NEW c \in Clients, Receive(c) \/ Fail(c)
      PROVE  Placed'
  <2>1. /\ pc[c] = "waiting" /\ (reply[c] # <<>> \/ sock[c] = "dead")
        /\ pc'[c] = "prompt" /\ reply'[c] = <<>> /\ UNCHANGED <<request, sock, srv, peer>>
    BY <1>4 DEF Typed, Receive, Received, Fail
  <2>2. \A d \in Clients : d # c => pc'[d] = pc[d] /\ reply'[d] = reply[d]
    BY <1>4 DEF Typed, Receive, Received, Fail
  <2>3. request[c] = <<>> /\ ~InServer(c)
    BY <2>1, QueryServiceAssumption DEF Placed, Connected, InServer
  <2> QED
    BY <2>1, <2>2, <2>3 DEF Placed, InServer
<1>5. ASSUME Accept \/ Hangup
      PROVE  Placed'
  <2>1. srv \notin Busy /\ srv' \notin Busy /\ UNCHANGED <<pc, sock, request, reply>>
    BY <1>5 DEF Accept, Hangup, Busy
  <2> QED
    BY <2>1 DEF Placed, InServer
<1>6. ASSUME ReadRequest
      PROVE  Placed'
  <2>1. /\ peer \in Clients /\ srv \notin Busy /\ srv' \in Busy /\ request[peer] # <<>>
        /\ request'[peer] = <<>> /\ UNCHANGED <<pc, sock, reply, peer>>
    BY <1>6 DEF ReadRequest, Taken, Typed, Busy
  <2>2. \A d \in Clients : d # peer => request'[d] = request[d]
    BY <1>6 DEF ReadRequest, Taken, Typed
  <2> QED
    BY <2>1, <2>2 DEF Placed, InServer
<1>7. ASSUME Open \/ WriteHeader \/ Execute \/ Convert \/ Close
      PROVE  Placed'
  <2>1. srv \in Busy /\ srv' \in Busy /\ UNCHANGED <<pc, sock, request, reply, peer>>
    BY <1>7, CallsInOrder DEF Open, OpenedNew, WriteHeader, Execute, Convert, Close, Busy
  <2> QED
    BY <2>1 DEF Placed, InServer
<1>8. ASSUME Answer
      PROVE  Placed'
  <2>1. /\ peer \in Clients /\ srv \in Busy /\ srv' \notin Busy
        /\ UNCHANGED <<pc, sock, request, peer>>
    BY <1>8, CallsInOrder DEF Answer, Typed, Busy
  <2>2. job # <<>>
    <3>1. job \in Some(Done)
      BY <1>8 DEF Answer, Typed
    <3> QED
      BY <3>1 DEF Some
  <2>3. reply'[peer] = IF sock[peer] = "open" THEN job ELSE <<>>
    BY <1>8, <2>1 DEF Answer, Typed
  <2>4. \A d \in Clients : d # peer => reply'[d] = reply[d]
    BY <1>8 DEF Answer, Typed
  <2>5. sock[peer] = "open" => pc[peer] = "waiting"
    BY <2>1 DEF Connected, Placed, InServer
  <2>6. pc[peer] \notin {"start", "prompt"}
    BY <2>1 DEF Placed, InServer
  <2> QED
    BY <2>1, <2>2, <2>3, <2>4, <2>5, <2>6 DEF Placed, InServer
<1>9. ASSUME Down
      PROVE  Placed'
  <2>1. /\ srv' \notin Busy /\ UNCHANGED <<pc, reply>>
        /\ \A c \in Clients : request'[c] = <<>> /\ sock'[c] # "open"
    BY <1>9 DEF Down, Cut, Busy
  <2> QED
    BY <2>1 DEF Placed, InServer
<1>10. ASSUME Restart
       PROVE  Placed'
  <2>1. srv \notin Busy /\ srv' \notin Busy /\ UNCHANGED <<pc, sock, request, reply>>
    BY <1>10 DEF Restart, Busy
  <2> QED
    BY <2>1 DEF Placed, InServer
<1>11. CASE UNCHANGED vars
  BY <1>11 DEF vars, Placed, InServer
<1> QED
  BY <1>1, <1>2, <1>3, <1>4, <1>5, <1>6, <1>7, <1>8, <1>9, <1>10, <1>11
     DEF Next, Work, Crash, Kill

LEMMA PlacedAlways == Spec => []Placed
BY TypedAlways, ConnectedAlways, InitPlaced, NextPlaced, PTL DEF Spec

\* While a client waits on a connection its query is in exactly one place:
\* the server neither loses a query nor takes one twice.
THEOREM QueryInOnePlace == Spec => []InFlight
<1>1. Typed /\ Placed => InFlight
  <2> SUFFICES ASSUME Typed, Placed, NEW c \in Clients, pc[c] = "waiting", sock[c] = "open"
               PROVE  Cardinality({place \in {"request", "server", "reply"} :
                          \/ place = "request" /\ request[c] # <<>>
                          \/ place = "server" /\ srv \in Busy /\ peer = c
                          \/ place = "reply" /\ reply[c] # <<>>}) = 1
    BY DEF InFlight
  <2> DEFINE Places == {place \in {"request", "server", "reply"} :
                          \/ place = "request" /\ request[c] # <<>>
                          \/ place = "server" /\ srv \in Busy /\ peer = c
                          \/ place = "reply" /\ reply[c] # <<>>}
  <2>1. Places = {"request"} \/ Places = {"server"} \/ Places = {"reply"}
    BY DEF Placed, InServer
  <2> QED
    BY <2>1, FS_Singleton
<1> QED
  BY <1>1, TypedAlways, PlacedAlways, PTL

-----------------------------------------------------------------------------
(* The file.  That it is bare only while its header is being written holds *)
(* as long as no process has ended, and keeps the first query from damage. *)

Damage ==
    /\ srv = "header" => file = "bare"
    /\ ends = 0 => file # "damaged" /\ (file = "bare" => srv = "header")

LEMMA InitDamage == Init => Damage
BY DEF Init, Damage

LEMMA NextDamage == Typed /\ Damage /\ [Next]_vars => Damage'
<1> SUFFICES ASSUME Typed, Damage, [Next]_vars
             PROVE  Damage'
  OBVIOUS
<1> USE DEF clientVars, netVars, dbVars
<1>1. ASSUME NEW c \in Clients,
             \/ Connect(c) \/ ReadOther(c) \/ ReadQuery(c) \/ Receive(c) \/ Fail(c) \/ Abort(c)
      PROVE  Damage'
  <2>1. UNCHANGED <<srv, file, ends>>
    BY <1>1 DEF Connect, ReadOther, ReadQuery, Receive, Fail, Abort, Leave
  <2> QED
    BY <2>1 DEF Damage
<1>2. ASSUME Accept \/ Hangup \/ ReadRequest \/ Execute \/ Convert \/ Answer \/ Restart
      PROVE  Damage'
  <2>1. srv # "header" /\ srv' # "header" /\ UNCHANGED <<file, ends>>
    BY <1>2, CallsInOrder
       DEF Accept, Hangup, ReadRequest, Execute, Convert, Answer, Restart
  <2> QED
    BY <2>1 DEF Damage
<1>3. ASSUME Open
      PROVE  Damage'
  BY <1>3 DEF Damage, Open, OpenedNew
<1>4. ASSUME WriteHeader
      PROVE  Damage'
  BY <1>4 DEF Damage, WriteHeader
<1>5. ASSUME Close
      PROVE  Damage'
  <2>1. srv # "header" /\ srv' # "header" /\ ends' = ends /\ file' = FileAfter(job[1])
    BY <1>5, CallsInOrder DEF Close
  <2> QED
    BY <2>1 DEF Damage, FileAfter
<1>6. ASSUME Down
      PROVE  Damage'
  <2>1. srv' = "down" /\ ends' # 0
    BY <1>6 DEF Down, Typed
  <2> QED
    BY <2>1 DEF Damage
<1>7. CASE UNCHANGED vars
  BY <1>7 DEF vars, Damage
<1> QED
  BY <1>1, <1>2, <1>3, <1>4, <1>5, <1>6, <1>7 DEF Next, Work, Crash, Kill

LEMMA DamageAlways == Spec => []Damage
BY TypedAlways, InitDamage, NextDamage, PTL DEF Spec

\* As long as the server has not ended, no query damages the file, in whatever
\* order the clients come.
THEOREM DamageByEndsOnly == Spec => []OnlyEndsDamage
<1>1. Damage => OnlyEndsDamage
  BY DEF Damage, OnlyEndsDamage
<1> QED
  BY <1>1, DamageAlways, PTL

-----------------------------------------------------------------------------
(* The order of changes.  What is still to be done for a client is newer   *)
(* than all that is in the file of it.                                     *)

Newer(q, c) ==
    /\ q.by = c /\ q.n <= lines[c]
    /\ \A i \in DOMAIN stored : stored[i].by = c => stored[i].n < q.n

InOrder ==
    /\ \A i \in DOMAIN stored : stored[i].n <= lines[stored[i].by]
    /\ \A i, j \in DOMAIN stored : i < j /\ stored[i].by = stored[j].by => stored[i].n < stored[j].n

Ordered ==
    /\ InOrder
    /\ \A c \in Clients : request[c] # <<>> => Newer(request[c][1], c)
    /\ srv \in Busy \ {"reply"} => Newer(job[1], peer)

LEMMA InitOrdered == Init => Ordered
BY DEF Init, Ordered, InOrder, Newer, Busy

\* A step that stores nothing and asks nothing new.
LEMMA QuietOrdered ==
    ASSUME Typed, Typed', Ordered,
           stored' = stored,
           \A c \in Clients : lines[c] <= lines'[c],
           \A c \in Clients : request'[c] # <<>> => request'[c] = request[c],
           srv' \in Busy \ {"reply"} =>
              srv \in Busy \ {"reply"} /\ peer' = peer /\ job'[1].by = job[1].by /\ job'[1].n = job[1].n
    PROVE  Ordered'
<1>1. \A i \in DOMAIN stored : stored[i].by \in Clients /\ stored[i].n \in Nat
  BY DEF Typed, Done
<1>2. InOrder'
  BY <1>1 DEF Typed, Ordered, InOrder
<1>3. ASSUME NEW c \in Clients, request'[c] # <<>>
      PROVE  Newer(request[c][1], c)' /\ request'[c] = request[c]
  <2>1. request'[c] = request[c] /\ Newer(request[c][1], c) /\ request[c][1].n \in Nat
    BY <1>3 DEF Typed, Ordered, Some, Asked
  <2> QED
    BY <2>1, <1>1 DEF Newer, Typed
<1>4. ASSUME srv' \in Busy \ {"reply"}
      PROVE  Newer(job[1], peer)'
  <2>1. peer \in Clients /\ job[1].n \in Nat
    <3>1. srv \in Busy \ {"reply"}
      BY <1>4
    <3>2. job \in Some(Asked \union Done) /\ peer \in Clients
      BY <3>1 DEF Typed, Busy, Some
    <3> QED
      BY <3>2 DEF Some, Asked, Done
  <2> QED
    BY <2>1, <1>1, <1>4 DEF Newer, Typed, Ordered
<1> QED
  BY <1>2, <1>3, <1>4 DEF Ordered

\* A change at the end of the file is newer than those before it.
LEMMA StoreOrdered ==
    ASSUME Typed, InOrder, NEW q \in Done, NEW c \in Clients, Newer(q, c),
           lines' = lines, stored' = StoredAfter(q)
    PROVE  /\ InOrder'
           /\ \A d \in Clients \ {c} : \A p \in Asked : Newer(p, d) => Newer(p, d)'
<1>1. CASE stored' = stored
  BY <1>1 DEF InOrder, Newer
<1>2. CASE stored' = Append(stored, q)
  <2>1. /\ Len(stored) \in Nat /\ DOMAIN stored = 1 .. Len(stored)
        /\ DOMAIN stored' = 1 .. Len(stored) + 1
        /\ \A i \in DOMAIN stored : stored'[i] = stored[i]
        /\ stored'[Len(stored) + 1] = q
    BY <1>2, AppendProperties DEF Typed
  <2>2. \A i \in DOMAIN stored' : i \in DOMAIN stored \/ i = Len(stored) + 1
    BY <2>1
  <2>3. \A i, j \in DOMAIN stored' : i < j => i \in DOMAIN stored
    BY <2>1
  <2>4. \A i \in DOMAIN stored' : stored'[i].n <= lines'[stored'[i].by]
    BY <2>1, <2>2 DEF InOrder, Newer
  <2>5. \A i, j \in DOMAIN stored' : i < j /\ stored'[i].by = stored'[j].by => stored'[i].n < stored'[j].n
    <3> SUFFICES ASSUME NEW i \in DOMAIN stored', NEW j \in DOMAIN stored',
                        i < j, stored'[i].by = stored'[j].by
                 PROVE  stored'[i].n < stored'[j].n
      OBVIOUS
    <3>1. i \in DOMAIN stored /\ stored'[i] = stored[i]
      BY <2>1, <2>3
    <3>2. CASE j \in DOMAIN stored
      BY <2>1, <3>1, <3>2 DEF InOrder
    <3>3. CASE j = Len(stored) + 1
      BY <2>1, <3>1, <3>3 DEF Newer
    <3> QED
      BY <2>2, <3>2, <3>3
  <2>6. ASSUME NEW d \in Clients \ {c}, NEW p \in Asked, Newer(p, d)
        PROVE  Newer(p, d)'
    <3>1. \A i \in DOMAIN stored' : stored'[i].by = d => i \in DOMAIN stored
      BY <2>1, <2>2 DEF Newer
    <3> QED
      BY <2>1, <2>6, <3>1 DEF Newer
  <2> QED
    BY <2>4, <2>5, <2>6 DEF InOrder
<1> QED
  BY <1>1, <1>2 DEF StoredAfter

LEMMA NextOrdered == Typed /\ Typed' /\ Placed /\ Ordered /\ [Next]_vars => Ordered'
<1> SUFFICES ASSUME Typed, Typed', Placed, Ordered, [Next]_vars
             PROVE  Ordered'
  OBVIOUS
<1> USE DEF clientVars, netVars, dbVars
<1>0. /\ \A c \in Clients : lines[c] \in Nat
      /\ \A c \in Clients : lines[c] <= lines[c] /\ lines[c] <= lines[c] + 1
  BY DEF Typed
<1>1. ASSUME NEW c \in Clients, Connect(c) \/ Receive(c) \/ Fail(c) \/ Abort(c)
      PROVE  Ordered'
  <2>1. UNCHANGED <<lines, request, srv, peer, job, stored>>
    BY <1>1 DEF Connect, Receive, Fail, Abort, Leave
  <2> QED
    BY <1>0, <2>1, QuietOrdered
<1>2. ASSUME NEW c \in Clients, lines' = [lines EXCEPT ![c] = @ + 1],
             UNCHANGED <<request, srv, peer, job, stored>>
      PROVE  Ordered'
  <2>1. \A d \in Clients : lines[d] <= lines'[d]
    BY <1>0, <1>2 DEF Typed
  <2> QED
    BY <1>2, <2>1, QuietOrdered
<1>3. ASSUME NEW c \in Clients, ReadOther(c)
      PROVE  Ordered'
  BY <1>2, <1>3 DEF ReadOther, Leave
<1>4. ASSUME NEW c \in Clients, ReadQuery(c)
      PROVE  Ordered'
  <2>1. CASE Leave(c, "prompt") \/ Leave(c, "crashed")
    BY <1>2, <1>4, <2>1 DEF ReadQuery, Leave
  <2>2. CASE sock[c] = "open"
    <3>1. PICK type \in Types :
             request' = [request EXCEPT ![c] = <<[by |-> c, n |-> lines[c] + 1, type |-> type]>>]
      BY <1>4, <2>2 DEF ReadQuery, Leave
    <3>2. lines' = [lines EXCEPT ![c] = @ + 1] /\ UNCHANGED <<srv, peer, job, stored>>
      BY <1>4, <2>2 DEF ReadQuery, Leave
    <3>3. pc[c] = "prompt"
      BY <1>4 DEF ReadQuery
    <3>4. \A d \in Clients : d # c => request'[d] = request[d] /\ lines'[d] = lines[d]
      BY <3>1, <3>2 DEF Typed
    <3>5. lines'[c] = lines[c] + 1
      BY <3>2 DEF Typed
    <3>6. \A i \in DOMAIN stored : stored[i].by \in Clients /\ stored[i].n \in Nat
      <4>1. \A i \in DOMAIN stored : stored[i] \in Done
        BY DEF Typed
      <4> QED
        BY <4>1 DEF Done
    <3>7. InOrder'
      BY <1>0, <3>2, <3>4, <3>5, <3>6 DEF Ordered, InOrder
    <3>8. Newer(request[c][1], c)'
      <4>1. \A i \in DOMAIN stored : stored[i].by = c => stored[i].n < lines[c] + 1
        BY <1>0, <3>6 DEF Ordered, InOrder
      <4>2. request'[c][1].by = c /\ request'[c][1].n = lines[c] + 1
        BY <3>1 DEF Typed
      <4> QED
        BY <1>0, <3>2, <3>5, <4>1, <4>2 DEF Newer
    <3>9. ASSUME NEW d \in Clients \ {c}, request'[d] # <<>>
          PROVE  Newer(request[d][1], d)'
      BY <3>2, <3>4, <3>9 DEF Ordered, Newer
    <3>10. srv' \in Busy \ {"reply"} => Newer(job[1], peer)'
      <4> SUFFICES ASSUME srv \in Busy \ {"reply"}
                   PROVE  Newer(job[1], peer)'
        BY <3>2
      <4>1. peer \in Clients /\ Newer(job[1], peer)
        BY DEF Ordered, Typed, Busy
      <4>2. peer # c
        BY <3>3 DEF Placed, InServer
      <4> QED
        BY <3>2, <3>4, <4>1, <4>2 DEF Newer
    <3> QED
      BY <3>7, <3>8, <3>9, <3>10 DEF Ordered
  <2> QED
    BY <1>4, <2>1, <2>2 DEF ReadQuery
<1>5. ASSUME Accept \/ Hangup \/ Restart
      PROVE  Ordered'
  <2>1. srv' \notin Busy /\ UNCHANGED <<lines, request, stored>>
    BY <1>5 DEF Accept, Hangup, Restart, Busy
  <2> QED
    BY <1>0, <2>1, QuietOrdered
<1>6. ASSUME ReadRequest
      PROVE  Ordered'
  <2>1. /\ peer \in Clients /\ peer' = peer /\ job' = request[peer] /\ request[peer] # <<>>
        /\ request' = [request EXCEPT ![peer] = <<>>] /\ UNCHANGED <<lines, stored>>
    BY <1>6 DEF ReadRequest, Taken, Typed
  <2>2. \A c \in Clients : request'[c] # <<>> => request'[c] = request[c]
    BY <2>1 DEF Typed
  <2>3. Newer(job[1], peer)'
    BY <2>1 DEF Ordered, Newer
  <2> QED
    BY <2>1, <2>2, <2>3 DEF Ordered, InOrder, Newer
<1>7. ASSUME Open \/ WriteHeader \/ Convert
      PROVE  Ordered'
  <2>1. srv \in Busy \ {"reply"} /\ UNCHANGED <<lines, request, peer, job, stored>>
    BY <1>7 DEF Open, WriteHeader, Convert, Busy
  <2> QED
    BY <1>0, <2>1, QuietOrdered
<1>8. ASSUME Execute
      PROVE  Ordered'
  <2>1. srv = "execute" /\ job' = <<Ran(job[1])>> /\ UNCHANGED <<lines, request, peer, stored>>
    BY <1>8 DEF Execute
  <2>2. job'[1].by = job[1].by /\ job'[1].n = job[1].n
    BY <2>1 DEF Ran
  <2> QED
    BY <1>0, <2>1, <2>2, QuietOrdered DEF Busy
<1>9. ASSUME Close
      PROVE  Ordered'
  <2>1. /\ srv = "close" /\ srv' = "reply" /\ peer \in Clients /\ job[1] \in Done
        /\ stored' = StoredAfter(job[1]) /\ UNCHANGED <<lines, request>>
    BY <1>9, CallsInOrder DEF Close, Typed, Some
  <2>2. Newer(job[1], peer)
    BY <2>1 DEF Ordered, Busy
  <2>3. InOrder' /\ \A d \in Clients \ {peer} : \A p \in Asked : Newer(p, d) => Newer(p, d)'
    BY <2>1, <2>2, StoreOrdered DEF Ordered
  <2>4. request[peer] = <<>>
    BY <2>1 DEF Placed, InServer, Busy
  <2>5. ASSUME NEW d \in Clients, request'[d] # <<>>
        PROVE  Newer(request[d][1], d)'
    <3>1. d # peer /\ Newer(request[d][1], d)
      BY <2>1, <2>4, <2>5 DEF Ordered
    <3>2. request[d][1] \in Asked
      BY <2>1, <2>5 DEF Typed, Some
    <3>3. \A p \in Asked : Newer(p, d) => Newer(p, d)'
      BY <2>3, <3>1
    <3> QED
      BY <2>1, <3>1, <3>2, <3>3 DEF Newer
  <2> QED
    BY <2>1, <2>3, <2>5 DEF Ordered
<1>10. ASSUME Answer
       PROVE  Ordered'
  <2>1. srv' = "read" /\ UNCHANGED <<lines, request, stored>>
    BY <1>10, CallsInOrder DEF Answer
  <2> QED
    BY <1>0, <2>1, QuietOrdered DEF Busy
<1>11. ASSUME Down, UNCHANGED stored
       PROVE  Ordered'
  <2>1. srv' = "down" /\ lines' = lines /\ \A c \in Clients : request'[c] = <<>>
    BY <1>11 DEF Down
  <2> QED
    BY <1>0, <1>11, <2>1, QuietOrdered DEF Busy
<1>12. ASSUME Down, srv \in {"execute", "convert", "close"}, stored' = StoredAfter(Ran(job[1]))
       PROVE  Ordered'
  <2>1. srv' = "down" /\ lines' = lines /\ \A c \in Clients : request'[c] = <<>>
    BY <1>12 DEF Down
  <2>2. peer \in Clients /\ job[1] \in Asked \union Done
    BY <1>12 DEF Typed, Some
  <2>3. Ran(job[1]) \in Done /\ Newer(Ran(job[1]), peer)
    BY <1>12, <2>2, RanFacts DEF Ordered, Newer, Busy
  <2>4. InOrder'
    BY <1>12, <2>1, <2>2, <2>3, StoreOrdered DEF Ordered
  <2> QED
    BY <2>1, <2>4 DEF Ordered, Busy
<1>13. CASE UNCHANGED vars
  BY <1>13 DEF vars, Ordered, InOrder, Newer
<1> QED
  BY <1>1, <1>3, <1>4, <1>5, <1>6, <1>7, <1>8, <1>9, <1>10, <1>11, <1>12, <1>13
     DEF Next, Work, Crash, Kill

LEMMA OrderedAlways == Spec => []Ordered
BY TypedAlways, PlacedAlways, InitOrdered, NextOrdered, PTL DEF Spec

\* The changes in the file are what was typed, each at most once and those of
\* a client in its order, also across ends of the server.
THEOREM ChangesInOrder == Spec => []StoredAsTyped
<1>1. Typed /\ Ordered => StoredAsTyped
  BY DEF Typed, Done, Ordered, InOrder, StoredAsTyped
<1> QED
  BY <1>1, TypedAlways, OrderedAlways, PTL

-----------------------------------------------------------------------------
(* Answers.  A change is in the file before its answer is on its way, and   *)
(* what is in the file stays, unless the file is damaged.                  *)

InFile(q) ==
    Changes(q.type) => \E i \in DOMAIN stored : stored[i].by = q.by /\ stored[i].n = q.n

Answered ==
    file # "damaged" =>
        /\ \A q \in told : InFile(q)
        /\ \A c \in Clients : reply[c] # <<>> => InFile(reply[c][1])
        /\ srv = "reply" => InFile(job[1])

LEMMA InitAnswered == Init => Answered
BY DEF Init, Answered

\* What is stored stays where it is, and a damaged file stays damaged.
LEMMA StoredStays ==
    ASSUME Typed, Damage, [Next]_vars
    PROVE  /\ \A i \in DOMAIN stored : i \in DOMAIN stored' /\ stored'[i] = stored[i]
           /\ file' # "damaged" => file # "damaged"
<1> USE DEF clientVars, netVars, dbVars
<1>1. ASSUME NEW q, stored' = StoredAfter(q), q \in Done
      PROVE  \A i \in DOMAIN stored : i \in DOMAIN stored' /\ stored'[i] = stored[i]
  BY <1>1, AppendProperties DEF Typed, StoredAfter
<1>2. \A q : FileAfter(q) # "damaged" => file # "damaged"
  BY DEF FileAfter
<1>3. CASE UNCHANGED <<file, stored>>
  BY <1>3
<1>4. CASE Open \/ WriteHeader
  BY <1>4 DEF Open, WriteHeader, Damage
<1>5. CASE Close
  BY <1>1, <1>2, <1>5 DEF Close, Typed, Some
<1>6. CASE Crash
  BY <1>6 DEF Crash
<1>7. CASE Kill
  <2>1. CASE UNCHANGED stored /\ (file' = "damaged" \/ file' = file \/ srv = "header")
    BY <2>1 DEF Damage
  <2>2. CASE /\ srv \in {"execute", "convert", "close"}
             /\ file' = FileAfter(Ran(job[1])) /\ stored' = StoredAfter(Ran(job[1]))
    <3>1. Ran(job[1]) \in Done
      BY <2>2, RanFacts DEF Typed, Some
    <3> QED
      BY <1>1, <1>2, <2>2, <3>1
  <2> QED
    BY <1>7, <2>1, <2>2 DEF Kill
<1> QED
  BY <1>3, <1>4, <1>5, <1>6, <1>7
     DEF vars, Next, Work, Connect, ReadOther, ReadQuery, Receive, Fail, Abort, Leave,
         Accept, Hangup, ReadRequest, Execute, Convert, Answer, Restart

\* The same of the file that a step leaves behind.
Kept(q) ==
    Changes(q.type) => \E i \in DOMAIN stored' : stored'[i].by = q.by /\ stored'[i].n = q.n

LEMMA NextAnswered == Typed /\ Damage /\ Answered /\ [Next]_vars => Answered'
<1> SUFFICES ASSUME Typed, Damage, Answered, [Next]_vars, file' # "damaged"
             PROVE  /\ \A q \in told' : Kept(q)
                    /\ \A c \in Clients : reply'[c] # <<>> => Kept(reply'[c][1])
                    /\ srv' = "reply" => Kept(job'[1])
  BY DEF Answered, InFile, Kept
<1> USE DEF clientVars, netVars, dbVars
<1>1. ASSUME NEW q, InFile(q)
      PROVE  Kept(q)
  <2>1. \A i \in DOMAIN stored : i \in DOMAIN stored' /\ stored'[i] = stored[i]
    BY StoredStays
  <2> QED
    BY <1>1, <2>1 DEF InFile, Kept
<1>2. /\ \A q \in told : Kept(q)
      /\ \A c \in Clients : reply[c] # <<>> => Kept(reply[c][1])
      /\ srv = "reply" => Kept(job[1])
  <2>1. file # "damaged"
    BY StoredStays
  <2> QED
    BY <1>1, <2>1 DEF Answered
<1>3. ASSUME NEW c \in Clients, Receive(c)
      PROVE  Answered'
  <2>1. /\ reply[c] # <<>> /\ told' = told \union {reply[c][1]} /\ UNCHANGED <<srv, job>>
        /\ \A d \in Clients : reply'[d] # <<>> => reply'[d] = reply[d]
    BY <1>3 DEF Receive, Received, Typed
  <2> QED
    BY <1>2, <2>1 DEF Answered, InFile, Kept
<1>4. ASSUME NEW c \in Clients, Fail(c)
      PROVE  Answered'
  <2>1. /\ UNCHANGED <<told, srv, job>>
        /\ \A d \in Clients : reply'[d] # <<>> => reply'[d] = reply[d]
    BY <1>4 DEF Fail, Typed
  <2> QED
    BY <1>2, <2>1 DEF Answered, InFile, Kept
<1>5. ASSUME NEW c \in Clients, Connect(c) \/ ReadOther(c) \/ ReadQuery(c) \/ Abort(c)
      PROVE  Answered'
  <2>1. UNCHANGED <<told, reply, srv, job>>
    BY <1>5 DEF Connect, ReadOther, ReadQuery, Abort, Leave
  <2> QED
    BY <1>2, <2>1 DEF Answered, InFile, Kept
<1>6. ASSUME srv' # "reply", UNCHANGED <<told, reply>>
      PROVE  Answered'
  BY <1>2, <1>6 DEF Answered, InFile, Kept
<1>7. ASSUME Accept \/ Hangup \/ ReadRequest \/ Open \/ WriteHeader \/ Execute \/ Convert \/ Restart
      PROVE  Answered'
  <2>1. srv' # "reply" /\ UNCHANGED <<told, reply>>
    BY <1>7, CallsInOrder
       DEF Accept, Hangup, ReadRequest, Open, OpenedNew, WriteHeader, Execute, Convert, Restart
  <2> QED
    BY <1>6, <2>1
<1>8. ASSUME Close
      PROVE  Answered'
  <2>1. /\ job[1] \in Done /\ stored' = StoredAfter(job[1]) /\ UNCHANGED <<told, reply, job>>
    BY <1>8 DEF Close, Typed, Some
  <2>2. Kept(job[1])
    <3> SUFFICES ASSUME Changes(job[1].type)
                 PROVE  \E i \in DOMAIN stored' : stored'[i] = job[1]
      BY DEF Kept
    <3>1. stored' = Append(stored, job[1])
      BY <2>1 DEF StoredAfter, Done
    <3>2. Len(stored) + 1 \in DOMAIN stored' /\ stored'[Len(stored) + 1] = job[1]
      BY <2>1, <3>1, AppendProperties DEF Typed
    <3> QED
      BY <3>2
  <2> QED
    BY <1>2, <2>1, <2>2 DEF Answered, InFile, Kept
<1>9. ASSUME Answer
      PROVE  Answered'
  <2>1. srv = "reply" /\ srv' = "read" /\ told' = told
    BY <1>9, CallsInOrder DEF Answer
  <2>2. \A c \in Clients : reply'[c] # <<>> => reply'[c] = reply[c] \/ reply'[c] = job
    BY <1>9 DEF Answer, Typed
  <2>3. \A c \in Clients : reply'[c] # <<>> => Kept(reply'[c][1])
    BY <1>2, <2>1, <2>2
  <2> QED
    BY <1>2, <2>1, <2>3 DEF Answered, InFile, Kept
<1>10. ASSUME Down
       PROVE  Answered'
  <2>1. srv' # "reply" /\ UNCHANGED <<told, reply>>
    BY <1>10 DEF Down
  <2> QED
    BY <1>6, <2>1
<1>11. ASSUME UNCHANGED vars
       PROVE  Answered'
  BY <1>2, <1>11 DEF vars, Answered, InFile, Kept
<1>12. Answered'
  BY <1>3, <1>4, <1>5, <1>7, <1>8, <1>9, <1>10, <1>11 DEF Next, Work, Crash, Kill
<1> QED
  BY <1>12 DEF Answered, InFile, Kept

LEMMA AnsweredAlways == Spec => []Answered
BY TypedAlways, DamageAlways, InitAnswered, NextAnswered, PTL DEF Spec

\* A client can rely on an answer: the change it is about is in the file,
\* however often the server ended since, unless such an end damaged the file.
THEOREM AnswersHold == Spec => []AnsweredIsStored
<1>1. Answered => AnsweredIsStored
  BY DEF Answered, InFile, AnsweredIsStored
<1> QED
  BY <1>1, AnsweredAlways, PTL

-----------------------------------------------------------------------------
(* Conditions.  A term on an attribute that cannot be taken for another    *)
(* one, and on numbers that a float holds, has one outcome.                *)

LEMMA NamedByItself ==
    ASSUME NEW name \in Seq(Nat)
    PROVE  AttributeNamed(name, name)
<1> DEFINE n == IF Len(name) < PtrSize THEN Len(name) ELSE PtrSize
           start == SubSeq(name, 1, n)
<1>1. n \in Nat /\ n <= Len(name)
  BY QueryPathAssumption
<1> HIDE DEF n
<1>2. Len(start) = n
  BY <1>1
<1> QED
  BY <1>1, <1>2 DEF AttributeNamed, IsPrefix, n

LEMMA IndexIs ==
    ASSUME attrs \in Seq(Seq(Nat)), NEW i \in DOMAIN attrs, Unmistakable(i)
    PROVE  AttributeIndex(attrs, attrs[i]) = i
<1>1. AttributeNamed(attrs[i], attrs[i])
  BY NamedByItself
<1>2. {k \in 1 .. Len(attrs) : AttributeNamed(attrs[k], attrs[i])} = {i}
  BY <1>1 DEF Unmistakable
<1>3. SelectInSeq(attrs, LAMBDA a : AttributeNamed(a, attrs[i])) = Min({i})
  BY <1>2 DEF SelectInSeq
<1>4. Min({i}) = i
  BY DEF Min
<1>5. i # 0
  OBVIOUS
<1> QED
  BY <1>3, <1>4, <1>5 DEF AttributeIndex

LEMMA ClearTerm ==
    ASSUME attrs \in Seq(Seq(Nat)), NEW values, DOMAIN values = DOMAIN attrs,
           NEW t, t.cmp \in DOMAIN ConditionCmp, Clear(t, values)
    PROVE  \E order \in Orders :
              /\ CompareField(t, attrs, values) = {order}
              /\ MeantTerm(t, values) <=> order \in MeantOrders[t.cmp]
<1>1. PICK i \in DOMAIN attrs : attrs[i] = t.field /\ Exact(values[i]) /\ Unmistakable(i)
  BY DEF Clear
<1>2. Exact(t.value)
  BY DEF Clear
<1> DEFINE order == OrderOf(values[i].is, t.value.is)
<1>3. order \in Orders
  BY DEF OrderOf, Orders
<1>4. AttributeIndex(attrs, t.field) = i
  BY <1>1, IndexIs
<1>5. CompareValues(values[i], t.value) = {order}
  BY <1>1, <1>2 DEF CompareValues, Exact, IsNumber
<1>6. CompareField(t, attrs, values) = {order}
  BY <1>1, <1>4, <1>5 DEF CompareField
<1>7. MeantOrder(values[i], t.value) = order
  BY <1>1, <1>2 DEF MeantOrder, Exact
<1>8. ASSUME NEW j \in DOMAIN attrs, attrs[j] = t.field
      PROVE  j = i
  <2>1. AttributeNamed(attrs[j], attrs[i])
    BY <1>1, <1>8, NamedByItself
  <2> QED
    BY <1>1, <2>1 DEF Unmistakable
<1>9. MeantTerm(t, values) <=> order \in MeantOrders[t.cmp]
  BY <1>1, <1>7, <1>8 DEF MeantTerm
<1> HIDE DEF order
<1> QED
  BY <1>3, <1>6, <1>9

\* what the comparisons of the server mean
LEMMA CmpMeans ==
    ASSUME NEW cmp \in DOMAIN ConditionCmp, NEW order \in Orders
    PROVE  /\ ConditionCmp[cmp] = order => order \in MeantOrders[cmp]
           /\ cmp \in PlainCmps => (order \in MeantOrders[cmp] <=> ConditionCmp[cmp] = order)
BY DEF ConditionCmp, Orders, MeantOrders, PlainCmps

AllMeant(conds, values) == \A k \in DOMAIN conds : MeantTerm(conds[k], values)

LEMMA VerdictIs ==
    ASSUME attrs \in Seq(Seq(Nat)), NEW values, DOMAIN values = DOMAIN attrs,
           NEW conds, \A k \in DOMAIN conds : conds[k].cmp \in DOMAIN ConditionCmp /\ Clear(conds[k], values)
    PROVE  /\ TRUE \in Verdicts(conds, attrs, values) => AllMeant(conds, values)
           /\ (\A k \in DOMAIN conds : conds[k].cmp \in PlainCmps) =>
                 /\ TRUE \in Verdicts(conds, attrs, values) <=> AllMeant(conds, values)
                 /\ FALSE \in Verdicts(conds, attrs, values) <=> ~AllMeant(conds, values)
<1> DEFINE possible(k) == CompareField(conds[k], attrs, values)
           asked(k) == ConditionCmp[conds[k].cmp]
<1>1. /\ TRUE \in Verdicts(conds, attrs, values) <=> \A k \in DOMAIN conds : asked(k) \in possible(k)
      /\ FALSE \in Verdicts(conds, attrs, values) <=> \E k \in DOMAIN conds : possible(k) # {asked(k)}
  BY DEF Verdicts
<1>2. ASSUME NEW k \in DOMAIN conds
      PROVE  /\ asked(k) \in possible(k) => MeantTerm(conds[k], values)
             /\ conds[k].cmp \in PlainCmps =>
                   /\ asked(k) \in possible(k) <=> MeantTerm(conds[k], values)
                   /\ possible(k) = {asked(k)} <=> MeantTerm(conds[k], values)
  <2>1. conds[k].cmp \in DOMAIN ConditionCmp /\ Clear(conds[k], values)
    OBVIOUS
  <2>2. PICK order \in Orders :
           /\ possible(k) = {order}
           /\ MeantTerm(conds[k], values) <=> order \in MeantOrders[conds[k].cmp]
    BY <2>1, ClearTerm
  <2> QED
    BY <2>1, <2>2, CmpMeans
<1> HIDE DEF possible, asked
<1> QED
  BY <1>1, <1>2 DEF AllMeant

\* the terms of a predicate that reach the server
LEMMA TermsKept ==
    ASSUME NEW pred \in Predicates
    PROVE  /\ pred.type = "has" => Conditions(Parsed(pred)) = <<pred.term>>
           /\ pred.type = "and" => Conditions(Parsed(pred)) = KeptTerms(pred.terms)
           /\ pred.type = "or" => Conditions(Parsed(pred)) = <<>>
           /\ pred.type = "has" \/ pred.type = "and" \/ pred.type = "or"
           /\ pred.type # "has" => pred.terms \in Seq(Terms) \ {<<>>}
           /\ pred.type = "has" => pred.term \in Terms
BY DEF Predicates, Conditions, Parsed

LEMMA KeptAreTerms ==
    ASSUME NEW ts \in Seq(Terms), ts # <<>>
    PROVE  /\ \A k \in DOMAIN KeptTerms(ts) : \E j \in DOMAIN ts : KeptTerms(ts)[k] = ts[j]
           /\ Len(ts) <= 2 => KeptTerms(ts) = ts
<1>1. CASE Len(ts) <= 2
  BY <1>1 DEF KeptTerms
<1>2. CASE ~(Len(ts) <= 2)
  <2>1. KeptTerms(ts) = <<ts[1], ts[Len(ts)]>> /\ 1 \in DOMAIN ts /\ Len(ts) \in DOMAIN ts
    BY <1>2 DEF KeptTerms
  <2> QED
    BY <1>2, <2>1
<1> QED
  BY <1>1, <1>2

\* A predicate whose terms are clear: what the server makes of it, and what it
\* means.
LEMMA PredMeans ==
    ASSUME attrs \in Seq(Seq(Nat)), NEW values, DOMAIN values = DOMAIN attrs,
           NEW pred \in Predicates, ClearPred(pred, values)
    PROVE  LET verdicts == Verdicts(Conditions(Parsed(pred)), attrs, values) IN
           /\ pred.type = "has" /\ TRUE \in verdicts => MeantBy(pred, values)
           /\ PlainPred(pred, values) =>
                 /\ FALSE \in verdicts => ~MeantBy(pred, values)
                 /\ WholePred(pred) /\ TRUE \in verdicts => MeantBy(pred, values)
                 /\ MeantBy(pred, values) => TRUE \in verdicts
                 /\ WholePred(pred) /\ ~MeantBy(pred, values) => FALSE \in verdicts
<1> DEFINE conds == Conditions(Parsed(pred))
           verdicts == Verdicts(conds, attrs, values)
<1>1. CASE pred.type = "has"
  <2>1. conds = <<pred.term>> /\ pred.term \in Terms
    BY <1>1, TermsKept
  <2>2. DOMAIN conds = {1} /\ conds[1] = pred.term
    BY <2>1
  <2>3. Clear(pred.term, values) /\ pred.term.cmp \in DOMAIN ConditionCmp
    BY <1>1, <2>1, QueryMeaningAssumption DEF ClearPred, TermsOf
  <2>4. PlainPred(pred, values) => pred.term.cmp \in PlainCmps
    BY <1>1 DEF PlainPred, TermsOf
  <2>5. MeantBy(pred, values) <=> AllMeant(conds, values)
    BY <1>1, <2>2 DEF MeantBy, AllMeant
  <2> HIDE DEF conds
  <2> QED
    <3>1. \A k \in DOMAIN conds : conds[k].cmp \in DOMAIN ConditionCmp /\ Clear(conds[k], values)
      BY <2>2, <2>3
    <3>2. PlainPred(pred, values) => \A k \in DOMAIN conds : conds[k].cmp \in PlainCmps
      BY <2>2, <2>4
    <3>3. /\ TRUE \in verdicts => AllMeant(conds, values)
          /\ PlainPred(pred, values) =>
                /\ TRUE \in verdicts <=> AllMeant(conds, values)
                /\ FALSE \in verdicts <=> ~AllMeant(conds, values)
      BY <3>1, <3>2, VerdictIs
    <3> QED
      BY <1>1, <2>5, <3>3 DEF conds
<1>2. CASE pred.type = "and"
  <2>1. conds = KeptTerms(pred.terms) /\ pred.terms \in Seq(Terms) /\ pred.terms # <<>>
    BY <1>2, TermsKept
  <2>2. PICK ts : ts = pred.terms
    OBVIOUS
  <2>3. \A k \in DOMAIN conds : \E j \in DOMAIN ts : conds[k] = ts[j]
    BY <2>1, <2>2, KeptAreTerms
  <2>4. WholePred(pred) => conds = ts
    BY <1>2, <2>1, <2>2, KeptAreTerms DEF WholePred
  <2>5. \A j \in DOMAIN ts : ts[j] \in TermsOf(pred) /\ ts[j] \in Terms
    BY <1>2, <2>1, <2>2 DEF TermsOf, Range
  <2>6. /\ \A j \in DOMAIN ts : ts[j].cmp \in DOMAIN ConditionCmp /\ Clear(ts[j], values)
        /\ PlainPred(pred, values) => \A j \in DOMAIN ts : ts[j].cmp \in PlainCmps
    BY <2>5, QueryMeaningAssumption DEF ClearPred, PlainPred
  <2>7. MeantBy(pred, values) <=> AllMeant(ts, values)
    BY <1>2, <2>2 DEF MeantBy, AllMeant
  <2> HIDE DEF conds
  <2>8. /\ \A k \in DOMAIN conds : conds[k].cmp \in DOMAIN ConditionCmp /\ Clear(conds[k], values)
        /\ PlainPred(pred, values) => \A k \in DOMAIN conds : conds[k].cmp \in PlainCmps
    BY <2>3, <2>6
  <2>9. AllMeant(ts, values) => AllMeant(conds, values)
    BY <2>3 DEF AllMeant
  <2>10. /\ TRUE \in verdicts => AllMeant(conds, values)
         /\ PlainPred(pred, values) =>
               /\ TRUE \in verdicts <=> AllMeant(conds, values)
               /\ FALSE \in verdicts <=> ~AllMeant(conds, values)
    BY <2>8, VerdictIs
  <2> QED
    BY <1>2, <2>4, <2>7, <2>9, <2>10 DEF conds
<1>3. CASE pred.type = "or"
  <2>1. conds = <<>> /\ ~WholePred(pred)
    BY <1>3, TermsKept DEF WholePred
  <2>2. TRUE \in verdicts /\ FALSE \notin verdicts
    BY <2>1 DEF Verdicts
  <2> QED
    BY <1>3, <2>1, <2>2
<1> QED
  BY <1>1, <1>2, <1>3, TermsKept

-----------------------------------------------------------------------------
(* Links *)

AllOf(preds, values) == \A k \in DOMAIN preds : MeantBy(preds[k], values)

\* of several predicates the first counts
LEMMA CountedMeans ==
    ASSUME attrs \in Seq(Seq(Nat)), NEW values, DOMAIN values = DOMAIN attrs,
           NEW preds \in Seq(Predicates), \A k \in DOMAIN preds : PlainPred(preds[k], values)
    PROVE  LET verdicts == Verdicts(Counted(preds), attrs, values) IN
           /\ AllOf(preds, values) => FALSE \notin verdicts /\ TRUE \in verdicts
           /\ Len(preds) <= 1 /\ (\A k \in DOMAIN preds : WholePred(preds[k])) =>
                 /\ TRUE \in verdicts => AllOf(preds, values)
                 /\ ~AllOf(preds, values) => FALSE \in verdicts
<1> DEFINE verdicts == Verdicts(Counted(preds), attrs, values)
<1>1. CASE preds = <<>>
  <2>1. Counted(preds) = <<>> /\ AllOf(preds, values)
    BY <1>1 DEF Counted, AllOf
  <2>2. TRUE \in verdicts /\ FALSE \notin verdicts
    BY <2>1 DEF Verdicts
  <2> QED
    BY <2>1, <2>2
<1>2. CASE preds # <<>>
  <2>1. PICK p : p = preds[1]
    OBVIOUS
  <2>2. 1 \in DOMAIN preds /\ p \in Predicates /\ PlainPred(p, values)
    BY <1>2, <2>1
  <2>3. Counted(preds) = Conditions(Parsed(p))
    BY <1>2, <2>1 DEF Counted
  <2>4. ClearPred(p, values)
    BY <2>2 DEF PlainPred
  <2>5. /\ FALSE \in verdicts => ~MeantBy(p, values)
        /\ WholePred(p) /\ TRUE \in verdicts => MeantBy(p, values)
        /\ MeantBy(p, values) => TRUE \in verdicts
        /\ WholePred(p) /\ ~MeantBy(p, values) => FALSE \in verdicts
    BY <2>2, <2>3, <2>4, PredMeans
  <2>6. AllOf(preds, values) => MeantBy(p, values)
    BY <2>1, <2>2 DEF AllOf
  <2>7. Len(preds) <= 1 /\ MeantBy(p, values) => AllOf(preds, values)
    BY <2>1 DEF AllOf
  <2>8. (\A k \in DOMAIN preds : WholePred(preds[k])) => WholePred(p)
    BY <2>1, <2>2
  <2> HIDE DEF verdicts
  <2> QED
    BY <2>5, <2>6, <2>7, <2>8 DEF verdicts
<1> QED
  BY <1>1, <1>2

LEMMA NodeMeans ==
    ASSUME attrs \in Seq(Seq(Nat)), NEW node, DOMAIN node.row = DOMAIN attrs,
           NEW cond, cond.preds \in Seq(Predicates), Len(cond.preds) <= 1,
           \A k \in DOMAIN cond.preds : PlainPred(cond.preds[k], node.row),
           NEW null \in BOOLEAN, null <=> cond.schema = NoSchema, null => cond.preds = <<>>
    PROVE  LET taken == NodeTaken(cond, null, attrs, node)
               meant == MeantNode(cond, node.schema, node.row) IN
           /\ meant => FALSE \notin taken /\ TRUE \in taken
           /\ (\A k \in DOMAIN cond.preds : WholePred(cond.preds[k])) =>
                 /\ TRUE \in taken => meant
                 /\ ~meant => FALSE \in taken
<1> DEFINE taken == NodeTaken(cond, null, attrs, node)
           meant == MeantNode(cond, node.schema, node.row)
<1>1. CASE null
  <2>1. taken = {TRUE} /\ meant
    BY <1>1 DEF NodeTaken, MeantNode
  <2> QED
    BY <2>1
<1>2. CASE ~null /\ node.schema # cond.schema
  <2>1. taken = {FALSE} /\ ~meant
    BY <1>2 DEF NodeTaken, MeantNode
  <2> QED
    BY <2>1
<1>3. CASE ~null /\ node.schema = cond.schema
  <2>1. taken = Verdicts(Counted(cond.preds), attrs, node.row) /\ (meant <=> AllOf(cond.preds, node.row))
    BY <1>3 DEF NodeTaken, MeantNode, AllOf
  <2>2. PICK preds, values : preds = cond.preds /\ values = node.row
    OBVIOUS
  <2>3. LET verdicts == Verdicts(Counted(preds), attrs, values) IN
        /\ AllOf(preds, values) => FALSE \notin verdicts /\ TRUE \in verdicts
        /\ Len(preds) <= 1 /\ (\A k \in DOMAIN preds : WholePred(preds[k])) =>
              /\ TRUE \in verdicts => AllOf(preds, values)
              /\ ~AllOf(preds, values) => FALSE \in verdicts
    BY <2>2, CountedMeans
  <2> HIDE DEF taken, meant
  <2> QED
    BY <2>1, <2>2, <2>3 DEF taken, meant
<1> QED
  BY <1>1, <1>2, <1>3

LEMMA AboutThem ==
    ASSUME NEW q, NEW two
    PROVE  /\ \A k \in DOMAIN q.first.preds : <<q.first.preds[k], row>> \in About(q, two)
           /\ \A k \in DOMAIN q.where : <<q.where[k], row>> \in About(q, two)
           /\ \A j \in DOMAIN q.second : \A k \in DOMAIN q.second[j].preds :
                 <<q.second[j].preds[k], two.row>> \in About(q, two)
BY DEF About

LEMMA AboutPlain ==
    ASSUME NEW q, NEW two, \A a \in About(q, two) : PlainPred(a[1], a[2])
    PROVE  /\ \A k \in DOMAIN q.first.preds : PlainPred(q.first.preds[k], row)
           /\ \A k \in DOMAIN q.where : PlainPred(q.where[k], row)
           /\ \A j \in DOMAIN q.second : \A k \in DOMAIN q.second[j].preds :
                 PlainPred(q.second[j].preds[k], two.row)
<1>1. ASSUME NEW x, NEW y, <<x, y>> \in About(q, two)
      PROVE  PlainPred(x, y)
  <2>1. PICK a : a = <<x, y>>
    OBVIOUS
  <2>2. a \in About(q, two) /\ a[1] = x /\ a[2] = y
    BY <1>1, <2>1
  <2> QED
    BY <2>2
<1> QED
  BY <1>1, AboutThem

LEMMA AboutWhole ==
    ASSUME NEW q, NEW two, \A a \in About(q, two) : WholePred(a[1])
    PROVE  /\ \A k \in DOMAIN q.first.preds : WholePred(q.first.preds[k])
           /\ \A k \in DOMAIN q.where : WholePred(q.where[k])
           /\ \A j \in DOMAIN q.second : \A k \in DOMAIN q.second[j].preds :
                 WholePred(q.second[j].preds[k])
<1>1. ASSUME NEW x, NEW y, <<x, y>> \in About(q, two)
      PROVE  WholePred(x)
  <2>1. PICK a : a = <<x, y>>
    OBVIOUS
  <2>2. a \in About(q, two) /\ a[1] = x
    BY <1>1, <2>1
  <2> QED
    BY <2>2
<1> QED
  BY <1>1, AboutThem

\* what one link is to a query
LEMMA LinkMeans ==
    ASSUME attrs \in Seq(Seq(Nat)), DOMAIN row = DOMAIN attrs,
           NEW q, IsLinkQuery(q), NEW link, NEW two, DOMAIN two.row = DOMAIN attrs,
           NEW memory \in Memories,
           \A a \in About(q, two) : PlainPred(a[1], a[2])
    PROVE  LET outcomes == LinkFound(q, memory, attrs, link, [schema |-> "s", row |-> row], two) IN
           /\ MeantBetween(q, link, two) => FALSE \notin outcomes
           /\ (\A flag \in DOMAIN memory : ~memory[flag])
                 /\ (\A a \in About(q, two) : WholePred(a[1]))
                 /\ Len(q.where) <= 1 /\ NamesApart(q.name, link.name)
              => (TRUE \in outcomes => MeantBetween(q, link, two))
<1> DEFINE one == [schema |-> "s", row |-> row]
           null == IsNull(q, memory)
           checks == Checks(q, null, attrs, link, one, two)
           outcomes == LinkFound(q, memory, attrs, link, one, two)
           Zeros == \A flag \in DOMAIN memory : ~memory[flag]
           Whole == \A a \in About(q, two) : WholePred(a[1])
           A == NodeTaken(q.first, null.first, attrs, one)
           B == IF null.second THEN {TRUE} ELSE NodeTaken(q.second[1], FALSE, attrs, two)
           C == CrossTaken(q, null, attrs, one)
           meantFirst == MeantNode(q.first, "s", row)
           meantSecond == \A k \in DOMAIN q.second : MeantNode(q.second[k], two.schema, two.row)
           meantWhere == \A k \in DOMAIN q.where : Meant(q.where[k])
<1>1. /\ TRUE \in outcomes <=> LinkTaken(q, null, link) /\ TRUE \in A /\ TRUE \in B /\ TRUE \in C
      /\ FALSE \in outcomes <=> ~LinkTaken(q, null, link) \/ FALSE \in A \/ FALSE \in B \/ FALSE \in C
  <2>1. LinkTaken(q, null, link) \in BOOLEAN
    BY DEF LinkTaken, IsPrefix, LinkIsNull, IsNull, Memories
  <2>2. DOMAIN checks = 1 .. 4 /\ checks[1] = {LinkTaken(q, null, link)} /\ checks[2] = A /\ checks[3] = B /\ checks[4] = C
    BY DEF Checks
  <2>3. /\ TRUE \in outcomes <=> \A k \in DOMAIN checks : TRUE \in checks[k]
        /\ FALSE \in outcomes <=> \E k \in DOMAIN checks : FALSE \in checks[k]
    BY DEF LinkFound
  <2> HIDE DEF checks, A, B, C, null, outcomes
  <2>4. \A k : k \in 1 .. 4 <=> k = 1 \/ k = 2 \/ k = 3 \/ k = 4
    OBVIOUS
  <2>5. /\ TRUE \in checks[1] <=> LinkTaken(q, null, link)
        /\ FALSE \in checks[1] <=> ~LinkTaken(q, null, link)
    BY <2>1, <2>2
  <2>6. TRUE \in outcomes <=> LinkTaken(q, null, link) /\ TRUE \in A /\ TRUE \in B /\ TRUE \in C
    BY <2>2, <2>3, <2>4, <2>5
  <2>7. FALSE \in outcomes <=> ~LinkTaken(q, null, link) \/ FALSE \in A \/ FALSE \in B \/ FALSE \in C
    BY <2>2, <2>3, <2>4, <2>5
  <2> QED
    BY <2>6, <2>7
<1>2. Zeros => ~memory.match /\ ~memory.link /\ ~memory.second /\ ~memory.cross
  BY DEF Memories
<1>3. /\ link.type = Direction(q.word) /\ link.name = q.name => LinkTaken(q, null, link)
      /\ Zeros /\ NamesApart(q.name, link.name) /\ LinkTaken(q, null, link)
         => link.type = Direction(q.word) /\ link.name = q.name
  <2>1. LinkType[q.word] = Direction(q.word)
    BY DEF IsLinkQuery, LinkType, Direction
  <2>2. q.name \in Seq(Nat)
    BY DEF IsLinkQuery
  <2>3. IsPrefix(q.name, q.name)
    BY <2>2 DEF IsPrefix
  <2>4. Zeros => ~LinkIsNull(null)
    BY <1>2 DEF LinkIsNull, IsNull
  <2> HIDE DEF null, Zeros
  <2> QED
    BY <2>1, <2>3, <2>4 DEF LinkTaken, NamesApart
<1>4. /\ meantFirst => FALSE \notin A
      /\ Whole /\ TRUE \in A => meantFirst
  <2>1. null.first \in BOOLEAN /\ (null.first <=> q.first.schema = NoSchema)
    BY DEF IsNull
  <2>2. \A k \in DOMAIN q.first.preds : PlainPred(q.first.preds[k], row)
    BY AboutPlain
  <2>3. Whole => \A k \in DOMAIN q.first.preds : WholePred(q.first.preds[k])
    BY AboutWhole
  <2>4. q.first.preds \in Seq(Predicates) /\ Len(q.first.preds) <= 1
        /\ (q.first.schema = NoSchema => q.first.preds = <<>>)
    BY DEF IsLinkQuery
  <2>5. one.row = row /\ one.schema = "s"
    OBVIOUS
  <2> HIDE DEF null, one, Whole
  <2>6. PICK cond, none, node : cond = q.first /\ none = null.first /\ node = one
    OBVIOUS
  <2>7. LET taken == NodeTaken(cond, none, attrs, node)
            meant == MeantNode(cond, node.schema, node.row) IN
        /\ meant => FALSE \notin taken /\ TRUE \in taken
        /\ (\A k \in DOMAIN cond.preds : WholePred(cond.preds[k])) =>
              /\ TRUE \in taken => meant
              /\ ~meant => FALSE \in taken
    BY <2>1, <2>2, <2>4, <2>5, <2>6, NodeMeans
  <2> QED
    BY <2>3, <2>5, <2>6, <2>7
<1>5. /\ meantSecond => FALSE \notin B
      /\ Zeros /\ Whole /\ TRUE \in B => meantSecond
  <2>1. CASE q.second = <<>>
    <3>1. null.second
      BY <2>1 DEF IsNull
    <3>2. DOMAIN q.second = {}
      BY <2>1
    <3>3. B = {TRUE} /\ meantSecond
      BY <3>1, <3>2
    <3> QED
      BY <3>3
  <2>2. CASE q.second # <<>>
    <3>1. DOMAIN q.second = {1}
      BY <2>2 DEF IsLinkQuery
    <3>2. PICK cond : cond = q.second[1]
      OBVIOUS
    <3>3. cond.preds \in Seq(Predicates) /\ Len(cond.preds) <= 1 /\ cond.schema # NoSchema
      BY <3>1, <3>2 DEF IsLinkQuery
    <3>4. \A k \in DOMAIN cond.preds : PlainPred(cond.preds[k], two.row)
      BY <3>1, <3>2, AboutPlain
    <3>5. Whole => \A k \in DOMAIN cond.preds : WholePred(cond.preds[k])
      BY <3>1, <3>2, AboutWhole
    <3>6. LET taken == NodeTaken(cond, FALSE, attrs, two)
              meant == MeantNode(cond, two.schema, two.row) IN
          /\ meant => FALSE \notin taken /\ TRUE \in taken
          /\ (\A k \in DOMAIN cond.preds : WholePred(cond.preds[k])) =>
                /\ TRUE \in taken => meant
                /\ ~meant => FALSE \in taken
      BY <3>3, <3>4, NodeMeans
    <3>7. Zeros => ~null.second
      BY <1>2, <2>2 DEF IsNull
    <3>8. meantSecond <=> MeantNode(cond, two.schema, two.row)
      BY <3>1, <3>2
    <3>9. B = {TRUE} \/ B = NodeTaken(cond, FALSE, attrs, two)
      BY <3>2
    <3>10. Zeros => B = NodeTaken(cond, FALSE, attrs, two)
      BY <3>2, <3>7
    <3> HIDE DEF B, meantSecond, Zeros, Whole
    <3> QED
      BY <3>5, <3>6, <3>8, <3>9, <3>10
  <2> QED
    BY <2>1, <2>2
<1>6. /\ meantWhere => FALSE \notin C
      /\ Zeros /\ Whole /\ Len(q.where) <= 1 /\ TRUE \in C => meantWhere
  <2>1. C = IF q.where = <<>> \/ memory.cross THEN {TRUE} ELSE Verdicts(Counted(q.where), attrs, row)
    BY DEF CrossTaken, IsNull
  <2>2. PICK preds, values : preds = q.where /\ values = row
    OBVIOUS
  <2>3. preds \in Seq(Predicates)
    BY <2>2 DEF IsLinkQuery
  <2>4. \A k \in DOMAIN preds : PlainPred(preds[k], values)
    BY <2>2, AboutPlain
  <2>5. Whole => \A k \in DOMAIN preds : WholePred(preds[k])
    BY <2>2, AboutWhole
  <2>6. LET verdicts == Verdicts(Counted(preds), attrs, values) IN
        /\ AllOf(preds, values) => FALSE \notin verdicts /\ TRUE \in verdicts
        /\ Len(preds) <= 1 /\ (\A k \in DOMAIN preds : WholePred(preds[k])) =>
              /\ TRUE \in verdicts => AllOf(preds, values)
              /\ ~AllOf(preds, values) => FALSE \in verdicts
    BY <2>2, <2>3, <2>4, CountedMeans
  <2>7. meantWhere <=> AllOf(preds, values)
    BY <2>2 DEF AllOf, Meant
  <2>8. preds = <<>> => AllOf(preds, values)
    BY DEF AllOf
  <2> HIDE DEF C, meantWhere, Zeros, Whole
  <2> QED
    BY <1>2, <2>1, <2>2, <2>5, <2>6, <2>7, <2>8
<1>7. MeantBetween(q, link, two) <=>
        link.type = Direction(q.word) /\ link.name = q.name /\ meantFirst /\ meantSecond /\ meantWhere
  BY DEF MeantBetween
<1> HIDE DEF A, B, C, meantFirst, meantSecond, meantWhere, Zeros, Whole, null, outcomes
<1>8. MeantBetween(q, link, two) => FALSE \notin outcomes
  BY <1>1, <1>3, <1>4, <1>5, <1>6, <1>7
<1>9. Zeros /\ Whole /\ Len(q.where) <= 1 /\ NamesApart(q.name, link.name) /\ TRUE \in outcomes
      => MeantBetween(q, link, two)
  BY <1>1, <1>3, <1>4, <1>5, <1>6, <1>7
<1> QED
  BY <1>8, <1>9 DEF outcomes, Zeros, Whole

-----------------------------------------------------------------------------
(* Values *)

\* The list is turned twice.
LEMMA TurnedTwice ==
    ASSUME NEW S, NEW props \in Seq(S)
    PROVE  ReceivedProperties(props) = props
<1> DEFINE n == Len(props)
           once == Reverse(props)
<1>1. n \in Nat /\ DOMAIN props = 1 .. n /\ \A k \in 1 .. n : (n - k) + 1 \in 1 .. n /\ props[k] \in S
  OBVIOUS
<1>2. once = [k \in 1 .. n |-> props[(n - k) + 1]]
  BY DEF Reverse
<1> HIDE DEF n, once
<1>3. once \in [1 .. n -> S]
  BY <1>1, <1>2
<1>4. once \in Seq(S) /\ Len(once) = n
  <2>1. once \in Seq(S)
    BY <1>1, <1>3
  <2> QED
    BY <1>1, <1>3, <2>1
<1>5. Reverse(once) = [k \in 1 .. n |-> once[(n - k) + 1]]
  BY <1>4 DEF Reverse
<1>6. ASSUME NEW k \in 1 .. n
      PROVE  once[(n - k) + 1] = props[k]
  <2>1. (n - ((n - k) + 1)) + 1 = k
    BY <1>1
  <2> QED
    BY <1>1, <1>2, <2>1
<1>7. Reverse(once) = [k \in 1 .. n |-> props[k]]
  BY <1>5, <1>6
<1>8. props = [k \in 1 .. n |-> props[k]]
  BY <1>1
<1> QED
  BY <1>7, <1>8 DEF ReceivedProperties, SentProperties, ParsedProperties, once

Holding(v, z) == [v EXCEPT !.is = z]

LEMMA StoredAgain ==
    ASSUME NEW v, "type" \in DOMAIN v, "is" \in DOMAIN v, NEW z, NEW new
    PROVE  /\ Stored(Holding(v, z), new) = Stored(v, new)
           /\ \E y : Stored(v, new) = Holding(v, y)
<1>1. Holding(v, z).type = v.type
  BY DEF Holding
<1>2. \A y : [Holding(v, z) EXCEPT !.is = y] = [v EXCEPT !.is = y]
  BY DEF Holding
<1> QED
  BY <1>1, <1>2 DEF Stored, Holding

IsRow(values, D) ==
    values = [i \in D |-> values[i]] /\ \A i \in D : {"type", "is"} \subseteq DOMAIN values[i]

\* what the properties make of the values, one by one
OneByOne(after, props, values) ==
    after = [k \in 0 .. Len(props) |->
                IF k = 0 THEN values
                ELSE [after[k - 1] EXCEPT ![AttributeIndex(attrs, props[k].field)] = Stored(@, props[k].value)]]

LEMMA UpdatedDefined ==
    ASSUME NEW D, NEW values, IsRow(values, D),
           NEW S, NEW props \in Seq(S),
           \A k \in DOMAIN props : AttributeIndex(attrs, props[k].field) \in D
    PROVE  \E after : OneByOne(after, props, values) /\ Updated(props, attrs, values) = after[Len(props)]
<1> DEFINE n == Len(props)
           at(k) == AttributeIndex(attrs, props[k].field)
           V == [D -> Nat]
           none == [i \in D |-> 0]
           step == [k \in Nat |-> [g \in V |-> IF k + 1 \in 1 .. n THEN [g EXCEPT ![at(k + 1)] = k + 1] ELSE g]]
<1> USE DEF IsRow
<1>1. n \in Nat /\ DOMAIN props = 1 .. n /\ \A k \in 1 .. n : at(k) \in D
  OBVIOUS
<1>2. none \in V /\ step \in [Nat -> [V -> V]]
  OBVIOUS
<1>3. PICK h \in [Nat -> V] : h[0] = none /\ \A k \in Nat : h[k + 1] = step[k][h[k]]
  <2> HIDE DEF V, none, step
  <2>1. \E h \in [Nat -> V] : Data!Steps(h, none, step)
    BY <1>2, Data!RecursionOnNat
  <2> QED
    BY <2>1 DEF Data!Steps
<1>4. ASSUME NEW k \in 1 .. n
      PROVE  k - 1 \in 0 .. n /\ k - 1 \in Nat /\ h[k] = [h[k - 1] EXCEPT ![at(k)] = k]
  <2>1. k - 1 \in Nat /\ (k - 1) + 1 = k /\ k - 1 \in 0 .. n
    BY <1>1
  <2>2. h[k] = step[k - 1][h[k - 1]]
    BY <1>3, <2>1
  <2>3. h[k - 1] \in V
    BY <1>3, <2>1
  <2> QED
    BY <2>1, <2>2, <2>3
<1> DEFINE now(g) == [i \in D |-> IF g[i] = 0 THEN values[i] ELSE Stored(values[i], props[g[i]].value)]
           after == [k \in 0 .. n |-> now(h[k])]
<1>5. now(h[0]) = values
  BY <1>3
<1>6. ASSUME NEW k \in 1 .. n
      PROVE  now(h[k]) = [now(h[k - 1]) EXCEPT ![at(k)] = Stored(@, props[k].value)]
  <2>1. PICK g : g = h[k - 1]
    OBVIOUS
  <2>2. g \in [D -> Nat] /\ h[k] = [g EXCEPT ![at(k)] = k] /\ at(k) \in D
    BY <1>1, <1>3, <1>4, <2>1
  <2>3. PICK a : a = at(k)
    OBVIOUS
  <2>4. ASSUME NEW i \in D, i # a
        PROVE  now(h[k])[i] = now(g)[i]
    BY <2>2, <2>3, <2>4
  <2>5. now(h[k])[a] = Stored(values[a], props[k].value)
    <3>1. h[k][a] = k /\ k # 0
      BY <2>2, <2>3
    <3> QED
      BY <2>2, <2>3, <3>1
  <2>6. Stored(now(g)[a], props[k].value) = Stored(values[a], props[k].value)
    <3>1. CASE g[a] = 0
      BY <2>2, <2>3, <3>1
    <3>2. CASE g[a] # 0
      <4>1. now(g)[a] = Stored(values[a], props[g[a]].value)
        BY <2>2, <2>3, <3>2
      <4>2. "type" \in DOMAIN values[a] /\ "is" \in DOMAIN values[a]
        BY <2>2, <2>3
      <4>3. PICK y : Stored(values[a], props[g[a]].value) = Holding(values[a], y)
        BY <4>2, StoredAgain
      <4>4. PICK v, new : v = values[a] /\ new = props[k].value
        OBVIOUS
      <4>5. Stored(Holding(v, y), new) = Stored(v, new)
        <5>1. "type" \in DOMAIN v /\ "is" \in DOMAIN v
          BY <4>2, <4>4
        <5> QED
          BY ONLY <5>1, StoredAgain
      <4> QED
        BY <4>1, <4>3, <4>4, <4>5
    <3> QED
      BY <3>1, <3>2
  <2>7. DOMAIN now(h[k]) = D /\ DOMAIN now(g) = D
    OBVIOUS
  <2>8. now(h[k]) = [i \in D |-> now(h[k])[i]] /\ a \in D
    BY <2>2, <2>3
  <2> HIDE DEF now, at
  <2> QED
    BY <2>1, <2>3, <2>4, <2>5, <2>6, <2>7, <2>8
<1>7. after = [k \in 0 .. n |->
                  IF k = 0 THEN values
                  ELSE [after[k - 1] EXCEPT ![at(k)] = Stored(@, props[k].value)]]
  <2>1. ASSUME NEW k \in 0 .. n
        PROVE  after[k] = IF k = 0 THEN values
                          ELSE [after[k - 1] EXCEPT ![at(k)] = Stored(@, props[k].value)]
    <3>1. CASE k = 0
      BY <1>1, <1>5, <3>1
    <3>2. CASE k # 0
      <4>1. k \in 1 .. n /\ k - 1 \in 0 .. n
        BY <1>1, <3>2
      <4>2. after[k] = now(h[k]) /\ after[k - 1] = now(h[k - 1])
        BY <4>1
      <4> HIDE DEF now, at, after
      <4> QED
        BY <1>6, <3>2, <4>1, <4>2
    <3> QED
      BY <3>1, <3>2
  <2>2. after = [k \in 0 .. n |-> after[k]]
    OBVIOUS
  <2> HIDE DEF after, at, n, now
  <2> QED
    BY <2>1, <2>2
<1>8. Updated(props, attrs, values) =
         (CHOOSE g : g = [k \in 0 .. n |->
                             IF k = 0 THEN values
                             ELSE [g[k - 1] EXCEPT ![at(k)] = Stored(@, props[k].value)]])[n]
  <2>1. ReceivedProperties(props) = props
    BY TurnedTwice
  <2> QED
    BY <2>1 DEF Updated
<1> HIDE DEF after, now
<1> QED
  BY <1>7, <1>8 DEF OneByOne

\* An update leaves an attribute as it is, or with the last value for it.
LEMMA UpdatedIs ==
    ASSUME NEW D, NEW values, IsRow(values, D),
           NEW S, NEW props \in Seq(S),
           \A k \in DOMAIN props : AttributeIndex(attrs, props[k].field) \in D,
           NEW i \in D
    PROVE  /\ (\A k \in DOMAIN props : AttributeIndex(attrs, props[k].field) # i)
                => Updated(props, attrs, values)[i] = values[i]
           /\ \A k \in DOMAIN props :
                 /\ AttributeIndex(attrs, props[k].field) = i
                 /\ \A m \in k + 1 .. Len(props) : AttributeIndex(attrs, props[m].field) # i
                 => Updated(props, attrs, values)[i] = Stored(values[i], props[k].value)
<1> DEFINE n == Len(props)
           at(k) == AttributeIndex(attrs, props[k].field)
<1>0. PICK after : OneByOne(after, props, values) /\ Updated(props, attrs, values) = after[n]
  BY UpdatedDefined
<1> USE DEF IsRow
<1>1. /\ after = [k \in 0 .. n |->
                     IF k = 0 THEN values
                     ELSE [after[k - 1] EXCEPT ![at(k)] = Stored(@, props[k].value)]]
      /\ Updated(props, attrs, values) = after[n]
  BY <1>0 DEF OneByOne
<1>2. n \in Nat /\ DOMAIN props = 1 .. n /\ \A k \in 1 .. n : at(k) \in D
  OBVIOUS
<1>3. after[0] = values /\ \A k \in 1 .. n : after[k] = [after[k - 1] EXCEPT ![at(k)] = Stored(@, props[k].value)]
  <2> HIDE DEF at
  <2>1. 0 \in 0 .. n /\ \A k \in 1 .. n : k \in 0 .. n /\ k # 0
    BY <1>2
  <2> QED
    BY <1>1, <2>1
<1> DEFINE Fine(k) == k <= n =>
              /\ DOMAIN after[k] = D
              /\ \A new : Stored(after[k][i], new) = Stored(values[i], new)
              /\ (\A m \in 1 .. k : at(m) # i) => after[k][i] = values[i]
              /\ \A m \in 1 .. k : at(m) = i /\ (\A l \in m + 1 .. k : at(l) # i) =>
                    after[k][i] = Stored(values[i], props[m].value)
           N == {k \in Nat : Fine(k)}
<1> HIDE DEF at, n
<1>4. 0 \in N
  <2>1. DOMAIN values = D
    OBVIOUS
  <2> QED
    BY <1>3, <2>1
<1>5. ASSUME NEW j \in Nat, j \in N
      PROVE  j + 1 \in N
  <2> SUFFICES ASSUME j + 1 <= n
               PROVE  Fine(j + 1)
    OBVIOUS
  <2>1. PICK k, a, new : k = j + 1 /\ a = at(k) /\ new = props[k].value
    OBVIOUS
  <2>2. k \in 1 .. n /\ j <= n /\ k - 1 = j /\ a \in D
    BY <1>2, <2>1
  <2>3. after[k] = [after[j] EXCEPT ![a] = Stored(@, new)]
    BY <1>3, <2>1, <2>2
  <2>4. /\ DOMAIN after[j] = D
        /\ \A y : Stored(after[j][i], y) = Stored(values[i], y)
        /\ (\A m \in 1 .. j : at(m) # i) => after[j][i] = values[i]
        /\ \A m \in 1 .. j : at(m) = i /\ (\A l \in m + 1 .. j : at(l) # i) =>
              after[j][i] = Stored(values[i], props[m].value)
    BY <1>5, <2>2
  <2>5. DOMAIN after[k] = D
    BY <2>3, <2>4
  <2>6. \A m : m \in 1 .. k <=> m \in 1 .. j \/ m = k
    BY <2>1
  <2>7. CASE a = i
    <3>1. after[k][i] = Stored(values[i], new)
      BY <2>2, <2>3, <2>4, <2>7
    <3>2. PICK v : v = values[i]
      OBVIOUS
    <3>3. \A y : Stored(Stored(v, new), y) = Stored(v, y)
      <4>1. "type" \in DOMAIN v /\ "is" \in DOMAIN v
        BY <3>2
      <4>2. PICK z : Stored(v, new) = Holding(v, z)
        BY <4>1, StoredAgain
      <4>3. \A y : Stored(Holding(v, z), y) = Stored(v, y)
        BY <4>1, StoredAgain
      <4> QED
        BY <4>2, <4>3
    <3>4. \A m \in 1 .. k : (\A l \in m + 1 .. k : at(l) # i) => m = k
      <4> SUFFICES ASSUME NEW m \in 1 .. k, m # k
                   PROVE  \E l \in m + 1 .. k : at(l) = i
        OBVIOUS
      <4>1. k \in m + 1 .. k
        BY <2>2
      <4> QED
        BY <2>1, <2>7, <4>1
    <3>5. k \in 1 .. k /\ at(k) = i
      BY <2>1, <2>2, <2>7
    <3> QED
      BY <2>1, <2>5, <3>1, <3>2, <3>3, <3>4, <3>5
  <2>8. CASE a # i
    <3>1. after[k][i] = after[j][i]
      BY <2>2, <2>3, <2>4, <2>8
    <3>2. \A m \in 1 .. k : at(m) = i => m \in 1 .. j
      BY <2>1, <2>6, <2>8
    <3>3. \A m \in 1 .. j : \A l \in m + 1 .. j : l \in m + 1 .. k
      BY <2>1
    <3> QED
      BY <2>1, <2>4, <2>5, <2>6, <3>1, <3>2, <3>3
  <2> QED
    BY <2>7, <2>8
<1>6. n \in N
  <2> HIDE DEF N
  <2> QED
    BY <1>2, <1>4, <1>5, Data!SetInduction
<1>7. /\ (\A m \in 1 .. n : at(m) # i) => after[n][i] = values[i]
      /\ \A m \in 1 .. n : at(m) = i /\ (\A l \in m + 1 .. n : at(l) # i) =>
            after[n][i] = Stored(values[i], props[m].value)
  BY <1>2, <1>6
<1> QED
  BY <1>1, <1>2, <1>7 DEF n, at

\* the last one of several
LEMMA LastThere ==
    ASSUME NEW n \in Nat, NEW K \in SUBSET (1 .. n), K # {}
    PROVE  \E k \in K : \A m \in k + 1 .. n : m \notin K
<1> DEFINE T == {j \in Nat : \E k \in K : j = n - k}
<1>1. T # {}
  <2>1. PICK k \in K : TRUE
    OBVIOUS
  <2>2. n - k \in Nat
    BY <2>1
  <2> QED
    BY <2>1, <2>2
<1>2. PICK t \in T : \A j \in T : t <= j
  <2> HIDE DEF T
  <2>1. T \subseteq Nat
    BY DEF T
  <2> QED
    BY <1>1, <2>1, Data!LeastNumber
<1>3. PICK k \in K : t = n - k
  OBVIOUS
<1>4. ASSUME NEW m \in k + 1 .. n, m \in K
      PROVE  FALSE
  <2>1. n - m \in Nat /\ n - m \in T
    BY <1>4
  <2>2. t <= n - m
    BY <1>2, <2>1
  <2> QED
    BY <1>3, <2>2
<1> QED
  BY <1>4

-----------------------------------------------------------------------------
(* Every answer is one that the code gives to the query, on the node.      *)

NodeGiven == attrs \in Schemas /\ row \in [DOMAIN attrs -> Values]
FindAnswered ==
    query.op = "find" =>
       query.pred \in Preds /\ answer.found \in Found(query.pred, attrs, row)
UpdateAnswered ==
    query.op = "update" =>
       /\ query.props \in PropertyLists
       /\ \A i \in DOMAIN row : IsNumber(row[i])
       /\ \A k \in DOMAIN query.props : AttributeIndex(attrs, query.props[k].field) \in DOMAIN row
       /\ answer.row = Updated(query.props, attrs, row)
CreateAnswered ==
    query.op = "create" =>
       query.props \in PropertyLists /\ answer.row = Created(query.props)
LinkAnswered ==
    query.op = "link" =>
       /\ attrs = LinkSchema /\ query.q \in LinkQueries
       /\ query.two \in Seconds /\ query.memory \in Memories
       /\ answer.found \in LinkFound(query.q, query.memory, attrs, query.link,
                                     [schema |-> "s", row |-> row], query.two)

QueryInv == NodeGiven /\ FindAnswered /\ UpdateAnswered /\ CreateAnswered /\ LinkAnswered

\* What a query is answered with is worked out from the node, the query and,
\* for a link, the memory of its conditions, by the operators of QueryPath and
\* LinkPath, whichever handler of the server it went to.
LEMMA QueriesAnswered == QuerySpec => []QueryInv
<1>1. QueryInit => QueryInv
  BY DEF QueryInit, QueryInv, NodeGiven, FindAnswered, UpdateAnswered, CreateAnswered, LinkAnswered
<1>2. ASSUME QueryInv, [QueryNext]_queryVars
      PROVE  QueryInv'
  <2>1. CASE Find
    <3>1. PICK p \in Preds : \E v \in Found(p, attrs, row) :
             /\ query' = [op |-> "find", pred |-> p]
             /\ answer' = [op |-> "find", found |-> v]
      BY <2>1 DEF Find
    <3>2. attrs' = attrs /\ row' = row
      BY <2>1 DEF Find
    <3>3. query'.op = "find" /\ query'.pred = p /\ answer'.found \in Found(p, attrs, row)
      BY <3>1
    <3> QED
      BY <1>2, <3>2, <3>3 DEF QueryInv, NodeGiven, FindAnswered, UpdateAnswered, CreateAnswered, LinkAnswered
  <2>2. CASE Update
    <3>1. PICK props \in PropertyLists :
             /\ \A k \in DOMAIN props :
                   IsNumber(props[k].value) /\ AttributeIndex(attrs, props[k].field) \in DOMAIN row
             /\ query' = [op |-> "update", props |-> props]
             /\ answer' = [op |-> "update", row |-> Updated(props, attrs, row)]
      BY <2>2 DEF Update
    <3>2. attrs' = attrs /\ row' = row /\ \A i \in DOMAIN row : IsNumber(row[i])
      BY <2>2 DEF Update
    <3>3. query'.op = "update" /\ query'.props = props /\ answer'.row = Updated(props, attrs, row)
      BY <3>1
    <3> QED
      BY <1>2, <3>1, <3>2, <3>3 DEF QueryInv, NodeGiven, FindAnswered, UpdateAnswered, CreateAnswered, LinkAnswered
  <2>3. CASE Create
    <3>1. PICK props \in PropertyLists :
             /\ query' = [op |-> "create", props |-> props]
             /\ answer' = [op |-> "create", row |-> Created(props)]
      BY <2>3 DEF Create
    <3>2. attrs' = attrs /\ row' = row
      BY <2>3 DEF Create
    <3>3. query'.op = "create" /\ query'.props = props /\ answer'.row = Created(props)
      BY <3>1
    <3> QED
      BY <1>2, <3>2, <3>3 DEF QueryInv, NodeGiven, FindAnswered, UpdateAnswered, CreateAnswered, LinkAnswered
  <2>4. CASE FindLink
    <3>1. PICK q \in LinkQueries, l \in Links, two \in Seconds, m \in Memories :
             \E v \in LinkFound(q, m, attrs, l, [schema |-> "s", row |-> row], two) :
                /\ query' = [op |-> "link", q |-> q, link |-> l, two |-> two, memory |-> m]
                /\ answer' = [op |-> "link", found |-> v]
      BY <2>4 DEF FindLink
    <3>2. attrs' = attrs /\ row' = row /\ attrs = LinkSchema
      BY <2>4 DEF FindLink
    <3>3. /\ query'.op = "link" /\ query'.q = q /\ query'.link = l /\ query'.two = two /\ query'.memory = m
          /\ answer'.found \in LinkFound(q, m, attrs, l, [schema |-> "s", row |-> row], two)
      BY <3>1
    <3> QED
      BY <1>2, <3>2, <3>3 DEF QueryInv, NodeGiven, FindAnswered, UpdateAnswered, CreateAnswered, LinkAnswered
  <2>5. CASE UNCHANGED queryVars
    BY <1>2, <2>5 DEF queryVars, QueryInv, NodeGiven, FindAnswered, UpdateAnswered, CreateAnswered,
                      LinkAnswered
  <2> QED
    BY <1>2, <2>1, <2>2, <2>3, <2>4, <2>5 DEF QueryNext
<1> QED
  BY <1>1, <1>2, PTL DEF QuerySpec

LEMMA NodeNamed ==
    ASSUME NodeGiven
    PROVE  /\ attrs \in Seq(Seq(Nat)) /\ DOMAIN row = DOMAIN attrs
           /\ \A i \in DOMAIN row : {"type", "is"} \subseteq DOMAIN row[i]
<1>1. \A s \in Schemas : s \in Seq(Seq(Nat))
  BY QueryMeaningAssumption
<1>2. \A v \in Values : {"type", "is"} \subseteq DOMAIN v
  BY QueryMeaningAssumption
<1> QED
  BY <1>1, <1>2 DEF NodeGiven

LEMMA TruthOfPred ==
    ASSUME NEW pred \in Predicates, NEW values
    PROVE  MeantBy(pred, values) \in BOOLEAN
<1>1. CASE pred.type = "has"
  <2>1. MeantBy(pred, values) = MeantTerm(pred.term, values)
    BY <1>1 DEF MeantBy
  <2> QED
    BY <2>1 DEF MeantTerm
<1>2. CASE pred.type = "and"
  <2>1. MeantBy(pred, values) = \A k \in DOMAIN pred.terms : MeantTerm(pred.terms[k], values)
    BY <1>2 DEF MeantBy
  <2> QED
    BY <2>1
<1>3. CASE pred.type = "or"
  <2>1. MeantBy(pred, values) = \E k \in DOMAIN pred.terms : MeantTerm(pred.terms[k], values)
    BY <1>3 DEF MeantBy
  <2> QED
    BY <2>1
<1> QED
  BY <1>1, <1>2, <1>3, TermsKept

\* A has, whichever its comparison, on an attribute that cannot be taken for
\* another one and on numbers that a float holds, never takes a node that it
\* does not mean (convert_predicate, check_node_condition): the drop or the
\* update of a query leaves every other node alone.  Made of gt, lt and eq, a
\* condition takes every node it means, and one of up to two terms joined by
\* and takes no other.
THEOREM ConditionsMeant == QuerySpec => [](NothingElseFound /\ NothingMissed /\ PairExact)
<1>1. QueryInv => NothingElseFound /\ NothingMissed /\ PairExact
  <2> SUFFICES ASSUME QueryInv, AskedFor
               PROVE  NothingElseFound /\ NothingMissed /\ PairExact
    BY DEF NothingElseFound, NothingMissed, PairExact, AskedFor, AskedPlainly, PlainPred
  <2>1. query.op = "find" /\ ClearPred(query.pred, row)
    BY DEF AskedFor
  <2>2. PICK p, values : p = query.pred /\ values = row
    OBVIOUS
  <2>3. p \in Predicates /\ answer.found \in Verdicts(Conditions(Parsed(p)), attrs, values)
    BY <2>1, <2>2, QueryMeaningAssumption DEF QueryInv, FindAnswered, Found
  <2>4. attrs \in Seq(Seq(Nat)) /\ DOMAIN values = DOMAIN attrs
    BY <2>2, NodeNamed DEF QueryInv
  <2>5. LET verdicts == Verdicts(Conditions(Parsed(p)), attrs, values) IN
        /\ p.type = "has" /\ TRUE \in verdicts => MeantBy(p, values)
        /\ PlainPred(p, values) =>
              /\ FALSE \in verdicts => ~MeantBy(p, values)
              /\ WholePred(p) /\ TRUE \in verdicts => MeantBy(p, values)
              /\ MeantBy(p, values) => TRUE \in verdicts
              /\ WholePred(p) /\ ~MeantBy(p, values) => FALSE \in verdicts
    BY <2>1, <2>2, <2>3, <2>4, PredMeans
  <2>6. answer.found \in BOOLEAN
    BY <2>3 DEF Verdicts
  <2>7. MeantBy(p, values) \in BOOLEAN
    BY <2>3, TruthOfPred
  <2>8. PICK verdict \in BOOLEAN : verdict = answer.found
    BY <2>6
  <2> QED
    BY <2>2, <2>3, <2>5, <2>7, <2>8
       DEF NothingElseFound, NothingMissed, PairExact, AskedFor, AskedPlainly, Meant
<1> QED
  BY <1>1, QueriesAnswered, PTL

\* A query for links finds every link it means, whatever malloc left in the
\* flags is_null of its conditions, and with zeros there it finds no other
\* (match_query, check_link_condition, check_node_condition and
\* check_cross_node_condition, one after the other).
THEOREM LinksMeant == QuerySpec => [](LinksNotMissed /\ LinksExact)
<1>1. QueryInv => LinksNotMissed /\ LinksExact
  <2> SUFFICES ASSUME QueryInv, LinkAsked
               PROVE  LinksNotMissed /\ LinksExact
    BY DEF LinksNotMissed, LinksExact
  <2>1. PICK q, link, two, memory :
           q = query.q /\ link = query.link /\ two = query.two /\ memory = query.memory
    OBVIOUS
  <2>2. /\ query.op = "link"
        /\ \A a \in About(q, two) : PlainPred(a[1], a[2])
    BY <2>1 DEF LinkAsked
  <2>3. /\ attrs = LinkSchema /\ q \in LinkQueries /\ two \in Seconds /\ memory \in Memories
        /\ answer.found \in LinkFound(q, memory, attrs, link, [schema |-> "s", row |-> row], two)
    BY <2>1, <2>2 DEF QueryInv, LinkAnswered
  <2>4. attrs \in Seq(Seq(Nat)) /\ DOMAIN row = DOMAIN attrs
    BY NodeNamed DEF QueryInv
  <2>5. IsLinkQuery(q) /\ DOMAIN two.row = DOMAIN attrs
    BY <2>3, QueryMeaningAssumption
  <2> DEFINE Sure == /\ \A flag \in DOMAIN memory : ~memory[flag]
                     /\ \A a \in About(q, two) : WholePred(a[1])
                     /\ Len(q.where) <= 1 /\ NamesApart(q.name, link.name)
             answers == LinkFound(q, memory, attrs, link, [schema |-> "s", row |-> row], two)
  <2>6. /\ MeantBetween(q, link, two) => FALSE \notin answers
        /\ Sure => (TRUE \in answers => MeantBetween(q, link, two))
    BY <2>2, <2>3, <2>4, <2>5, LinkMeans
  <2>7. answer.found \in BOOLEAN
    BY <2>3 DEF LinkFound
  <2>8. PICK verdict \in BOOLEAN : verdict = answer.found
    BY <2>7
  <2>9. PICK meant \in BOOLEAN : meant = MeantBetween(q, link, two)
    BY DEF MeantBetween
  <2>10. LinksNotMissed
    BY <2>1, <2>3, <2>6, <2>8 DEF LinksNotMissed, MeantLink
  <2>11. Sure => verdict = meant
    <3> HIDE DEF Sure, answers
    <3>1. verdict \in answers
      BY <2>3, <2>8 DEF answers
    <3>2. CASE verdict = TRUE
      BY <2>6, <2>9, <3>1, <3>2
    <3>3. CASE verdict = FALSE
      BY <2>6, <2>9, <3>1, <3>3
    <3> QED
      BY <3>2, <3>3
  <2>12. LinksExact
    BY <2>1, <2>8, <2>9, <2>11 DEF LinksExact, MeantLink
  <2> QED
    BY <2>10, <2>12
<1> QED
  BY <1>1, QueriesAnswered, PTL

\* On creation each value reaches the attribute at its place in the list,
\* which is turned by the parser and again by the client; an update changes
\* what it names and nothing else, and leaves there the value written last,
\* but for the conversions of value_update.
THEOREM ValuesArrive == QuerySpec => []ValuesAsWritten
<1> DEFINE Arrived(i) ==
       IF ~IsUpdated(i) THEN answer.row[i] = row[i]
       ELSE (\/ row[i].type = "float" /\ Exact(LastFor(i))
             \/ row[i].type = "int" /\ LastFor(i).type = "int" /\ ~Misread(LastFor(i)))
            => answer.row[i] = [row[i] EXCEPT !.is = LastFor(i).is]
<1>1. ASSUME QueryInv, query.op = "create", NEW k \in DOMAIN query.props
      PROVE  answer.row[k] = query.props[k].value
  <2>1. PICK props : props = query.props
    OBVIOUS
  <2>2. props \in Seq(Range(props)) /\ answer.row = Created(props)
    BY <1>1, <2>1, QueryMeaningAssumption DEF QueryInv, CreateAnswered
  <2>3. ReceivedProperties(props) = props
    BY <2>2, TurnedTwice
  <2> QED
    BY <1>1, <2>1, <2>2, <2>3 DEF Created
<1>2. ASSUME QueryInv, query.op = "update", AllNamed, NEW i \in DOMAIN row
      PROVE  Arrived(i)
  <2>1. PICK props, values, D : props = query.props /\ values = row /\ D = DOMAIN row
    OBVIOUS
  <2>2. /\ props \in PropertyLists
        /\ \A k \in DOMAIN props : AttributeIndex(attrs, props[k].field) \in D
        /\ answer.row = Updated(props, attrs, values)
    BY <1>2, <2>1 DEF QueryInv, UpdateAnswered
  <2>3. props \in Seq(Range(props))
    BY <2>2, QueryMeaningAssumption
  <2>4. attrs \in Seq(Seq(Nat)) /\ D = DOMAIN attrs /\ i \in D
    BY <1>2, <2>1, NodeNamed DEF QueryInv
  <2>5. IsRow(values, D)
    BY <1>2, <2>1, NodeNamed DEF QueryInv, NodeGiven, IsRow
  <2>6. ASSUME NEW k \in DOMAIN props
        PROVE  AttributeIndex(attrs, props[k].field) = i <=> props[k].field = attrs[i]
    <3>1. PICK j \in DOMAIN attrs : attrs[j] = props[k].field /\ Unmistakable(j)
      BY <1>2, <2>1 DEF AllNamed
    <3>2. AttributeIndex(attrs, props[k].field) = j
      BY <2>4, <3>1, IndexIs
    <3>3. Unmistakable(i) /\ AttributeIndex(attrs, attrs[i]) = i
      BY <1>2, <2>1, <2>4, IndexIs DEF AllNamed
    <3> QED
      BY <3>1, <3>2, <3>3
  <2>7. /\ (\A k \in DOMAIN props : AttributeIndex(attrs, props[k].field) # i)
             => answer.row[i] = values[i]
        /\ \A k \in DOMAIN props :
              /\ AttributeIndex(attrs, props[k].field) = i
              /\ \A m \in k + 1 .. Len(props) : AttributeIndex(attrs, props[m].field) # i
              => answer.row[i] = Stored(values[i], props[k].value)
    <3>1. PICK S : S = Range(props)
      OBVIOUS
    <3>2. PICK x \in D : x = i
      BY <2>4
    <3>3. /\ (\A k \in DOMAIN props : AttributeIndex(attrs, props[k].field) # x)
               => Updated(props, attrs, values)[x] = values[x]
          /\ \A k \in DOMAIN props :
                /\ AttributeIndex(attrs, props[k].field) = x
                /\ \A m \in k + 1 .. Len(props) : AttributeIndex(attrs, props[m].field) # x
                => Updated(props, attrs, values)[x] = Stored(values[x], props[k].value)
      BY <2>2, <2>3, <2>5, <3>1, UpdatedIs
    <3> QED
      BY <2>2, <3>2, <3>3
  <2>8. CASE ~IsUpdated(i)
    BY <2>1, <2>6, <2>7, <2>8 DEF IsUpdated
  <2>9. CASE IsUpdated(i)
    <3> DEFINE n == Len(props)
               K == {k \in 1 .. n : props[k].field = attrs[i]}
               last(k) == k \in DOMAIN props /\ props[k].field = attrs[i]
                          /\ \A m \in k + 1 .. n : props[m].field # attrs[i]
    <3>1. n \in Nat /\ DOMAIN props = 1 .. n
      BY <2>3
    <3>2. K \in SUBSET (1 .. n) /\ K # {}
      BY <2>1, <2>9, <3>1 DEF IsUpdated
    <3>3. PICK k \in K : \A m \in k + 1 .. n : m \notin K
      <4> HIDE DEF K, n
      <4> QED
        BY <3>1, <3>2, LastThere
    <3>4. last(k)
      BY <3>1, <3>3
    <3>5. PICK c : /\ last(c)
                   /\ LastFor(i) = props[c].value
      BY <2>1, <3>4 DEF LastFor
    <3>6. \A m \in c + 1 .. n : m \in DOMAIN props
      BY <3>1, <3>5
    <3>7. answer.row[i] = Stored(values[i], LastFor(i))
      BY <2>6, <2>7, <3>5, <3>6
    <3>8. PICK old, new : old = row[i] /\ new = LastFor(i)
      OBVIOUS
    <3>9. old.type = "float" /\ Exact(new) => Stored(old, new) = [old EXCEPT !.is = new.is]
      BY DEF Stored, Exact
    <3>10. old.type = "int" /\ new.type = "int" /\ ~Misread(new)
           => Stored(old, new) = [old EXCEPT !.is = new.is]
      BY DEF Stored, Misread
    <3> QED
      BY <2>1, <2>9, <3>7, <3>8, <3>9, <3>10
  <2> QED
    BY <2>8, <2>9
<1>3. QueryInv => ValuesAsWritten
  BY <1>1, <1>2 DEF ValuesAsWritten
<1> QED
  BY <1>3, QueriesAnswered, PTL
-----------------------------------------------------------------------------
(* The generated classes.  A field is read into the member it was sent of,   *)
(* which is a fact about the numbers and types of each class; so of each     *)
(* class there is a lemma on what its read makes of an object.               *)

\* The numbers and types with which write sends the members of a class are
\* those with which read takes them.
Straight(class) ==
    /\ DOMAIN class.write = DOMAIN class.init
    /\ DOMAIN class.read = DOMAIN class.init
    /\ \A m \in DOMAIN class.init : \A w \in DOMAIN class.init :
          (class.write[w].id = class.read[m].id /\ class.write[w].type = class.read[m].type) <=> w = m

\* Every class of the interface is straight.
LEMMA ClassesAreStraight ==
  /\ Straight(I_uValue)
  /\ Straight(I_Value)
  /\ Straight(I_Property)
  /\ Straight(I_Attribute)
  /\ Straight(I_Schema)
  /\ Straight(I_Node)
  /\ Straight(I_Link)
  /\ Straight(I_uComparable)
  /\ Straight(I_Comparable)
  /\ Straight(I_Compare)
  /\ Straight(I_ConditionCompare)
  /\ Straight(I_uPredicate)
  /\ Straight(I_Predicate)
  /\ Straight(I_NodeCondition)
  /\ Straight(I_LinkCondition)
  /\ Straight(I_MatchCondition)
  /\ Straight(I_SchemaCreateQuery)
  /\ Straight(I_SchemaGetQuery)
  /\ Straight(I_SchemaDeleteQuery)
  /\ Straight(I_NodeCreateQuery)
  /\ Straight(I_NodeUpdateQuery)
  /\ Straight(I_NodeDeleteQuery)
  /\ Straight(I_NodeMatchQuery)
  /\ Straight(I_LinkCreateQuery)
  /\ Straight(I_LinkDeleteQuery)
  /\ Straight(I_MatchQuery)
  /\ Straight(I_uQuery)
  /\ Straight(I_Query)
  /\ Straight(I_Result)
  /\ Straight(I_uQueryResult)
  /\ Straight(I_QueryResult)
  /\ Straight(querySvcExecuteArgs)
  /\ Straight(querySvcExecuteResult)
<1>1. Straight(I_uValue)
  BY DEF Straight, I_uValue, Class, Always, IfSet, Into
<1>2. Straight(I_Value)
  BY DEF Straight, I_Value, Class, Always, IfSet, Into
<1>3. Straight(I_Property)
  BY DEF Straight, I_Property, Class, Always, IfSet, Into
<1>4. Straight(I_Attribute)
  BY DEF Straight, I_Attribute, Class, Always, IfSet, Into
<1>5. Straight(I_Schema)
  BY DEF Straight, I_Schema, Class, Always, IfSet, Into
<1>6. Straight(I_Node)
  BY DEF Straight, I_Node, Class, Always, IfSet, Into
<1>7. Straight(I_Link)
  BY DEF Straight, I_Link, Class, Always, IfSet, Into
<1>8. Straight(I_uComparable)
  BY DEF Straight, I_uComparable, Class, Always, IfSet, Into
<1>9. Straight(I_Comparable)
  BY DEF Straight, I_Comparable, Class, Always, IfSet, Into
<1>10. Straight(I_Compare)
  BY DEF Straight, I_Compare, Class, Always, IfSet, Into
<1>11. Straight(I_ConditionCompare)
  BY DEF Straight, I_ConditionCompare, Class, Always, IfSet, Into
<1>12. Straight(I_uPredicate)
  BY DEF Straight, I_uPredicate, Class, Always, IfSet, Into
<1>13. Straight(I_Predicate)
  BY DEF Straight, I_Predicate, Class, Always, IfSet, Into
<1>14. Straight(I_NodeCondition)
  BY DEF Straight, I_NodeCondition, Class, Always, IfSet, Into
<1>15. Straight(I_LinkCondition)
  BY DEF Straight, I_LinkCondition, Class, Always, IfSet, Into
<1>16. Straight(I_MatchCondition)
  BY DEF Straight, I_MatchCondition, Class, Always, IfSet, Into
<1>17. Straight(I_SchemaCreateQuery)
  BY DEF Straight, I_SchemaCreateQuery, Class, Always, IfSet, Into
<1>18. Straight(I_SchemaGetQuery)
  BY DEF Straight, I_SchemaGetQuery, Class, Always, IfSet, Into
<1>19. Straight(I_SchemaDeleteQuery)
  BY DEF Straight, I_SchemaDeleteQuery, Class, Always, IfSet, Into
<1>20. Straight(I_NodeCreateQuery)
  BY DEF Straight, I_NodeCreateQuery, Class, Always, IfSet, Into
<1>21. Straight(I_NodeUpdateQuery)
  BY DEF Straight, I_NodeUpdateQuery, Class, Always, IfSet, Into
<1>22. Straight(I_NodeDeleteQuery)
  BY DEF Straight, I_NodeDeleteQuery, Class, Always, IfSet, Into
<1>23. Straight(I_NodeMatchQuery)
  BY DEF Straight, I_NodeMatchQuery, Class, Always, IfSet, Into
<1>24. Straight(I_LinkCreateQuery)
  BY DEF Straight, I_LinkCreateQuery, Class, Always, IfSet, Into
<1>25. Straight(I_LinkDeleteQuery)
  BY DEF Straight, I_LinkDeleteQuery, Class, Always, IfSet, Into
<1>26. Straight(I_MatchQuery)
  BY DEF Straight, I_MatchQuery, Class, Always, IfSet, Into
<1>27. Straight(I_uQuery)
  BY DEF Straight, I_uQuery, Class, Always, IfSet, Into
<1>28. Straight(I_Query)
  BY DEF Straight, I_Query, Class, Always, IfSet, Into
<1>29. Straight(I_Result)
  BY DEF Straight, I_Result, Class, Always, IfSet, Into
<1>30. Straight(I_uQueryResult)
  BY DEF Straight, I_uQueryResult, Class, Always, IfSet, Into
<1>31. Straight(I_QueryResult)
  BY DEF Straight, I_QueryResult, Class, Always, IfSet, Into
<1>32. Straight(querySvcExecuteArgs)
  BY DEF Straight, querySvcExecuteArgs, Class, Always, IfSet, Into
<1>33. Straight(querySvcExecuteResult)
  BY DEF Straight, querySvcExecuteResult, Class, Always, IfSet, Into
<1> QED
  BY <1>1, <1>2, <1>3, <1>4, <1>5, <1>6, <1>7, <1>8, <1>9, <1>10, <1>11,
     <1>12, <1>13, <1>14, <1>15, <1>16, <1>17, <1>18, <1>19, <1>20, <1>21, <1>22,
     <1>23, <1>24, <1>25, <1>26, <1>27, <1>28, <1>29, <1>30, <1>31, <1>32, <1>33

\* The field that is read into a member is its own, if it was sent at all.
LEMMA FieldsOf ==
  ASSUME NEW class, Straight(class), NEW obj, NEW m \in DOMAIN class.init
  PROVE  IF class.write[m].optional => m \in obj.set
         THEN Fields(class, obj, m) # {} /\ (CHOOSE w \in Fields(class, obj, m) : TRUE) = m
         ELSE Fields(class, obj, m) = {}
<1>1. Fields(class, obj, m) = IF class.write[m].optional => m \in obj.set THEN {m} ELSE {}
  BY DEF Straight, Fields, Sent
<1> QED BY <1>1

\* What a new I_uValue holds after it was read.
LEMMA ReadsuValue ==
  ASSUME NEW obj
  PROVE  LET r == ReadPlain(I_uValue, New(I_uValue), obj)
         IN  /\ r.is.integer = IF "integer" \in obj.set THEN obj.is.integer ELSE 0
             /\ r.is.string_ = IF "string_" \in obj.set THEN ReadText(SentText(obj.is.string_)) ELSE Null
             /\ r.is.floating = IF "floating" \in obj.set THEN obj.is.floating ELSE 0
             /\ r.is.boolean = IF "boolean" \in obj.set THEN obj.is.boolean ELSE FALSE
<1>1. \A m \in {"integer", "string_", "floating", "boolean"} :
        IF I_uValue.write[m].optional => m \in obj.set
        THEN Fields(I_uValue, obj, m) # {} /\ (CHOOSE w \in Fields(I_uValue, obj, m) : TRUE) = m
        ELSE Fields(I_uValue, obj, m) = {}
  BY ClassesAreStraight, FieldsOf DEF I_uValue, Class
<1> QED
  BY <1>1 DEF ReadPlain, Read, New, I_uValue, Class, Always, IfSet, Into

\* What a new I_Value holds after it was read.
LEMMA ReadsValue ==
  ASSUME NEW obj
  PROVE  LET r == read_Value(New(I_Value), obj)
         IN  /\ r.is.type = obj.is.type
             /\ r.is.value = ReadPlain(I_uValue, New(I_uValue), obj.is.value)
<1>1. \A m \in {"type", "value"} :
        IF I_Value.write[m].optional => m \in obj.set
        THEN Fields(I_Value, obj, m) # {} /\ (CHOOSE w \in Fields(I_Value, obj, m) : TRUE) = m
        ELSE Fields(I_Value, obj, m) = {}
  BY ClassesAreStraight, FieldsOf DEF I_Value, Class
<1> QED
  BY <1>1 DEF read_Value, Read, New, I_Value, Class, Always, IfSet, Into

\* What a new I_Property holds after it was read.
LEMMA ReadsProperty ==
  ASSUME NEW obj
  PROVE  LET r == read_Property(New(I_Property), obj)
         IN  /\ r.is.field = IF "field" \in obj.set THEN ReadText(SentText(obj.is.field)) ELSE Null
             /\ r.is.value = read_Value(New(I_Value), obj.is.value)
<1>1. \A m \in {"field", "value"} :
        IF I_Property.write[m].optional => m \in obj.set
        THEN Fields(I_Property, obj, m) # {} /\ (CHOOSE w \in Fields(I_Property, obj, m) : TRUE) = m
        ELSE Fields(I_Property, obj, m) = {}
  BY ClassesAreStraight, FieldsOf DEF I_Property, Class
<1> QED
  BY <1>1 DEF read_Property, Read, New, I_Property, Class, Always, IfSet, Into

\* What a new I_Attribute holds after it was read.
LEMMA ReadsAttribute ==
  ASSUME NEW obj
  PROVE  LET r == read_Attribute(New(I_Attribute), obj)
         IN  /\ r.is.name = ReadText(SentText(obj.is.name))
             /\ r.is.vt = obj.is.vt
<1>1. \A m \in {"name", "vt"} :
        IF I_Attribute.write[m].optional => m \in obj.set
        THEN Fields(I_Attribute, obj, m) # {} /\ (CHOOSE w \in Fields(I_Attribute, obj, m) : TRUE) = m
        ELSE Fields(I_Attribute, obj, m) = {}
  BY ClassesAreStraight, FieldsOf DEF I_Attribute, Class
<1> QED
  BY <1>1 DEF read_Attribute, ReadPlain, Read, New, I_Attribute, Class, Always, IfSet, Into

\* What a new I_Schema holds after it was read.
LEMMA ReadsSchema ==
  ASSUME NEW obj
  PROVE  LET r == read_Schema(New(I_Schema), obj)
         IN  /\ r.is.name = ReadText(SentText(obj.is.name))
             /\ r.is.attributes = ReadList(I_Attribute, read_Attribute, <<>>, obj.is.attributes)
<1>1. \A m \in {"name", "attributes"} :
        IF I_Schema.write[m].optional => m \in obj.set
        THEN Fields(I_Schema, obj, m) # {} /\ (CHOOSE w \in Fields(I_Schema, obj, m) : TRUE) = m
        ELSE Fields(I_Schema, obj, m) = {}
  BY ClassesAreStraight, FieldsOf DEF I_Schema, Class
<1> QED
  BY <1>1 DEF read_Schema, Read, New, I_Schema, Class, Always, IfSet, Into

\* What a new I_Node holds after it was read.
LEMMA ReadsNode ==
  ASSUME NEW obj
  PROVE  LET r == read_Node(New(I_Node), obj)
         IN  /\ r.is.name = IF "name" \in obj.set THEN ReadText(SentText(obj.is.name)) ELSE Null
             /\ r.is.properties = ReadList(I_Property, read_Property, <<>>, obj.is.properties)
<1>1. \A m \in {"name", "properties"} :
        IF I_Node.write[m].optional => m \in obj.set
        THEN Fields(I_Node, obj, m) # {} /\ (CHOOSE w \in Fields(I_Node, obj, m) : TRUE) = m
        ELSE Fields(I_Node, obj, m) = {}
  BY ClassesAreStraight, FieldsOf DEF I_Node, Class
<1> QED
  BY <1>1 DEF read_Node, Read, New, I_Node, Class, Always, IfSet, Into

\* What a new I_Link holds after it was read.
LEMMA ReadsLink ==
  ASSUME NEW obj
  PROVE  LET r == read_Link(New(I_Link), obj)
         IN  /\ r.is.name = ReadText(SentText(obj.is.name))
             /\ r.is.type = obj.is.type
<1>1. \A m \in {"name", "type"} :
        IF I_Link.write[m].optional => m \in obj.set
        THEN Fields(I_Link, obj, m) # {} /\ (CHOOSE w \in Fields(I_Link, obj, m) : TRUE) = m
        ELSE Fields(I_Link, obj, m) = {}
  BY ClassesAreStraight, FieldsOf DEF I_Link, Class
<1> QED
  BY <1>1 DEF read_Link, ReadPlain, Read, New, I_Link, Class, Always, IfSet, Into

\* What a new I_uComparable holds after it was read.
LEMMA ReadsuComparable ==
  ASSUME NEW obj
  PROVE  LET r == read_uComparable(New(I_uComparable), obj)
         IN  /\ r.is.field_name = IF "field_name" \in obj.set THEN ReadText(SentText(obj.is.field_name)) ELSE Null
             /\ r.is.value = IF "value" \in obj.set THEN read_Value(New(I_Value), obj.is.value) ELSE New(I_Value)
<1>1. \A m \in {"field_name", "value"} :
        IF I_uComparable.write[m].optional => m \in obj.set
        THEN Fields(I_uComparable, obj, m) # {} /\ (CHOOSE w \in Fields(I_uComparable, obj, m) : TRUE) = m
        ELSE Fields(I_uComparable, obj, m) = {}
  BY ClassesAreStraight, FieldsOf DEF I_uComparable, Class
<1> QED
  BY <1>1 DEF read_uComparable, Read, New, I_uComparable, Class, Always, IfSet, Into

\* What a new I_Comparable holds after it was read.
LEMMA ReadsComparable ==
  ASSUME NEW obj
  PROVE  LET r == read_Comparable(New(I_Comparable), obj)
         IN  /\ r.is.type = obj.is.type
             /\ r.is.comparable = read_uComparable(New(I_uComparable), obj.is.comparable)
<1>1. \A m \in {"type", "comparable"} :
        IF I_Comparable.write[m].optional => m \in obj.set
        THEN Fields(I_Comparable, obj, m) # {} /\ (CHOOSE w \in Fields(I_Comparable, obj, m) : TRUE) = m
        ELSE Fields(I_Comparable, obj, m) = {}
  BY ClassesAreStraight, FieldsOf DEF I_Comparable, Class
<1> QED
  BY <1>1 DEF read_Comparable, Read, New, I_Comparable, Class, Always, IfSet, Into

\* What a new I_Compare holds after it was read.
LEMMA ReadsCompare ==
  ASSUME NEW obj
  PROVE  LET r == read_Compare(New(I_Compare), obj)
         IN  /\ r.is.cmp = obj.is.cmp
             /\ r.is.with_ = read_Comparable(New(I_Comparable), obj.is.with_)
<1>1. \A m \in {"cmp", "with_"} :
        IF I_Compare.write[m].optional => m \in obj.set
        THEN Fields(I_Compare, obj, m) # {} /\ (CHOOSE w \in Fields(I_Compare, obj, m) : TRUE) = m
        ELSE Fields(I_Compare, obj, m) = {}
  BY ClassesAreStraight, FieldsOf DEF I_Compare, Class
<1> QED
  BY <1>1 DEF read_Compare, Read, New, I_Compare, Class, Always, IfSet, Into

\* What a new I_ConditionCompare holds after it was read.
LEMMA ReadsConditionCompare ==
  ASSUME NEW obj
  PROVE  LET r == read_ConditionCompare(New(I_ConditionCompare), obj)
         IN  /\ r.is.left = read_Comparable(New(I_Comparable), obj.is.left)
             /\ r.is.compare = read_Compare(New(I_Compare), obj.is.compare)
<1>1. \A m \in {"left", "compare"} :
        IF I_ConditionCompare.write[m].optional => m \in obj.set
        THEN Fields(I_ConditionCompare, obj, m) # {} /\ (CHOOSE w \in Fields(I_ConditionCompare, obj, m) : TRUE) = m
        ELSE Fields(I_ConditionCompare, obj, m) = {}
  BY ClassesAreStraight, FieldsOf DEF I_ConditionCompare, Class
<1> QED
  BY <1>1 DEF read_ConditionCompare, Read, New, I_ConditionCompare, Class, Always, IfSet, Into

\* What a new I_NodeCondition holds after it was read.
LEMMA ReadsNodeCondition ==
  ASSUME NEW obj
  PROVE  LET r == read_NodeCondition(New(I_NodeCondition), obj)
         IN  /\ r.is.is_null = obj.is.is_null
             /\ r.is.schema = ReadText(SentText(obj.is.schema))
             /\ r.is.predicates = ReadList(I_Predicate, read_Predicate, <<>>, obj.is.predicates)
<1>1. \A m \in {"is_null", "schema", "predicates"} :
        IF I_NodeCondition.write[m].optional => m \in obj.set
        THEN Fields(I_NodeCondition, obj, m) # {} /\ (CHOOSE w \in Fields(I_NodeCondition, obj, m) : TRUE) = m
        ELSE Fields(I_NodeCondition, obj, m) = {}
  BY ClassesAreStraight, FieldsOf DEF I_NodeCondition, Class
<1> QED
  BY <1>1 DEF read_NodeCondition, Read, New, I_NodeCondition, Class, Always, IfSet, Into

\* What a new I_LinkCondition holds after it was read.
LEMMA ReadsLinkCondition ==
  ASSUME NEW obj
  PROVE  LET r == read_LinkCondition(New(I_LinkCondition), obj)
         IN  /\ r.is.is_null = obj.is.is_null
             /\ r.is.link_type = obj.is.link_type
             /\ r.is.link_name = ReadText(SentText(obj.is.link_name))
<1>1. \A m \in {"is_null", "link_type", "link_name"} :
        IF I_LinkCondition.write[m].optional => m \in obj.set
        THEN Fields(I_LinkCondition, obj, m) # {} /\ (CHOOSE w \in Fields(I_LinkCondition, obj, m) : TRUE) = m
        ELSE Fields(I_LinkCondition, obj, m) = {}
  BY ClassesAreStraight, FieldsOf DEF I_LinkCondition, Class
<1> QED
  BY <1>1 DEF read_LinkCondition, ReadPlain, Read, New, I_LinkCondition, Class, Always, IfSet, Into

\* What a new I_MatchCondition holds after it was read.
LEMMA ReadsMatchCondition ==
  ASSUME NEW obj
  PROVE  LET r == read_MatchCondition(New(I_MatchCondition), obj)
         IN  /\ r.is.is_null = obj.is.is_null
             /\ r.is.node_first_condition = read_NodeCondition(New(I_NodeCondition), obj.is.node_first_condition)
             /\ r.is.node_second_condition = read_NodeCondition(New(I_NodeCondition), obj.is.node_second_condition)
             /\ r.is.node_cross_condition = read_NodeCondition(New(I_NodeCondition), obj.is.node_cross_condition)
             /\ r.is.link_condition = read_LinkCondition(New(I_LinkCondition), obj.is.link_condition)
<1>1. \A m \in {"is_null", "node_first_condition", "node_second_condition", "node_cross_condition", "link_condition"} :
        IF I_MatchCondition.write[m].optional => m \in obj.set
        THEN Fields(I_MatchCondition, obj, m) # {} /\ (CHOOSE w \in Fields(I_MatchCondition, obj, m) : TRUE) = m
        ELSE Fields(I_MatchCondition, obj, m) = {}
  BY ClassesAreStraight, FieldsOf DEF I_MatchCondition, Class
<1> QED
  BY <1>1 DEF read_MatchCondition, Read, New, I_MatchCondition, Class, Always, IfSet, Into

\* What a new I_SchemaCreateQuery holds after it was read.
LEMMA ReadsSchemaCreateQuery ==
  ASSUME NEW obj
  PROVE  LET r == read_SchemaCreateQuery(New(I_SchemaCreateQuery), obj)
         IN  /\ r.is.schema = read_Schema(New(I_Schema), obj.is.schema)
<1>1. \A m \in {"schema"} :
        IF I_SchemaCreateQuery.write[m].optional => m \in obj.set
        THEN Fields(I_SchemaCreateQuery, obj, m) # {} /\ (CHOOSE w \in Fields(I_SchemaCreateQuery, obj, m) : TRUE) = m
        ELSE Fields(I_SchemaCreateQuery, obj, m) = {}
  BY ClassesAreStraight, FieldsOf DEF I_SchemaCreateQuery, Class
<1> QED
  BY <1>1 DEF read_SchemaCreateQuery, Read, New, I_SchemaCreateQuery, Class, Always, IfSet, Into

\* What a new I_SchemaGetQuery holds after it was read.
LEMMA ReadsSchemaGetQuery ==
  ASSUME NEW obj
  PROVE  LET r == ReadPlain(I_SchemaGetQuery, New(I_SchemaGetQuery), obj)
         IN  /\ r.is.schema_name = ReadText(SentText(obj.is.schema_name))
<1>1. \A m \in {"schema_name"} :
        IF I_SchemaGetQuery.write[m].optional => m \in obj.set
        THEN Fields(I_SchemaGetQuery, obj, m) # {} /\ (CHOOSE w \in Fields(I_SchemaGetQuery, obj, m) : TRUE) = m
        ELSE Fields(I_SchemaGetQuery, obj, m) = {}
  BY ClassesAreStraight, FieldsOf DEF I_SchemaGetQuery, Class
<1> QED
  BY <1>1 DEF ReadPlain, Read, New, I_SchemaGetQuery, Class, Always, IfSet, Into

\* What a new I_SchemaDeleteQuery holds after it was read.
LEMMA ReadsSchemaDeleteQuery ==
  ASSUME NEW obj
  PROVE  LET r == ReadPlain(I_SchemaDeleteQuery, New(I_SchemaDeleteQuery), obj)
         IN  /\ r.is.schema_name = ReadText(SentText(obj.is.schema_name))
<1>1. \A m \in {"schema_name"} :
        IF I_SchemaDeleteQuery.write[m].optional => m \in obj.set
        THEN Fields(I_SchemaDeleteQuery, obj, m) # {} /\ (CHOOSE w \in Fields(I_SchemaDeleteQuery, obj, m) : TRUE) = m
        ELSE Fields(I_SchemaDeleteQuery, obj, m) = {}
  BY ClassesAreStraight, FieldsOf DEF I_SchemaDeleteQuery, Class
<1> QED
  BY <1>1 DEF ReadPlain, Read, New, I_SchemaDeleteQuery, Class, Always, IfSet, Into

\* What a new I_NodeCreateQuery holds after it was read.
LEMMA ReadsNodeCreateQuery ==
  ASSUME NEW obj
  PROVE  LET r == read_NodeCreateQuery(New(I_NodeCreateQuery), obj)
         IN  /\ r.is.schema_name = ReadText(SentText(obj.is.schema_name))
             /\ r.is.node = read_Node(New(I_Node), obj.is.node)
<1>1. \A m \in {"schema_name", "node"} :
        IF I_NodeCreateQuery.write[m].optional => m \in obj.set
        THEN Fields(I_NodeCreateQuery, obj, m) # {} /\ (CHOOSE w \in Fields(I_NodeCreateQuery, obj, m) : TRUE) = m
        ELSE Fields(I_NodeCreateQuery, obj, m) = {}
  BY ClassesAreStraight, FieldsOf DEF I_NodeCreateQuery, Class
<1> QED
  BY <1>1 DEF read_NodeCreateQuery, Read, New, I_NodeCreateQuery, Class, Always, IfSet, Into

\* What a new I_NodeUpdateQuery holds after it was read.
LEMMA ReadsNodeUpdateQuery ==
  ASSUME NEW obj
  PROVE  LET r == read_NodeUpdateQuery(New(I_NodeUpdateQuery), obj)
         IN  /\ r.is.condition = read_NodeCondition(New(I_NodeCondition), obj.is.condition)
             /\ r.is.properties = ReadList(I_Property, read_Property, <<>>, obj.is.properties)
<1>1. \A m \in {"condition", "properties"} :
        IF I_NodeUpdateQuery.write[m].optional => m \in obj.set
        THEN Fields(I_NodeUpdateQuery, obj, m) # {} /\ (CHOOSE w \in Fields(I_NodeUpdateQuery, obj, m) : TRUE) = m
        ELSE Fields(I_NodeUpdateQuery, obj, m) = {}
  BY ClassesAreStraight, FieldsOf DEF I_NodeUpdateQuery, Class
<1> QED
  BY <1>1 DEF read_NodeUpdateQuery, Read, New, I_NodeUpdateQuery, Class, Always, IfSet, Into

\* What a new I_NodeDeleteQuery holds after it was read.
LEMMA ReadsNodeDeleteQuery ==
  ASSUME NEW obj
  PROVE  LET r == read_NodeDeleteQuery(New(I_NodeDeleteQuery), obj)
         IN  /\ r.is.condition = read_NodeCondition(New(I_NodeCondition), obj.is.condition)
<1>1. \A m \in {"condition"} :
        IF I_NodeDeleteQuery.write[m].optional => m \in obj.set
        THEN Fields(I_NodeDeleteQuery, obj, m) # {} /\ (CHOOSE w \in Fields(I_NodeDeleteQuery, obj, m) : TRUE) = m
        ELSE Fields(I_NodeDeleteQuery, obj, m) = {}
  BY ClassesAreStraight, FieldsOf DEF I_NodeDeleteQuery, Class
<1> QED
  BY <1>1 DEF read_NodeDeleteQuery, Read, New, I_NodeDeleteQuery, Class, Always, IfSet, Into

\* What a new I_NodeMatchQuery holds after it was read.
LEMMA ReadsNodeMatchQuery ==
  ASSUME NEW obj
  PROVE  LET r == read_NodeMatchQuery(New(I_NodeMatchQuery), obj)
         IN  /\ r.is.condition = read_NodeCondition(New(I_NodeCondition), obj.is.condition)
<1>1. \A m \in {"condition"} :
        IF I_NodeMatchQuery.write[m].optional => m \in obj.set
        THEN Fields(I_NodeMatchQuery, obj, m) # {} /\ (CHOOSE w \in Fields(I_NodeMatchQuery, obj, m) : TRUE) = m
        ELSE Fields(I_NodeMatchQuery, obj, m) = {}
  BY ClassesAreStraight, FieldsOf DEF I_NodeMatchQuery, Class
<1> QED
  BY <1>1 DEF read_NodeMatchQuery, Read, New, I_NodeMatchQuery, Class, Always, IfSet, Into

\* What a new I_LinkCreateQuery holds after it was read.
LEMMA ReadsLinkCreateQuery ==
  ASSUME NEW obj
  PROVE  LET r == read_LinkCreateQuery(New(I_LinkCreateQuery), obj)
         IN  /\ r.is.link_name = ReadText(SentText(obj.is.link_name))
             /\ r.is.link_type = obj.is.link_type
             /\ r.is.first = read_NodeCondition(New(I_NodeCondition), obj.is.first)
             /\ r.is.second = read_NodeCondition(New(I_NodeCondition), obj.is.second)
<1>1. \A m \in {"link_name", "link_type", "first", "second"} :
        IF I_LinkCreateQuery.write[m].optional => m \in obj.set
        THEN Fields(I_LinkCreateQuery, obj, m) # {} /\ (CHOOSE w \in Fields(I_LinkCreateQuery, obj, m) : TRUE) = m
        ELSE Fields(I_LinkCreateQuery, obj, m) = {}
  BY ClassesAreStraight, FieldsOf DEF I_LinkCreateQuery, Class
<1> QED
  BY <1>1 DEF read_LinkCreateQuery, Read, New, I_LinkCreateQuery, Class, Always, IfSet, Into

\* What a new I_LinkDeleteQuery holds after it was read.
LEMMA ReadsLinkDeleteQuery ==
  ASSUME NEW obj
  PROVE  LET r == read_LinkDeleteQuery(New(I_LinkDeleteQuery), obj)
         IN  /\ r.is.condition = read_MatchCondition(New(I_MatchCondition), obj.is.condition)
<1>1. \A m \in {"condition"} :
        IF I_LinkDeleteQuery.write[m].optional => m \in obj.set
        THEN Fields(I_LinkDeleteQuery, obj, m) # {} /\ (CHOOSE w \in Fields(I_LinkDeleteQuery, obj, m) : TRUE) = m
        ELSE Fields(I_LinkDeleteQuery, obj, m) = {}
  BY ClassesAreStraight, FieldsOf DEF I_LinkDeleteQuery, Class
<1> QED
  BY <1>1 DEF read_LinkDeleteQuery, Read, New, I_LinkDeleteQuery, Class, Always, IfSet, Into

\* What a new I_MatchQuery holds after it was read.
LEMMA ReadsMatchQuery ==
  ASSUME NEW obj
  PROVE  LET r == read_MatchQuery(New(I_MatchQuery), obj)
         IN  /\ r.is.condition = read_MatchCondition(New(I_MatchCondition), obj.is.condition)
<1>1. \A m \in {"condition"} :
        IF I_MatchQuery.write[m].optional => m \in obj.set
        THEN Fields(I_MatchQuery, obj, m) # {} /\ (CHOOSE w \in Fields(I_MatchQuery, obj, m) : TRUE) = m
        ELSE Fields(I_MatchQuery, obj, m) = {}
  BY ClassesAreStraight, FieldsOf DEF I_MatchQuery, Class
<1> QED
  BY <1>1 DEF read_MatchQuery, Read, New, I_MatchQuery, Class, Always, IfSet, Into

\* What a new I_uQuery holds after it was read.
LEMMA ReadsuQuery ==
  ASSUME NEW obj
  PROVE  LET r == read_uQuery(New(I_uQuery), obj)
         IN  /\ r.is.schema_create_query = IF "schema_create_query" \in obj.set THEN read_SchemaCreateQuery(New(I_SchemaCreateQuery), obj.is.schema_create_query) ELSE New(I_SchemaCreateQuery)
             /\ r.is.schema_get_query = IF "schema_get_query" \in obj.set THEN ReadPlain(I_SchemaGetQuery, New(I_SchemaGetQuery), obj.is.schema_get_query) ELSE New(I_SchemaGetQuery)
             /\ r.is.schema_get_all_query = IF "schema_get_all_query" \in obj.set THEN ReadPlain(I_SchemaGetAllQuery, New(I_SchemaGetAllQuery), obj.is.schema_get_all_query) ELSE New(I_SchemaGetAllQuery)
             /\ r.is.schema_delete_query = IF "schema_delete_query" \in obj.set THEN ReadPlain(I_SchemaDeleteQuery, New(I_SchemaDeleteQuery), obj.is.schema_delete_query) ELSE New(I_SchemaDeleteQuery)
             /\ r.is.node_create_query = IF "node_create_query" \in obj.set THEN read_NodeCreateQuery(New(I_NodeCreateQuery), obj.is.node_create_query) ELSE New(I_NodeCreateQuery)
             /\ r.is.node_update_query = IF "node_update_query" \in obj.set THEN read_NodeUpdateQuery(New(I_NodeUpdateQuery), obj.is.node_update_query) ELSE New(I_NodeUpdateQuery)
             /\ r.is.node_delete_query = IF "node_delete_query" \in obj.set THEN read_NodeDeleteQuery(New(I_NodeDeleteQuery), obj.is.node_delete_query) ELSE New(I_NodeDeleteQuery)
             /\ r.is.node_match_query = IF "node_match_query" \in obj.set THEN read_NodeMatchQuery(New(I_NodeMatchQuery), obj.is.node_match_query) ELSE New(I_NodeMatchQuery)
             /\ r.is.link_create_query = IF "link_create_query" \in obj.set THEN read_LinkCreateQuery(New(I_LinkCreateQuery), obj.is.link_create_query) ELSE New(I_LinkCreateQuery)
             /\ r.is.link_delete_query = IF "link_delete_query" \in obj.set THEN read_LinkDeleteQuery(New(I_LinkDeleteQuery), obj.is.link_delete_query) ELSE New(I_LinkDeleteQuery)
             /\ r.is.match_query = IF "match_query" \in obj.set THEN read_MatchQuery(New(I_MatchQuery), obj.is.match_query) ELSE New(I_MatchQuery)
             /\ r.set = {m \in {"schema_create_query", "schema_get_query", "schema_get_all_query", "schema_delete_query", "node_create_query", "node_update_query", "node_delete_query", "node_match_query", "link_create_query", "link_delete_query", "match_query"} : m \in obj.set}
<1>1. \A m \in {"schema_create_query", "schema_get_query", "schema_get_all_query", "schema_delete_query", "node_create_query", "node_update_query", "node_delete_query", "node_match_query", "link_create_query", "link_delete_query", "match_query"} :
        IF I_uQuery.write[m].optional => m \in obj.set
        THEN Fields(I_uQuery, obj, m) # {} /\ (CHOOSE w \in Fields(I_uQuery, obj, m) : TRUE) = m
        ELSE Fields(I_uQuery, obj, m) = {}
  BY ClassesAreStraight, FieldsOf DEF I_uQuery, Class
<1>2. /\ DOMAIN I_uQuery.init = {"schema_create_query", "schema_get_query", "schema_get_all_query", "schema_delete_query", "node_create_query", "node_update_query", "node_delete_query", "node_match_query", "link_create_query", "link_delete_query", "match_query"}
      /\ \A m \in {"schema_create_query", "schema_get_query", "schema_get_all_query", "schema_delete_query", "node_create_query", "node_update_query", "node_delete_query", "node_match_query", "link_create_query", "link_delete_query", "match_query"} : I_uQuery.read[m].type = "STRUCT"
      /\ \A m \in {"schema_create_query", "schema_get_query", "schema_get_all_query", "schema_delete_query", "node_create_query", "node_update_query", "node_delete_query", "node_match_query", "link_create_query", "link_delete_query", "match_query"} : I_uQuery.write[m].optional
  BY DEF I_uQuery, Class, Always, IfSet, Into
<1>3. I_uQuery.init.schema_create_query = New(I_SchemaCreateQuery) /\ I_uQuery.init.schema_get_query = New(I_SchemaGetQuery) /\ I_uQuery.init.schema_get_all_query = New(I_SchemaGetAllQuery) /\ I_uQuery.init.schema_delete_query = New(I_SchemaDeleteQuery) /\ I_uQuery.init.node_create_query = New(I_NodeCreateQuery) /\ I_uQuery.init.node_update_query = New(I_NodeUpdateQuery) /\ I_uQuery.init.node_delete_query = New(I_NodeDeleteQuery) /\ I_uQuery.init.node_match_query = New(I_NodeMatchQuery) /\ I_uQuery.init.link_create_query = New(I_LinkCreateQuery) /\ I_uQuery.init.link_delete_query = New(I_LinkDeleteQuery) /\ I_uQuery.init.match_query = New(I_MatchQuery)
  BY DEF I_uQuery, Class
<1>4. read_uQuery(New(I_uQuery), obj).is.schema_create_query = IF "schema_create_query" \in obj.set THEN read_SchemaCreateQuery(New(I_SchemaCreateQuery), obj.is.schema_create_query) ELSE New(I_SchemaCreateQuery)
  BY <1>1, <1>2, <1>3 DEF read_uQuery, Read, New
<1>5. read_uQuery(New(I_uQuery), obj).is.schema_get_query = IF "schema_get_query" \in obj.set THEN ReadPlain(I_SchemaGetQuery, New(I_SchemaGetQuery), obj.is.schema_get_query) ELSE New(I_SchemaGetQuery)
  BY <1>1, <1>2, <1>3 DEF read_uQuery, Read, New
<1>6. read_uQuery(New(I_uQuery), obj).is.schema_get_all_query = IF "schema_get_all_query" \in obj.set THEN ReadPlain(I_SchemaGetAllQuery, New(I_SchemaGetAllQuery), obj.is.schema_get_all_query) ELSE New(I_SchemaGetAllQuery)
  BY <1>1, <1>2, <1>3 DEF read_uQuery, Read, New
<1>7. read_uQuery(New(I_uQuery), obj).is.schema_delete_query = IF "schema_delete_query" \in obj.set THEN ReadPlain(I_SchemaDeleteQuery, New(I_SchemaDeleteQuery), obj.is.schema_delete_query) ELSE New(I_SchemaDeleteQuery)
  BY <1>1, <1>2, <1>3 DEF read_uQuery, Read, New
<1>8. read_uQuery(New(I_uQuery), obj).is.node_create_query = IF "node_create_query" \in obj.set THEN read_NodeCreateQuery(New(I_NodeCreateQuery), obj.is.node_create_query) ELSE New(I_NodeCreateQuery)
  BY <1>1, <1>2, <1>3 DEF read_uQuery, Read, New
<1>9. read_uQuery(New(I_uQuery), obj).is.node_update_query = IF "node_update_query" \in obj.set THEN read_NodeUpdateQuery(New(I_NodeUpdateQuery), obj.is.node_update_query) ELSE New(I_NodeUpdateQuery)
  BY <1>1, <1>2, <1>3 DEF read_uQuery, Read, New
<1>10. read_uQuery(New(I_uQuery), obj).is.node_delete_query = IF "node_delete_query" \in obj.set THEN read_NodeDeleteQuery(New(I_NodeDeleteQuery), obj.is.node_delete_query) ELSE New(I_NodeDeleteQuery)
  BY <1>1, <1>2, <1>3 DEF read_uQuery, Read, New
<1>11. read_uQuery(New(I_uQuery), obj).is.node_match_query = IF "node_match_query" \in obj.set THEN read_NodeMatchQuery(New(I_NodeMatchQuery), obj.is.node_match_query) ELSE New(I_NodeMatchQuery)
  BY <1>1, <1>2, <1>3 DEF read_uQuery, Read, New
<1>12. read_uQuery(New(I_uQuery), obj).is.link_create_query = IF "link_create_query" \in obj.set THEN read_LinkCreateQuery(New(I_LinkCreateQuery), obj.is.link_create_query) ELSE New(I_LinkCreateQuery)
  BY <1>1, <1>2, <1>3 DEF read_uQuery, Read, New
<1>13. read_uQuery(New(I_uQuery), obj).is.link_delete_query = IF "link_delete_query" \in obj.set THEN read_LinkDeleteQuery(New(I_LinkDeleteQuery), obj.is.link_delete_query) ELSE New(I_LinkDeleteQuery)
  BY <1>1, <1>2, <1>3 DEF read_uQuery, Read, New
<1>14. read_uQuery(New(I_uQuery), obj).is.match_query = IF "match_query" \in obj.set THEN read_MatchQuery(New(I_MatchQuery), obj.is.match_query) ELSE New(I_MatchQuery)
  BY <1>1, <1>2, <1>3 DEF read_uQuery, Read, New
<1>15. read_uQuery(New(I_uQuery), obj).set = {m \in {"schema_create_query", "schema_get_query", "schema_get_all_query", "schema_delete_query", "node_create_query", "node_update_query", "node_delete_query", "node_match_query", "link_create_query", "link_delete_query", "match_query"} : m \in obj.set}
  BY <1>1, <1>2, <1>3 DEF read_uQuery, Read, New
<1> QED
  BY <1>4, <1>5, <1>6, <1>7, <1>8, <1>9, <1>10, <1>11, <1>12, <1>13, <1>14, <1>15

\* What a new I_Query holds after it was read.
LEMMA ReadsQuery ==
  ASSUME NEW obj
  PROVE  LET r == read_Query(New(I_Query), obj)
         IN  /\ r.is.type = obj.is.type
             /\ r.is.query = read_uQuery(New(I_uQuery), obj.is.query)
<1>1. \A m \in {"type", "query"} :
        IF I_Query.write[m].optional => m \in obj.set
        THEN Fields(I_Query, obj, m) # {} /\ (CHOOSE w \in Fields(I_Query, obj, m) : TRUE) = m
        ELSE Fields(I_Query, obj, m) = {}
  BY ClassesAreStraight, FieldsOf DEF I_Query, Class
<1> QED
  BY <1>1 DEF read_Query, Read, New, I_Query, Class, Always, IfSet, Into

\* What a new I_Result holds after it was read.
LEMMA ReadsResult ==
  ASSUME NEW obj
  PROVE  LET r == read_Result(New(I_Result), obj)
         IN  /\ r.is.return_items = obj.is.return_items
             /\ r.is.first = IF "first" \in obj.set THEN read_Node(New(I_Node), obj.is.first) ELSE New(I_Node)
             /\ r.is.link = IF "link" \in obj.set THEN read_Link(New(I_Link), obj.is.link) ELSE New(I_Link)
             /\ r.is.second = IF "second" \in obj.set THEN read_Node(New(I_Node), obj.is.second) ELSE New(I_Node)
             /\ r.is.schema = IF "schema" \in obj.set THEN read_Schema(New(I_Schema), obj.is.schema) ELSE New(I_Schema)
             /\ r.set = {m \in {"return_items", "first", "link", "second", "schema"} : m \in {"return_items"} \/ m \in obj.set}
<1>1. \A m \in {"return_items", "first", "link", "second", "schema"} :
        IF I_Result.write[m].optional => m \in obj.set
        THEN Fields(I_Result, obj, m) # {} /\ (CHOOSE w \in Fields(I_Result, obj, m) : TRUE) = m
        ELSE Fields(I_Result, obj, m) = {}
  BY ClassesAreStraight, FieldsOf DEF I_Result, Class
<1>2. /\ DOMAIN I_Result.init = {"return_items", "first", "link", "second", "schema"}
      /\ \A m \in {"return_items", "first", "link", "second", "schema"} : I_Result.read[m].type = IF m = "return_items" THEN "I32" ELSE "STRUCT"
      /\ \A m \in {"return_items", "first", "link", "second", "schema"} : I_Result.write[m].optional <=> m # "return_items"
  BY DEF I_Result, Class, Always, IfSet, Into
<1>3. I_Result.init.first = New(I_Node) /\ I_Result.init.link = New(I_Link) /\ I_Result.init.second = New(I_Node) /\ I_Result.init.schema = New(I_Schema)
  BY DEF I_Result, Class
<1>4. read_Result(New(I_Result), obj).is.return_items = obj.is.return_items
  BY <1>1, <1>2, <1>3 DEF read_Result, Read, New
<1>5. read_Result(New(I_Result), obj).is.first = IF "first" \in obj.set THEN read_Node(New(I_Node), obj.is.first) ELSE New(I_Node)
  BY <1>1, <1>2, <1>3 DEF read_Result, Read, New
<1>6. read_Result(New(I_Result), obj).is.link = IF "link" \in obj.set THEN read_Link(New(I_Link), obj.is.link) ELSE New(I_Link)
  BY <1>1, <1>2, <1>3 DEF read_Result, Read, New
<1>7. read_Result(New(I_Result), obj).is.second = IF "second" \in obj.set THEN read_Node(New(I_Node), obj.is.second) ELSE New(I_Node)
  BY <1>1, <1>2, <1>3 DEF read_Result, Read, New
<1>8. read_Result(New(I_Result), obj).is.schema = IF "schema" \in obj.set THEN read_Schema(New(I_Schema), obj.is.schema) ELSE New(I_Schema)
  BY <1>1, <1>2, <1>3 DEF read_Result, Read, New
<1>9. read_Result(New(I_Result), obj).set = {m \in {"return_items", "first", "link", "second", "schema"} : m \in {"return_items"} \/ m \in obj.set}
  BY <1>1, <1>2, <1>3 DEF read_Result, Read, New
<1> QED
  BY <1>4, <1>5, <1>6, <1>7, <1>8, <1>9

\* What a new I_uQueryResult holds after it was read.
LEMMA ReadsuQueryResult ==
  ASSUME NEW obj
  PROVE  LET r == read_uQueryResult(New(I_uQueryResult), obj)
         IN  /\ r.is.schema = IF "schema" \in obj.set THEN read_Schema(New(I_Schema), obj.is.schema) ELSE New(I_Schema)
             /\ r.is.items = IF "items" \in obj.set THEN ReadList(I_Result, read_Result, <<>>, obj.is.items) ELSE <<>>
<1>1. \A m \in {"schema", "items"} :
        IF I_uQueryResult.write[m].optional => m \in obj.set
        THEN Fields(I_uQueryResult, obj, m) # {} /\ (CHOOSE w \in Fields(I_uQueryResult, obj, m) : TRUE) = m
        ELSE Fields(I_uQueryResult, obj, m) = {}
  BY ClassesAreStraight, FieldsOf DEF I_uQueryResult, Class
<1> QED
  BY <1>1 DEF read_uQueryResult, Read, New, I_uQueryResult, Class, Always, IfSet, Into

\* What a new I_QueryResult holds after it was read.
LEMMA ReadsQueryResult ==
  ASSUME NEW obj
  PROVE  LET r == read_QueryResult(New(I_QueryResult), obj)
         IN  /\ r.is.type = obj.is.type
             /\ r.is.message = ReadText(SentText(obj.is.message))
             /\ r.is.result = IF "result" \in obj.set THEN read_uQueryResult(New(I_uQueryResult), obj.is.result) ELSE New(I_uQueryResult)
<1>1. \A m \in {"type", "message", "result"} :
        IF I_QueryResult.write[m].optional => m \in obj.set
        THEN Fields(I_QueryResult, obj, m) # {} /\ (CHOOSE w \in Fields(I_QueryResult, obj, m) : TRUE) = m
        ELSE Fields(I_QueryResult, obj, m) = {}
  BY ClassesAreStraight, FieldsOf DEF I_QueryResult, Class
<1> QED
  BY <1>1 DEF read_QueryResult, Read, New, I_QueryResult, Class, Always, IfSet, Into

-----------------------------------------------------------------------------
(* Texts, numbers of enumerators, and lists *)

\* A text arrives as it was sent, but for one without letters.
LEMMA TextArrives ==
  ASSUME NEW text
  PROVE  ReadText(SentText(text)) = ReadText(text)
BY ConversationAssumption DEF ConversationAssumption, ReadText, SentText

\* An enumerator has the same number in the parser and in the interface.
LEMMA ClientCodes ==
  /\ \A x \in ToSet(Client!ValueType) :
        Client!Code(Client!ValueType, x) = Code(I_ValueType, x)
  /\ \A x \in {"LT_TO", "LT_FROM", "LT_BOTH"} :
        Client!Code(Client!LinkType, x) = Code(I_LinkType, x)
  /\ \A x \in ToSet(Client!Comparation) :
        Client!Code(Client!Comparation, x) = Code(I_Comparation, x)
  /\ \A x \in {"CMPT_FIELD", "CMPT_VALUE"} :
        Client!Code(Client!ComparableType, x) = Code(I_ComparableType, x)
  /\ \A x \in {"PT_TERM", "PT_AND", "PT_OR"} :
        Client!Code(Client!PredicateType, x) = Code(I_PredicateType, x)
  /\ \A x \in ToSet(Client!QueryType) :
        Client!Code(Client!QueryType, x) = Code(I_QueryType, x)
BY DEF Client!Code, Code, Client!ValueType, I_ValueType, Client!LinkType, I_LinkType,
       Client!Comparation, I_Comparation, Client!ComparableType, I_ComparableType,
       Client!PredicateType, I_PredicateType, Client!QueryType, I_QueryType

\* The elements of a list behind none are the elements of the list.
LEMMA BehindNone ==
  ASSUME NEW n \in Nat, NEW list, list = [i \in 1 .. n |-> list[i]]
  PROVE  <<>> \o list = list
<1> DEFINE S == {list[i] : i \in 1 .. n}
<1>1. list \in Seq(S)
  <2>1. list \in [1 .. n -> S]
    OBVIOUS
  <2> QED BY <2>1
<1> QED BY <1>1

\* The length of a sequence, and its domain.
LEMMA DomainOfList ==
  ASSUME NEW list, list \in Seq(ToSet(list))
  PROVE  Len(list) \in Nat /\ DOMAIN list = 1 .. Len(list)
OBVIOUS


-----------------------------------------------------------------------------
(* What is read holds what was typed *)

\* A value arrives.
LEMMA ValueArrives ==
  ASSUME NEW v, Client!IsValue(v)
  PROVE  HoldsValue(read_Value(New(I_Value), Client!convert_value(v)), v)
<1> DEFINE sent == Client!convert_value(v)
           u == sent.is.value
<1>1. v.vt \in {"VT_INTEGER", "VT_STRING", "VT_FLOATING", "VT_BOOLEAN"}
  BY DEF Client!IsValue, Client!ToSet, Client!ValueType
<1>2. sent.is.type = Code(I_ValueType, v.vt)
  <2>1. sent.is.type = Client!Code(Client!ValueType, v.vt)
    BY DEF Client!convert_value, Client!Make, Client!I_Value, Client!Class
  <2> QED BY <2>1, <1>1, ClientCodes DEF ToSet, Client!ValueType
<1>3. /\ v.vt = "VT_INTEGER" => "integer" \in u.set /\ u.is.integer = v.integer
      /\ v.vt = "VT_STRING" => "string_" \in u.set /\ u.is.string_ = v.string
      /\ v.vt = "VT_FLOATING" => "floating" \in u.set /\ u.is.floating = v.floating
      /\ v.vt = "VT_BOOLEAN" => "boolean" \in u.set /\ u.is.boolean = v.boolean
  BY DEF Client!convert_value, Client!Make, Client!I_Value, Client!I_uValue, Client!Class
<1> HIDE DEF sent, u
<1>4. read_Value(New(I_Value), sent).is.type = Code(I_ValueType, v.vt)
  BY <1>2, ReadsValue
<1>5. PICK r : r = ReadPlain(I_uValue, New(I_uValue), u)
  OBVIOUS
<1>6. read_Value(New(I_Value), sent).is.value = r
  BY <1>5, ReadsValue DEF u
<1>7. /\ v.vt = "VT_INTEGER" => r.is.integer = v.integer
      /\ v.vt = "VT_STRING" => r.is.string_ = ReadText(v.string)
      /\ v.vt = "VT_FLOATING" => r.is.floating = v.floating
      /\ v.vt = "VT_BOOLEAN" => r.is.boolean = v.boolean
  <2>1. /\ r.is.integer = IF "integer" \in u.set THEN u.is.integer ELSE 0
        /\ r.is.string_ = IF "string_" \in u.set THEN ReadText(SentText(u.is.string_)) ELSE Null
        /\ r.is.floating = IF "floating" \in u.set THEN u.is.floating ELSE 0
        /\ r.is.boolean = IF "boolean" \in u.set THEN u.is.boolean ELSE FALSE
    BY <1>5, ReadsuValue
  <2> QED BY <1>3, <2>1, TextArrives
<1> QED BY <1>4, <1>6, <1>7 DEF HoldsValue, sent

\* A property arrives, with its name.
LEMMA PropertyArrives ==
  ASSUME NEW p, Client!IsProperty(p)
  PROVE  HoldsProperty(read_Property(New(I_Property), Client!convert_property(p)), p)
<1>1. PICK sent : sent = Client!convert_property(p)
  OBVIOUS
<1>2. /\ "field" \in sent.set /\ sent.is.field = p.field
      /\ sent.is.value = Client!convert_value(p.value)
  BY <1>1 DEF Client!convert_property, Client!Make, Client!I_Property, Client!Class
<1>3. /\ read_Property(New(I_Property), sent).is.field = ReadText(p.field)
      /\ read_Property(New(I_Property), sent).is.value
            = read_Value(New(I_Value), Client!convert_value(p.value))
  BY <1>2, ReadsProperty, TextArrives
<1>4. HoldsValue(read_Value(New(I_Value), Client!convert_value(p.value)), p.value)
  BY ValueArrives DEF Client!IsProperty
<1> QED BY <1>1, <1>3, <1>4 DEF HoldsProperty

\* An attribute arrives.
LEMMA AttributeArrives ==
  ASSUME NEW a, Client!IsAttribute(a)
  PROVE  HoldsAttribute(read_Attribute(New(I_Attribute), Client!convert_attribute(a)), a)
<1>1. PICK sent : sent = Client!convert_attribute(a)
  OBVIOUS
<1>2. sent.is.name = a.name /\ sent.is.vt = Client!Code(Client!ValueType, a.vt)
  BY <1>1 DEF Client!convert_attribute, Client!Make, Client!I_Attribute, Client!Class
<1>3. Client!Code(Client!ValueType, a.vt) = Code(I_ValueType, a.vt)
  BY ClientCodes DEF Client!IsAttribute, Client!ToSet, ToSet
<1> QED BY <1>1, <1>2, <1>3, ReadsAttribute, TextArrives DEF HoldsAttribute

\* The properties arrive in the order that they were typed in.
LEMMA PropertiesArrive ==
  ASSUME NEW list, Client!IsListOf(Client!IsProperty, list)
  PROVE  HoldsList(HoldsProperty,
                   ReadList(I_Property, read_Property, <<>>, Client!convert_property_list(list)),
                   Reverse(list))
<1>1. PICK n \in Nat : Len(list) = n /\ DOMAIN list = 1 .. n
  BY DEF Client!IsListOf, Client!ToSet
<1>2. PICK sent : sent = Client!convert_property_list(list)
  OBVIOUS
<1>3. /\ DOMAIN sent = 1 .. n
      /\ \A i \in 1 .. n : sent[i] = Client!convert_property(list[n - i + 1])
  BY <1>1, <1>2 DEF Client!convert_property_list, Client!ListOf, Client!Reverse
<1>4. PICK read : read = [i \in 1 .. n |-> read_Property(New(I_Property), sent[i])]
  OBVIOUS
<1>5. ReadList(I_Property, read_Property, <<>>, sent) = read
  <2>1. <<>> \o read = read
    BY <1>4, BehindNone
  <2> QED BY <1>3, <1>4, <2>1 DEF ReadList
<1>6. DOMAIN Reverse(list) = 1 .. n /\ \A i \in 1 .. n : Reverse(list)[i] = list[n - i + 1]
  BY <1>1 DEF Reverse
<1>7. \A i \in 1 .. n : HoldsProperty(read[i], Reverse(list)[i])
  <2> TAKE i \in 1 .. n
  <2>1. PICK j \in 1 .. n : j = n - i + 1
    OBVIOUS
  <2>2. Client!IsProperty(list[j])
    BY <1>1, <2>1 DEF Client!IsListOf
  <2> QED BY <1>3, <1>4, <1>6, <2>1, <2>2, PropertyArrives
<1> QED BY <1>2, <1>4, <1>5, <1>6, <1>7 DEF HoldsList

\* The attributes arrive in their order.
LEMMA AttributesArrive ==
  ASSUME NEW list, Client!IsListOf(Client!IsAttribute, list)
  PROVE  HoldsList(HoldsAttribute,
                   ReadList(I_Attribute, read_Attribute, <<>>,
                            Client!ListOf(Client!convert_attribute, list)),
                   list)
<1>1. PICK n \in Nat : DOMAIN list = 1 .. n
  BY DEF Client!IsListOf, Client!ToSet
<1>2. PICK read : read = [i \in 1 .. n |->
                            read_Attribute(New(I_Attribute), Client!convert_attribute(list[i]))]
  OBVIOUS
<1>3. ReadList(I_Attribute, read_Attribute, <<>>, Client!ListOf(Client!convert_attribute, list)) = read
  <2>1. <<>> \o read = read
    BY <1>2, BehindNone
  <2> QED BY <1>1, <1>2, <2>1 DEF ReadList, Client!ListOf
<1>4. \A i \in 1 .. n : HoldsAttribute(read[i], list[i])
  <2> TAKE i \in 1 .. n
  <2>1. Client!IsAttribute(list[i])
    BY <1>1 DEF Client!IsListOf
  <2> QED BY <1>2, <2>1, AttributeArrives
<1> QED BY <1>1, <1>2, <1>3, <1>4 DEF HoldsList

\* A schema arrives.
LEMMA SchemaArrives ==
  ASSUME NEW s, Client!IsListOf(Client!IsAttribute, s.attributes)
  PROVE  HoldsSchema(read_Schema(New(I_Schema), Client!convert_schema(s)), s)
<1>1. PICK sent : sent = Client!convert_schema(s)
  OBVIOUS
<1>2. /\ sent.is.name = s.name
      /\ sent.is.attributes = Client!ListOf(Client!convert_attribute, s.attributes)
  BY <1>1 DEF Client!convert_schema, Client!Make, Client!I_Schema, Client!Class
<1>3. /\ read_Schema(New(I_Schema), sent).is.name = ReadText(s.name)
      /\ read_Schema(New(I_Schema), sent).is.attributes
            = ReadList(I_Attribute, read_Attribute, <<>>,
                       Client!ListOf(Client!convert_attribute, s.attributes))
  BY <1>2, ReadsSchema, TextArrives
<1> QED BY <1>1, <1>3, AttributesArrive DEF HoldsSchema

\* A node arrives, with its name.
LEMMA NodeArrives ==
  ASSUME NEW node, Client!IsListOf(Client!IsProperty, node.properties)
  PROVE  HoldsNode(read_Node(New(I_Node), Client!convert_node(node)), node)
<1>1. PICK sent : sent = Client!convert_node(node)
  OBVIOUS
<1>2. /\ "name" \in sent.set /\ sent.is.name = node.name
      /\ sent.is.properties = Client!convert_property_list(node.properties)
  BY <1>1 DEF Client!convert_node, Client!Make, Client!I_Node, Client!Class
<1>3. /\ read_Node(New(I_Node), sent).is.name = ReadText(node.name)
      /\ read_Node(New(I_Node), sent).is.properties
            = ReadList(I_Property, read_Property, <<>>, Client!convert_property_list(node.properties))
  BY <1>2, ReadsNode, TextArrives
<1> QED BY <1>1, <1>3, PropertiesArrive DEF HoldsNode


\* A term arrives.
LEMMA TermArrives ==
  ASSUME NEW t, Client!IsTerm(t)
  PROVE  HoldsTerm(read_ConditionCompare(New(I_ConditionCompare),
                                         Client!convert_condition_compare(t)), t)
<1>1. PICK sent : sent = Client!convert_condition_compare(t)
  OBVIOUS
<1>2. PICK left, with :
        left = Client!convert_comparable(t.left) /\ with = Client!convert_comparable(t.compare.with)
  OBVIOUS
<1>3. /\ sent.is.left = left
      /\ sent.is.compare.is.cmp = Code(I_Comparation, t.compare.cmp)
      /\ sent.is.compare.is.with_ = with
  <2>1. Client!Code(Client!Comparation, t.compare.cmp) = Code(I_Comparation, t.compare.cmp)
    BY ClientCodes DEF Client!IsTerm, Client!ToSet, ToSet
  <2> QED
    BY <1>1, <1>2, <2>1 DEF Client!convert_condition_compare, Client!convert_compare, Client!Make,
       Client!I_ConditionCompare, Client!I_Compare, Client!Class
<1>4. /\ left.is.type = Code(I_ComparableType, "CMPT_FIELD")
      /\ "field_name" \in left.is.comparable.set
      /\ left.is.comparable.is.field_name = t.left.field_name
  BY <1>2, ClientCodes DEF Client!IsTerm, Client!convert_comparable, Client!Make,
     Client!I_Comparable, Client!I_uComparable, Client!Class
<1>5. /\ with.is.type = Code(I_ComparableType, "CMPT_VALUE")
      /\ "value" \in with.is.comparable.set
      /\ with.is.comparable.is.value = Client!convert_value(t.compare.with.value)
  BY <1>2, ClientCodes DEF Client!IsTerm, Client!convert_comparable, Client!Make,
     Client!I_Comparable, Client!I_uComparable, Client!Class
<1>6. PICK r : r = read_ConditionCompare(New(I_ConditionCompare), sent)
  OBVIOUS
<1>7. /\ r.is.left = read_Comparable(New(I_Comparable), left)
      /\ r.is.compare = read_Compare(New(I_Compare), sent.is.compare)
  BY <1>3, <1>6, ReadsConditionCompare
<1>8. /\ r.is.left.is.type = Code(I_ComparableType, "CMPT_FIELD")
      /\ r.is.left.is.comparable.is.field_name = ReadText(t.left.field_name)
  <2>1. /\ r.is.left.is.type = left.is.type
        /\ r.is.left.is.comparable = read_uComparable(New(I_uComparable), left.is.comparable)
    BY <1>7, ReadsComparable
  <2>2. r.is.left.is.comparable.is.field_name = ReadText(SentText(left.is.comparable.is.field_name))
    BY <1>4, <2>1, ReadsuComparable
  <2> QED BY <1>4, <2>1, <2>2, TextArrives
<1>9. /\ r.is.compare.is.cmp = Code(I_Comparation, t.compare.cmp)
      /\ r.is.compare.is.with_ = read_Comparable(New(I_Comparable), with)
  BY <1>3, <1>7, ReadsCompare
<1>10. /\ r.is.compare.is.with_.is.type = Code(I_ComparableType, "CMPT_VALUE")
       /\ r.is.compare.is.with_.is.comparable.is.value
             = read_Value(New(I_Value), Client!convert_value(t.compare.with.value))
  <2>1. /\ r.is.compare.is.with_.is.type = with.is.type
        /\ r.is.compare.is.with_.is.comparable = read_uComparable(New(I_uComparable), with.is.comparable)
    BY <1>9, ReadsComparable
  <2>2. r.is.compare.is.with_.is.comparable.is.value = read_Value(New(I_Value), with.is.comparable.is.value)
    BY <1>5, <2>1, ReadsuComparable
  <2> QED BY <1>5, <2>1, <2>2
<1>11. HoldsValue(r.is.compare.is.with_.is.comparable.is.value, t.compare.with.value)
  BY <1>10, ValueArrives DEF Client!IsTerm
<1> QED BY <1>1, <1>6, <1>8, <1>9, <1>10, <1>11 DEF HoldsTerm

\* What is read of a predicate that is in two others.
LEMMA ReadsInnermostPredicate ==
  ASSUME NEW obj
  PROVE  LET r == read_InnermostPredicate(New(I_Predicate), obj)
             u == obj.is.predicate
         IN  /\ r.is.type = obj.is.type
             /\ r.is.predicate.is.term =
                   IF "term" \in u.set
                   THEN read_ConditionCompare(New(I_ConditionCompare), u.is.term)
                   ELSE New(I_ConditionCompare)
             /\ "and_" \notin u.set => r.is.predicate.is.and_ = <<>>
             /\ "or_" \notin u.set => r.is.predicate.is.or_ = <<>>
<1>1. \A m \in {"type", "predicate"} :
        /\ Fields(I_Predicate, obj, m) # {}
        /\ (CHOOSE w \in Fields(I_Predicate, obj, m) : TRUE) = m
  BY ClassesAreStraight, FieldsOf DEF I_Predicate, Class, Always
<1>2. PICK sent : sent = obj.is.predicate
  OBVIOUS
<1>3. \A m \in {"term", "and_", "or_"} :
        IF I_uPredicate.write[m].optional => m \in sent.set
        THEN Fields(I_uPredicate, sent, m) # {} /\ (CHOOSE w \in Fields(I_uPredicate, sent, m) : TRUE) = m
        ELSE Fields(I_uPredicate, sent, m) = {}
  BY ClassesAreStraight, FieldsOf DEF I_uPredicate, Class
<1>4. /\ read_InnermostPredicate(New(I_Predicate), obj).is.type = obj.is.type
      /\ read_InnermostPredicate(New(I_Predicate), obj).is.predicate
            = read_uPredicate(LAMBDA x, y : x, New(I_uPredicate), sent)
  BY <1>1, <1>2 DEF read_InnermostPredicate, read_PredicateOf, Read, New, I_Predicate, Class, Into
<1>5. read_uPredicate(LAMBDA x, y : x, New(I_uPredicate), sent).is.term =
        IF "term" \in sent.set
        THEN read_ConditionCompare(New(I_ConditionCompare), sent.is.term)
        ELSE New(I_ConditionCompare)
  BY <1>3 DEF read_uPredicate, Read, New, I_uPredicate, Class, Into, IfSet
<1>6. "and_" \notin sent.set => read_uPredicate(LAMBDA x, y : x, New(I_uPredicate), sent).is.and_ = <<>>
  BY <1>3 DEF read_uPredicate, Read, New, I_uPredicate, Class, Into, IfSet
<1>7. "or_" \notin sent.set => read_uPredicate(LAMBDA x, y : x, New(I_uPredicate), sent).is.or_ = <<>>
  BY <1>3 DEF read_uPredicate, Read, New, I_uPredicate, Class, Into, IfSet
<1> QED BY <1>2, <1>4, <1>5, <1>6, <1>7

\* A predicate that is in two others arrives.
LEMMA InnermostPredicateArrives ==
  ASSUME NEW p, Client!IsInnermostPredicate(p)
  PROVE  HoldsInnermostPredicate(read_InnermostPredicate(New(I_Predicate), Client!convert_innermost_predicate(p)), p)
<1>1. PICK sent : sent = Client!convert_innermost_predicate(p)
  OBVIOUS
<1>2. p.type \in {"PT_TERM", "PT_AND", "PT_OR"}
  BY DEF Client!IsInnermostPredicate
<1>3. sent.is.type = Code(I_PredicateType, p.type)
  <2>1. sent.is.type = Client!Code(Client!PredicateType, p.type)
    BY <1>1 DEF Client!convert_innermost_predicate, Client!convert_predicateOf, Client!Make, Client!I_Predicate, Client!Class
  <2> QED BY <1>2, <2>1, ClientCodes
<1>4. PICK u : u = sent.is.predicate
  OBVIOUS
<1>5. /\ "term" \in u.set <=> p.type = "PT_TERM"
      /\ "and_" \in u.set <=> p.type = "PT_AND"
      /\ "or_" \in u.set <=> p.type = "PT_OR"
  BY <1>1, <1>2, <1>4 DEF Client!convert_innermost_predicate, Client!convert_predicateOf, Client!Make,
     Client!I_Predicate, Client!I_uPredicate, Client!Class
<1>6. p.type = "PT_TERM" => u.is.term = Client!convert_condition_compare(p.term)
  BY <1>1, <1>4 DEF Client!convert_innermost_predicate, Client!convert_predicateOf, Client!Make,
     Client!I_Predicate, Client!I_uPredicate, Client!Class
<1>8. PICK r : r = read_InnermostPredicate(New(I_Predicate), sent)
  OBVIOUS
<1>9. r.is.type = Code(I_PredicateType, p.type)
  BY <1>3, <1>8, ReadsInnermostPredicate
<1>10. IF p.type = "PT_TERM" THEN HoldsTerm(r.is.predicate.is.term, p.term)
                            ELSE r.is.predicate.is.term = New(I_ConditionCompare)
  <2>1. p.type = "PT_TERM" => Client!IsTerm(p.term)
    BY DEF Client!IsInnermostPredicate
  <2> QED BY <1>4, <1>5, <1>6, <1>8, <2>1, ReadsInnermostPredicate, TermArrives
<1>11. p.type = "PT_TERM" /\ r.is.predicate.is.and_ = <<>> /\ r.is.predicate.is.or_ = <<>>
  BY <1>4, <1>5, <1>8, ReadsInnermostPredicate DEF Client!IsInnermostPredicate
<1> QED BY <1>1, <1>8, <1>9, <1>10, <1>11 DEF HoldsInnermostPredicate, HoldsPredicateOf

\* So does a list of them.
LEMMA InnermostPredicatesArrive ==
  ASSUME NEW list, Client!IsListOf(Client!IsInnermostPredicate, list)
  PROVE  HoldsList(HoldsInnermostPredicate,
                   ReadList(I_Predicate, read_InnermostPredicate, <<>>, Client!ListOf(Client!convert_innermost_predicate, list)),
                   list)
<1>1. PICK n \in Nat : DOMAIN list = 1 .. n
  BY DEF Client!IsListOf, Client!ToSet
<1>2. PICK read : read = [i \in 1 .. n |-> read_InnermostPredicate(New(I_Predicate), Client!convert_innermost_predicate(list[i]))]
  OBVIOUS
<1>3. ReadList(I_Predicate, read_InnermostPredicate, <<>>, Client!ListOf(Client!convert_innermost_predicate, list)) = read
  <2>1. <<>> \o read = read
    BY <1>2, BehindNone
  <2> QED BY <1>1, <1>2, <2>1 DEF ReadList, Client!ListOf
<1>4. \A i \in 1 .. n : HoldsInnermostPredicate(read[i], list[i])
  <2> TAKE i \in 1 .. n
  <2>1. Client!IsInnermostPredicate(list[i])
    BY <1>1 DEF Client!IsListOf
  <2> QED BY <1>2, <2>1, InnermostPredicateArrives
<1> QED BY <1>1, <1>2, <1>3, <1>4 DEF HoldsList

\* What is read of a predicate that is in another.
LEMMA ReadsInnerPredicate ==
  ASSUME NEW obj
  PROVE  LET r == read_InnerPredicate(New(I_Predicate), obj)
             u == obj.is.predicate
         IN  /\ r.is.type = obj.is.type
             /\ r.is.predicate.is.term =
                   IF "term" \in u.set
                   THEN read_ConditionCompare(New(I_ConditionCompare), u.is.term)
                   ELSE New(I_ConditionCompare)
             /\ r.is.predicate.is.and_ =
                   IF "and_" \in u.set THEN ReadList(I_Predicate, read_InnermostPredicate, <<>>, u.is.and_) ELSE <<>>
             /\ r.is.predicate.is.or_ =
                   IF "or_" \in u.set THEN ReadList(I_Predicate, read_InnermostPredicate, <<>>, u.is.or_) ELSE <<>>
<1>1. \A m \in {"type", "predicate"} :
        /\ Fields(I_Predicate, obj, m) # {}
        /\ (CHOOSE w \in Fields(I_Predicate, obj, m) : TRUE) = m
  BY ClassesAreStraight, FieldsOf DEF I_Predicate, Class, Always
<1>2. PICK sent : sent = obj.is.predicate
  OBVIOUS
<1>3. \A m \in {"term", "and_", "or_"} :
        IF I_uPredicate.write[m].optional => m \in sent.set
        THEN Fields(I_uPredicate, sent, m) # {} /\ (CHOOSE w \in Fields(I_uPredicate, sent, m) : TRUE) = m
        ELSE Fields(I_uPredicate, sent, m) = {}
  BY ClassesAreStraight, FieldsOf DEF I_uPredicate, Class
<1>4. /\ read_InnerPredicate(New(I_Predicate), obj).is.type = obj.is.type
      /\ read_InnerPredicate(New(I_Predicate), obj).is.predicate
            = read_uPredicate(read_InnermostPredicate, New(I_uPredicate), sent)
  BY <1>1, <1>2 DEF read_InnerPredicate, read_PredicateOf, Read, New, I_Predicate, Class, Into
<1>5. read_uPredicate(read_InnermostPredicate, New(I_uPredicate), sent).is.term =
        IF "term" \in sent.set
        THEN read_ConditionCompare(New(I_ConditionCompare), sent.is.term)
        ELSE New(I_ConditionCompare)
  BY <1>3 DEF read_uPredicate, Read, New, I_uPredicate, Class, Into, IfSet
<1>6. read_uPredicate(read_InnermostPredicate, New(I_uPredicate), sent).is.and_ =
        IF "and_" \in sent.set THEN ReadList(I_Predicate, read_InnermostPredicate, <<>>, sent.is.and_) ELSE <<>>
  BY <1>3 DEF read_uPredicate, Read, New, I_uPredicate, Class, Into, IfSet
<1>7. read_uPredicate(read_InnermostPredicate, New(I_uPredicate), sent).is.or_ =
        IF "or_" \in sent.set THEN ReadList(I_Predicate, read_InnermostPredicate, <<>>, sent.is.or_) ELSE <<>>
  BY <1>3 DEF read_uPredicate, Read, New, I_uPredicate, Class, Into, IfSet
<1> QED BY <1>2, <1>4, <1>5, <1>6, <1>7

\* A predicate that is in another arrives.
LEMMA InnerPredicateArrives ==
  ASSUME NEW p, Client!IsInnerPredicate(p)
  PROVE  HoldsInnerPredicate(read_InnerPredicate(New(I_Predicate), Client!convert_inner_predicate(p)), p)
<1>1. PICK sent : sent = Client!convert_inner_predicate(p)
  OBVIOUS
<1>2. p.type \in {"PT_TERM", "PT_AND", "PT_OR"}
  BY DEF Client!IsInnerPredicate, Client!IsPredicateOf
<1>3. sent.is.type = Code(I_PredicateType, p.type)
  <2>1. sent.is.type = Client!Code(Client!PredicateType, p.type)
    BY <1>1 DEF Client!convert_inner_predicate, Client!convert_predicateOf, Client!Make, Client!I_Predicate, Client!Class
  <2> QED BY <1>2, <2>1, ClientCodes
<1>4. PICK u : u = sent.is.predicate
  OBVIOUS
<1>5. /\ "term" \in u.set <=> p.type = "PT_TERM"
      /\ "and_" \in u.set <=> p.type = "PT_AND"
      /\ "or_" \in u.set <=> p.type = "PT_OR"
  BY <1>1, <1>2, <1>4 DEF Client!convert_inner_predicate, Client!convert_predicateOf, Client!Make,
     Client!I_Predicate, Client!I_uPredicate, Client!Class
<1>6. p.type = "PT_TERM" => u.is.term = Client!convert_condition_compare(p.term)
  BY <1>1, <1>4 DEF Client!convert_inner_predicate, Client!convert_predicateOf, Client!Make,
     Client!I_Predicate, Client!I_uPredicate, Client!Class
<1>7. /\ p.type = "PT_AND" => u.is.and_ = Client!ListOf(Client!convert_innermost_predicate, p.and)
      /\ p.type = "PT_OR" => u.is.or_ = Client!ListOf(Client!convert_innermost_predicate, p.or)
  BY <1>1, <1>4 DEF Client!convert_inner_predicate, Client!convert_predicateOf, Client!Make,
     Client!I_Predicate, Client!I_uPredicate, Client!Class
<1>8. PICK r : r = read_InnerPredicate(New(I_Predicate), sent)
  OBVIOUS
<1>9. r.is.type = Code(I_PredicateType, p.type)
  BY <1>3, <1>8, ReadsInnerPredicate
<1>10. IF p.type = "PT_TERM" THEN HoldsTerm(r.is.predicate.is.term, p.term)
                            ELSE r.is.predicate.is.term = New(I_ConditionCompare)
  <2>1. p.type = "PT_TERM" => Client!IsTerm(p.term)
    BY DEF Client!IsInnerPredicate, Client!IsPredicateOf
  <2> QED BY <1>4, <1>5, <1>6, <1>8, <2>1, ReadsInnerPredicate, TermArrives
<1>11. IF p.type = "PT_AND" THEN HoldsList(HoldsInnermostPredicate, r.is.predicate.is.and_, p.and)
                           ELSE r.is.predicate.is.and_ = <<>>
  <2>1. p.type = "PT_AND" => Client!IsListOf(Client!IsInnermostPredicate, p.and)
    BY DEF Client!IsInnerPredicate, Client!IsPredicateOf
  <2>2. p.type = "PT_AND" =>
          r.is.predicate.is.and_
            = ReadList(I_Predicate, read_InnermostPredicate, <<>>, Client!ListOf(Client!convert_innermost_predicate, p.and))
    BY <1>4, <1>5, <1>7, <1>8, ReadsInnerPredicate
  <2> QED BY <1>4, <1>5, <1>8, <2>1, <2>2, ReadsInnerPredicate, InnermostPredicatesArrive
<1>12. IF p.type = "PT_OR" THEN HoldsList(HoldsInnermostPredicate, r.is.predicate.is.or_, p.or)
                          ELSE r.is.predicate.is.or_ = <<>>
  <2>1. p.type = "PT_OR" => Client!IsListOf(Client!IsInnermostPredicate, p.or)
    BY DEF Client!IsInnerPredicate, Client!IsPredicateOf
  <2>2. p.type = "PT_OR" =>
          r.is.predicate.is.or_
            = ReadList(I_Predicate, read_InnermostPredicate, <<>>, Client!ListOf(Client!convert_innermost_predicate, p.or))
    BY <1>4, <1>5, <1>7, <1>8, ReadsInnerPredicate
  <2> QED BY <1>4, <1>5, <1>8, <2>1, <2>2, ReadsInnerPredicate, InnermostPredicatesArrive
<1> QED BY <1>1, <1>8, <1>9, <1>10, <1>11, <1>12 DEF HoldsInnerPredicate, HoldsPredicateOf

\* So does a list of them.
LEMMA InnerPredicatesArrive ==
  ASSUME NEW list, Client!IsListOf(Client!IsInnerPredicate, list)
  PROVE  HoldsList(HoldsInnerPredicate,
                   ReadList(I_Predicate, read_InnerPredicate, <<>>, Client!ListOf(Client!convert_inner_predicate, list)),
                   list)
<1>1. PICK n \in Nat : DOMAIN list = 1 .. n
  BY DEF Client!IsListOf, Client!ToSet
<1>2. PICK read : read = [i \in 1 .. n |-> read_InnerPredicate(New(I_Predicate), Client!convert_inner_predicate(list[i]))]
  OBVIOUS
<1>3. ReadList(I_Predicate, read_InnerPredicate, <<>>, Client!ListOf(Client!convert_inner_predicate, list)) = read
  <2>1. <<>> \o read = read
    BY <1>2, BehindNone
  <2> QED BY <1>1, <1>2, <2>1 DEF ReadList, Client!ListOf
<1>4. \A i \in 1 .. n : HoldsInnerPredicate(read[i], list[i])
  <2> TAKE i \in 1 .. n
  <2>1. Client!IsInnerPredicate(list[i])
    BY <1>1 DEF Client!IsListOf
  <2> QED BY <1>2, <2>1, InnerPredicateArrives
<1> QED BY <1>1, <1>2, <1>3, <1>4 DEF HoldsList

\* What is read of a predicate.
LEMMA ReadsPredicate ==
  ASSUME NEW obj
  PROVE  LET r == read_Predicate(New(I_Predicate), obj)
             u == obj.is.predicate
         IN  /\ r.is.type = obj.is.type
             /\ r.is.predicate.is.term =
                   IF "term" \in u.set
                   THEN read_ConditionCompare(New(I_ConditionCompare), u.is.term)
                   ELSE New(I_ConditionCompare)
             /\ r.is.predicate.is.and_ =
                   IF "and_" \in u.set THEN ReadList(I_Predicate, read_InnerPredicate, <<>>, u.is.and_) ELSE <<>>
             /\ r.is.predicate.is.or_ =
                   IF "or_" \in u.set THEN ReadList(I_Predicate, read_InnerPredicate, <<>>, u.is.or_) ELSE <<>>
<1>1. \A m \in {"type", "predicate"} :
        /\ Fields(I_Predicate, obj, m) # {}
        /\ (CHOOSE w \in Fields(I_Predicate, obj, m) : TRUE) = m
  BY ClassesAreStraight, FieldsOf DEF I_Predicate, Class, Always
<1>2. PICK sent : sent = obj.is.predicate
  OBVIOUS
<1>3. \A m \in {"term", "and_", "or_"} :
        IF I_uPredicate.write[m].optional => m \in sent.set
        THEN Fields(I_uPredicate, sent, m) # {} /\ (CHOOSE w \in Fields(I_uPredicate, sent, m) : TRUE) = m
        ELSE Fields(I_uPredicate, sent, m) = {}
  BY ClassesAreStraight, FieldsOf DEF I_uPredicate, Class
<1>4. /\ read_Predicate(New(I_Predicate), obj).is.type = obj.is.type
      /\ read_Predicate(New(I_Predicate), obj).is.predicate
            = read_uPredicate(read_InnerPredicate, New(I_uPredicate), sent)
  BY <1>1, <1>2 DEF read_Predicate, read_PredicateOf, Read, New, I_Predicate, Class, Into
<1>5. read_uPredicate(read_InnerPredicate, New(I_uPredicate), sent).is.term =
        IF "term" \in sent.set
        THEN read_ConditionCompare(New(I_ConditionCompare), sent.is.term)
        ELSE New(I_ConditionCompare)
  BY <1>3 DEF read_uPredicate, Read, New, I_uPredicate, Class, Into, IfSet
<1>6. read_uPredicate(read_InnerPredicate, New(I_uPredicate), sent).is.and_ =
        IF "and_" \in sent.set THEN ReadList(I_Predicate, read_InnerPredicate, <<>>, sent.is.and_) ELSE <<>>
  BY <1>3 DEF read_uPredicate, Read, New, I_uPredicate, Class, Into, IfSet
<1>7. read_uPredicate(read_InnerPredicate, New(I_uPredicate), sent).is.or_ =
        IF "or_" \in sent.set THEN ReadList(I_Predicate, read_InnerPredicate, <<>>, sent.is.or_) ELSE <<>>
  BY <1>3 DEF read_uPredicate, Read, New, I_uPredicate, Class, Into, IfSet
<1> QED BY <1>2, <1>4, <1>5, <1>6, <1>7

\* A predicate arrives.
LEMMA PredicateArrives ==
  ASSUME NEW p, Client!IsPredicate(p)
  PROVE  HoldsPredicate(read_Predicate(New(I_Predicate), Client!convert_predicate(p)), p)
<1>1. PICK sent : sent = Client!convert_predicate(p)
  OBVIOUS
<1>2. p.type \in {"PT_TERM", "PT_AND", "PT_OR"}
  BY DEF Client!IsPredicate, Client!IsPredicateOf
<1>3. sent.is.type = Code(I_PredicateType, p.type)
  <2>1. sent.is.type = Client!Code(Client!PredicateType, p.type)
    BY <1>1 DEF Client!convert_predicate, Client!convert_predicateOf, Client!Make, Client!I_Predicate, Client!Class
  <2> QED BY <1>2, <2>1, ClientCodes
<1>4. PICK u : u = sent.is.predicate
  OBVIOUS
<1>5. /\ "term" \in u.set <=> p.type = "PT_TERM"
      /\ "and_" \in u.set <=> p.type = "PT_AND"
      /\ "or_" \in u.set <=> p.type = "PT_OR"
  BY <1>1, <1>2, <1>4 DEF Client!convert_predicate, Client!convert_predicateOf, Client!Make,
     Client!I_Predicate, Client!I_uPredicate, Client!Class
<1>6. p.type = "PT_TERM" => u.is.term = Client!convert_condition_compare(p.term)
  BY <1>1, <1>4 DEF Client!convert_predicate, Client!convert_predicateOf, Client!Make,
     Client!I_Predicate, Client!I_uPredicate, Client!Class
<1>7. /\ p.type = "PT_AND" => u.is.and_ = Client!ListOf(Client!convert_inner_predicate, p.and)
      /\ p.type = "PT_OR" => u.is.or_ = Client!ListOf(Client!convert_inner_predicate, p.or)
  BY <1>1, <1>4 DEF Client!convert_predicate, Client!convert_predicateOf, Client!Make,
     Client!I_Predicate, Client!I_uPredicate, Client!Class
<1>8. PICK r : r = read_Predicate(New(I_Predicate), sent)
  OBVIOUS
<1>9. r.is.type = Code(I_PredicateType, p.type)
  BY <1>3, <1>8, ReadsPredicate
<1>10. IF p.type = "PT_TERM" THEN HoldsTerm(r.is.predicate.is.term, p.term)
                            ELSE r.is.predicate.is.term = New(I_ConditionCompare)
  <2>1. p.type = "PT_TERM" => Client!IsTerm(p.term)
    BY DEF Client!IsPredicate, Client!IsPredicateOf
  <2> QED BY <1>4, <1>5, <1>6, <1>8, <2>1, ReadsPredicate, TermArrives
<1>11. IF p.type = "PT_AND" THEN HoldsList(HoldsInnerPredicate, r.is.predicate.is.and_, p.and)
                           ELSE r.is.predicate.is.and_ = <<>>
  <2>1. p.type = "PT_AND" => Client!IsListOf(Client!IsInnerPredicate, p.and)
    BY DEF Client!IsPredicate, Client!IsPredicateOf
  <2>2. p.type = "PT_AND" =>
          r.is.predicate.is.and_
            = ReadList(I_Predicate, read_InnerPredicate, <<>>, Client!ListOf(Client!convert_inner_predicate, p.and))
    BY <1>4, <1>5, <1>7, <1>8, ReadsPredicate
  <2> QED BY <1>4, <1>5, <1>8, <2>1, <2>2, ReadsPredicate, InnerPredicatesArrive
<1>12. IF p.type = "PT_OR" THEN HoldsList(HoldsInnerPredicate, r.is.predicate.is.or_, p.or)
                          ELSE r.is.predicate.is.or_ = <<>>
  <2>1. p.type = "PT_OR" => Client!IsListOf(Client!IsInnerPredicate, p.or)
    BY DEF Client!IsPredicate, Client!IsPredicateOf
  <2>2. p.type = "PT_OR" =>
          r.is.predicate.is.or_
            = ReadList(I_Predicate, read_InnerPredicate, <<>>, Client!ListOf(Client!convert_inner_predicate, p.or))
    BY <1>4, <1>5, <1>7, <1>8, ReadsPredicate
  <2> QED BY <1>4, <1>5, <1>8, <2>1, <2>2, ReadsPredicate, InnerPredicatesArrive
<1> QED BY <1>1, <1>8, <1>9, <1>10, <1>11, <1>12 DEF HoldsPredicate, HoldsPredicateOf

\* So does a list of them.
LEMMA PredicatesArrive ==
  ASSUME NEW list, Client!IsListOf(Client!IsPredicate, list)
  PROVE  HoldsList(HoldsPredicate,
                   ReadList(I_Predicate, read_Predicate, <<>>, Client!ListOf(Client!convert_predicate, list)),
                   list)
<1>1. PICK n \in Nat : DOMAIN list = 1 .. n
  BY DEF Client!IsListOf, Client!ToSet
<1>2. PICK read : read = [i \in 1 .. n |-> read_Predicate(New(I_Predicate), Client!convert_predicate(list[i]))]
  OBVIOUS
<1>3. ReadList(I_Predicate, read_Predicate, <<>>, Client!ListOf(Client!convert_predicate, list)) = read
  <2>1. <<>> \o read = read
    BY <1>2, BehindNone
  <2> QED BY <1>1, <1>2, <2>1 DEF ReadList, Client!ListOf
<1>4. \A i \in 1 .. n : HoldsPredicate(read[i], list[i])
  <2> TAKE i \in 1 .. n
  <2>1. Client!IsPredicate(list[i])
    BY <1>1 DEF Client!IsListOf
  <2> QED BY <1>2, <2>1, PredicateArrives
<1> QED BY <1>1, <1>2, <1>3, <1>4 DEF HoldsList


\* A condition arrives, also one that is not there.
LEMMA ConditionArrives ==
  ASSUME NEW c, Client!IsCondition(c)
  PROVE  HoldsCondition(read_NodeCondition(New(I_NodeCondition), Client!convert_node_condition(c)), c)
<1>1. PICK sent : sent = Client!convert_node_condition(c)
  OBVIOUS
<1>2. PICK r : r = read_NodeCondition(New(I_NodeCondition), sent)
  OBVIOUS
<1>3. CASE c = Null
  <2>1. sent.is.is_null = TRUE /\ sent.is.schema = Null /\ sent.is.predicates = <<>>
    BY <1>1, <1>3 DEF Client!convert_node_condition, Client!Make, Client!I_NodeCondition, Client!Class
  <2>2. ReadText(SentText(Null)) = Null
    BY ConversationAssumption DEF ConversationAssumption, ReadText, SentText
  <2>3. ReadList(I_Predicate, read_Predicate, <<>>, <<>>) = <<>>
    <3>1. PICK read : read = [i \in 1 .. 0 |-> read_Predicate(New(I_Predicate), <<>>[i])]
      OBVIOUS
    <3>2. <<>> \o read = read /\ read = <<>>
      BY <3>1, BehindNone
    <3> QED BY <3>1, <3>2 DEF ReadList
  <2>4. r.is.is_null = TRUE /\ r.is.schema = Null /\ r.is.predicates = <<>>
    BY <1>2, <2>1, <2>2, <2>3, ReadsNodeCondition
  <2> QED BY <1>1, <1>2, <1>3, <2>4 DEF HoldsCondition
<1>4. CASE c # Null
  <2>1. /\ sent.is.is_null = c.is_null /\ sent.is.schema = c.schema
        /\ sent.is.predicates = Client!ListOf(Client!convert_predicate, c.predicates)
    BY <1>1, <1>4 DEF Client!convert_node_condition, Client!convert_predicates, Client!Make,
       Client!I_NodeCondition, Client!Class
  <2>2. /\ r.is.is_null = c.is_null /\ r.is.schema = ReadText(c.schema)
        /\ r.is.predicates = ReadList(I_Predicate, read_Predicate, <<>>,
                                      Client!ListOf(Client!convert_predicate, c.predicates))
    BY <1>2, <2>1, ReadsNodeCondition, TextArrives
  <2>3. HoldsList(HoldsPredicate, r.is.predicates, c.predicates)
    BY <1>4, <2>2, PredicatesArrive DEF Client!IsCondition
  <2> QED BY <1>1, <1>2, <1>4, <2>2, <2>3 DEF HoldsCondition
<1> QED BY <1>3, <1>4

\* A condition of a link arrives.
LEMMA LinkConditionArrives ==
  ASSUME NEW c, c.link_type \in {"LT_TO", "LT_FROM", "LT_BOTH"}
  PROVE  HoldsLink(read_LinkCondition(New(I_LinkCondition), Client!convert_link_condition(c)), c)
<1>1. PICK sent : sent = Client!convert_link_condition(c)
  OBVIOUS
<1>2. /\ sent.is.is_null = c.is_null /\ sent.is.link_name = c.link_name
      /\ sent.is.link_type = Client!Code(Client!LinkType, c.link_type)
  BY <1>1 DEF Client!convert_link_condition, Client!Make, Client!I_LinkCondition, Client!Class
<1> QED BY <1>1, <1>2, ReadsLinkCondition, TextArrives, ClientCodes DEF HoldsLink

\* The conditions of a match arrive, each as the one it is.
LEMMA MatchArrives ==
  ASSUME NEW c, Client!IsMatchCondition(c)
  PROVE  HoldsMatch(read_MatchCondition(New(I_MatchCondition), Client!convert_match_condition(c)), c)
<1>1. PICK sent : sent = Client!convert_match_condition(c)
  OBVIOUS
<1>2. /\ sent.is.is_null = c.is_null
      /\ sent.is.node_first_condition = Client!convert_node_condition(c.node_first_condition)
      /\ sent.is.node_second_condition = Client!convert_node_condition(c.node_second_condition)
      /\ sent.is.node_cross_condition = Client!convert_node_condition(c.node_cross_condition)
      /\ sent.is.link_condition = Client!convert_link_condition(c.link_condition)
  BY <1>1 DEF Client!convert_match_condition, Client!Make, Client!I_MatchCondition, Client!Class
<1>3. PICK r : r = read_MatchCondition(New(I_MatchCondition), sent)
  OBVIOUS
<1>4. /\ r.is.is_null = c.is_null
      /\ r.is.node_first_condition
           = read_NodeCondition(New(I_NodeCondition), Client!convert_node_condition(c.node_first_condition))
      /\ r.is.node_second_condition
           = read_NodeCondition(New(I_NodeCondition), Client!convert_node_condition(c.node_second_condition))
      /\ r.is.node_cross_condition
           = read_NodeCondition(New(I_NodeCondition), Client!convert_node_condition(c.node_cross_condition))
      /\ r.is.link_condition
           = read_LinkCondition(New(I_LinkCondition), Client!convert_link_condition(c.link_condition))
  BY <1>2, <1>3, ReadsMatchCondition
<1>5. /\ HoldsCondition(r.is.node_first_condition, c.node_first_condition)
      /\ HoldsCondition(r.is.node_second_condition, c.node_second_condition)
      /\ HoldsCondition(r.is.node_cross_condition, c.node_cross_condition)
      /\ HoldsLink(r.is.link_condition, c.link_condition)
  BY <1>4, ConditionArrives, LinkConditionArrives DEF Client!IsMatchCondition
<1> QED BY <1>1, <1>3, <1>4, <1>5 DEF HoldsMatch


\* A query arrives, whatever its type.
LEMMA QueryIsHeld ==
  ASSUME NEW q, Client!IsQuery(q)
  PROVE  HoldsQuery(QueryOf(send_execute(Client!convert_query(q))), q)
<1>1. PICK sent : sent = Client!convert_query(q)
  OBVIOUS
<1>2. PICK r : r = read_Query(New(I_Query), sent)
  OBVIOUS
<1>3. QueryOf(send_execute(sent)) = r
  <2>1. PICK args : args = Make(querySvcExecuteArgs, [query |-> sent])
    OBVIOUS
  <2>2. args.is.query = sent
    BY <2>1 DEF Make, querySvcExecuteArgs, Class
  <2>3. /\ Fields(querySvcExecuteArgs, args, "query") # {}
        /\ (CHOOSE w \in Fields(querySvcExecuteArgs, args, "query") : TRUE) = "query"
    BY ClassesAreStraight, FieldsOf DEF querySvcExecuteArgs, Class, Always
  <2>4. send_execute(sent).fields = args
    BY <2>1 DEF send_execute, Message
  <2> QED BY <1>2, <2>2, <2>3, <2>4 DEF QueryOf, Read, New, querySvcExecuteArgs, Class, Into
<1>4. q.type \in {"SCHEMA_CREATE", "SCHEMA_GET", "SCHEMA_GET_ALL", "SCHEMA_DELETE", "NODE_CREATE", "NODE_UPDATE",
                "NODE_DELETE", "NODE_MATCH", "LINK_CREATE", "LINK_DELETE", "MATCH"}
  BY DEF Client!IsQuery, Client!ToSet, Client!QueryType
<1>5. PICK u : u = sent.is.query
  OBVIOUS
<1>6. sent.is.type = Code(I_QueryType, q.type)
  <2>1. sent.is.type = Client!Code(Client!QueryType, q.type)
    BY <1>1 DEF Client!convert_query, Client!Make, Client!I_Query, Client!Class
  <2> QED BY <2>1, ClientCodes DEF Client!IsQuery, Client!ToSet, ToSet
<1>7. PICK member : member = Client!Member(q)
  OBVIOUS
<1>8. u.set = DOMAIN member /\ \A m \in DOMAIN member : m \in DOMAIN Client!I_uQuery.init => u.is[m] = member[m]
  BY <1>1, <1>5, <1>7 DEF Client!convert_query, Client!Make, Client!I_Query, Client!Class
<1>9. r.is.type = Code(I_QueryType, q.type) /\ r.is.query = read_uQuery(New(I_uQuery), u)
  BY <1>2, <1>5, <1>6, ReadsQuery
<1>10. PICK v : v = r.is.query
  OBVIOUS
<1>11. v = read_uQuery(New(I_uQuery), u)
  BY <1>9, <1>10
<1>12. v.set = DOMAIN member /\ HoldsMember(v.is, q)
  <2>1. CASE q.type = "SCHEMA_CREATE"
    <3>1. DOMAIN member = {"schema_create_query"} /\ member.schema_create_query = Client!convert_schema_create_query(q)
      BY <1>7, <2>1 DEF Client!Member
    <3>2. "schema_create_query" \in u.set /\ u.is.schema_create_query = member.schema_create_query
      BY <1>8, <3>1 DEF Client!I_uQuery, Client!Class
    <3>3. v.set = DOMAIN member
      BY <1>8, <1>11, <3>1, ReadsuQuery
    <3>4. PICK sq : sq = u.is.schema_create_query
      OBVIOUS
    <3>5. /\ sq.is.schema = Client!convert_schema(q.schema)
      BY <3>1, <3>2, <3>4 DEF Client!convert_schema_create_query, Client!Make, Client!I_SchemaCreateQuery, Client!Class
    <3>6. v.is.schema_create_query = read_SchemaCreateQuery(New(I_SchemaCreateQuery), sq)
      BY <1>11, <3>2, <3>4, ReadsuQuery
    <3>7. /\ v.is.schema_create_query.is.schema = read_Schema(New(I_Schema), Client!convert_schema(q.schema))
      BY <1>4, <2>1, <3>5, <3>6, ReadsSchemaCreateQuery, TextArrives, ClientCodes
    <3> QED BY <2>1, <3>3, <3>7, SchemaArrives DEF HoldsMember, Client!IsQuery
  <2>2. CASE q.type = "SCHEMA_GET"
    <3>1. DOMAIN member = {"schema_get_query"} /\ member.schema_get_query = Client!convert_schema_get_query(q)
      BY <1>7, <2>2 DEF Client!Member
    <3>2. "schema_get_query" \in u.set /\ u.is.schema_get_query = member.schema_get_query
      BY <1>8, <3>1 DEF Client!I_uQuery, Client!Class
    <3>3. v.set = DOMAIN member
      BY <1>8, <1>11, <3>1, ReadsuQuery
    <3>4. PICK sq : sq = u.is.schema_get_query
      OBVIOUS
    <3>5. /\ sq.is.schema_name = q.schema_name
      BY <3>1, <3>2, <3>4 DEF Client!convert_schema_get_query, Client!Make, Client!I_SchemaGetQuery, Client!Class
    <3>6. v.is.schema_get_query = ReadPlain(I_SchemaGetQuery, New(I_SchemaGetQuery), sq)
      BY <1>11, <3>2, <3>4, ReadsuQuery
    <3>7. /\ v.is.schema_get_query.is.schema_name = ReadText(q.schema_name)
      BY <1>4, <2>2, <3>5, <3>6, ReadsSchemaGetQuery, TextArrives, ClientCodes
    <3> QED BY <2>2, <3>3, <3>7 DEF HoldsMember
  <2>3. CASE q.type = "SCHEMA_GET_ALL"
    <3>1. DOMAIN member = {"schema_get_all_query"} /\ member.schema_get_all_query = Client!New(Client!I_SchemaGetAllQuery)
      BY <1>7, <2>3 DEF Client!Member
    <3>2. "schema_get_all_query" \in u.set /\ u.is.schema_get_all_query = member.schema_get_all_query
      BY <1>8, <3>1 DEF Client!I_uQuery, Client!Class
    <3>3. v.set = DOMAIN member
      BY <1>8, <1>11, <3>1, ReadsuQuery
    <3> QED BY <2>3, <3>3 DEF HoldsMember
  <2>4. CASE q.type = "SCHEMA_DELETE"
    <3>1. DOMAIN member = {"schema_delete_query"} /\ member.schema_delete_query = Client!convert_schema_delete_query(q)
      BY <1>7, <2>4 DEF Client!Member
    <3>2. "schema_delete_query" \in u.set /\ u.is.schema_delete_query = member.schema_delete_query
      BY <1>8, <3>1 DEF Client!I_uQuery, Client!Class
    <3>3. v.set = DOMAIN member
      BY <1>8, <1>11, <3>1, ReadsuQuery
    <3>4. PICK sq : sq = u.is.schema_delete_query
      OBVIOUS
    <3>5. /\ sq.is.schema_name = q.schema_name
      BY <3>1, <3>2, <3>4 DEF Client!convert_schema_delete_query, Client!Make, Client!I_SchemaDeleteQuery, Client!Class
    <3>6. v.is.schema_delete_query = ReadPlain(I_SchemaDeleteQuery, New(I_SchemaDeleteQuery), sq)
      BY <1>11, <3>2, <3>4, ReadsuQuery
    <3>7. /\ v.is.schema_delete_query.is.schema_name = ReadText(q.schema_name)
      BY <1>4, <2>4, <3>5, <3>6, ReadsSchemaDeleteQuery, TextArrives, ClientCodes
    <3> QED BY <2>4, <3>3, <3>7 DEF HoldsMember
  <2>5. CASE q.type = "NODE_CREATE"
    <3>1. DOMAIN member = {"node_create_query"} /\ member.node_create_query = Client!convert_node_create_query(q)
      BY <1>7, <2>5 DEF Client!Member
    <3>2. "node_create_query" \in u.set /\ u.is.node_create_query = member.node_create_query
      BY <1>8, <3>1 DEF Client!I_uQuery, Client!Class
    <3>3. v.set = DOMAIN member
      BY <1>8, <1>11, <3>1, ReadsuQuery
    <3>4. PICK sq : sq = u.is.node_create_query
      OBVIOUS
    <3>5. /\ sq.is.schema_name = q.schema_name
          /\ sq.is.node = Client!convert_node(q.node)
      BY <3>1, <3>2, <3>4 DEF Client!convert_node_create_query, Client!Make, Client!I_NodeCreateQuery, Client!Class
    <3>6. v.is.node_create_query = read_NodeCreateQuery(New(I_NodeCreateQuery), sq)
      BY <1>11, <3>2, <3>4, ReadsuQuery
    <3>7. /\ v.is.node_create_query.is.schema_name = ReadText(q.schema_name)
          /\ v.is.node_create_query.is.node = read_Node(New(I_Node), Client!convert_node(q.node))
      BY <1>4, <2>5, <3>5, <3>6, ReadsNodeCreateQuery, TextArrives, ClientCodes
    <3> QED BY <2>5, <3>3, <3>7, NodeArrives DEF HoldsMember, Client!IsQuery
  <2>6. CASE q.type = "NODE_UPDATE"
    <3>1. DOMAIN member = {"node_update_query"} /\ member.node_update_query = Client!convert_node_update_query(q)
      BY <1>7, <2>6 DEF Client!Member
    <3>2. "node_update_query" \in u.set /\ u.is.node_update_query = member.node_update_query
      BY <1>8, <3>1 DEF Client!I_uQuery, Client!Class
    <3>3. v.set = DOMAIN member
      BY <1>8, <1>11, <3>1, ReadsuQuery
    <3>4. PICK sq : sq = u.is.node_update_query
      OBVIOUS
    <3>5. /\ sq.is.condition = Client!convert_node_condition(q.condition)
          /\ sq.is.properties = Client!convert_property_list(q.properties)
      BY <3>1, <3>2, <3>4 DEF Client!convert_node_update_query, Client!Make, Client!I_NodeUpdateQuery, Client!Class
    <3>6. v.is.node_update_query = read_NodeUpdateQuery(New(I_NodeUpdateQuery), sq)
      BY <1>11, <3>2, <3>4, ReadsuQuery
    <3>7. /\ v.is.node_update_query.is.condition = read_NodeCondition(New(I_NodeCondition), Client!convert_node_condition(q.condition))
          /\ v.is.node_update_query.is.properties = ReadList(I_Property, read_Property, <<>>, Client!convert_property_list(q.properties))
      BY <1>4, <2>6, <3>5, <3>6, ReadsNodeUpdateQuery, TextArrives, ClientCodes
    <3> QED BY <2>6, <3>3, <3>7, ConditionArrives, PropertiesArrive DEF HoldsMember, Client!IsQuery
  <2>7. CASE q.type = "NODE_DELETE"
    <3>1. DOMAIN member = {"node_delete_query"} /\ member.node_delete_query = Client!convert_node_delete_query(q)
      BY <1>7, <2>7 DEF Client!Member
    <3>2. "node_delete_query" \in u.set /\ u.is.node_delete_query = member.node_delete_query
      BY <1>8, <3>1 DEF Client!I_uQuery, Client!Class
    <3>3. v.set = DOMAIN member
      BY <1>8, <1>11, <3>1, ReadsuQuery
    <3>4. PICK sq : sq = u.is.node_delete_query
      OBVIOUS
    <3>5. /\ sq.is.condition = Client!convert_node_condition(q.condition)
      BY <3>1, <3>2, <3>4 DEF Client!convert_node_delete_query, Client!Make, Client!I_NodeDeleteQuery, Client!Class
    <3>6. v.is.node_delete_query = read_NodeDeleteQuery(New(I_NodeDeleteQuery), sq)
      BY <1>11, <3>2, <3>4, ReadsuQuery
    <3>7. /\ v.is.node_delete_query.is.condition = read_NodeCondition(New(I_NodeCondition), Client!convert_node_condition(q.condition))
      BY <1>4, <2>7, <3>5, <3>6, ReadsNodeDeleteQuery, TextArrives, ClientCodes
    <3> QED BY <2>7, <3>3, <3>7, ConditionArrives DEF HoldsMember, Client!IsQuery
  <2>8. CASE q.type = "NODE_MATCH"
    <3>1. DOMAIN member = {"node_match_query"} /\ member.node_match_query = Client!convert_node_match_query(q)
      BY <1>7, <2>8 DEF Client!Member
    <3>2. "node_match_query" \in u.set /\ u.is.node_match_query = member.node_match_query
      BY <1>8, <3>1 DEF Client!I_uQuery, Client!Class
    <3>3. v.set = DOMAIN member
      BY <1>8, <1>11, <3>1, ReadsuQuery
    <3>4. PICK sq : sq = u.is.node_match_query
      OBVIOUS
    <3>5. /\ sq.is.condition = Client!convert_node_condition(q.condition)
      BY <3>1, <3>2, <3>4 DEF Client!convert_node_match_query, Client!Make, Client!I_NodeMatchQuery, Client!Class
    <3>6. v.is.node_match_query = read_NodeMatchQuery(New(I_NodeMatchQuery), sq)
      BY <1>11, <3>2, <3>4, ReadsuQuery
    <3>7. /\ v.is.node_match_query.is.condition = read_NodeCondition(New(I_NodeCondition), Client!convert_node_condition(q.condition))
      BY <1>4, <2>8, <3>5, <3>6, ReadsNodeMatchQuery, TextArrives, ClientCodes
    <3> QED BY <2>8, <3>3, <3>7, ConditionArrives DEF HoldsMember, Client!IsQuery
  <2>9. CASE q.type = "LINK_CREATE"
    <3>1. DOMAIN member = {"link_create_query"} /\ member.link_create_query = Client!convert_link_create_query(q)
      BY <1>7, <2>9 DEF Client!Member
    <3>2. "link_create_query" \in u.set /\ u.is.link_create_query = member.link_create_query
      BY <1>8, <3>1 DEF Client!I_uQuery, Client!Class
    <3>3. v.set = DOMAIN member
      BY <1>8, <1>11, <3>1, ReadsuQuery
    <3>4. PICK sq : sq = u.is.link_create_query
      OBVIOUS
    <3>5. /\ sq.is.link_name = q.name
          /\ sq.is.link_type = Client!Code(Client!LinkType, q.link_type)
          /\ sq.is.first = Client!convert_node_condition(q.first)
          /\ sq.is.second = Client!convert_node_condition(q.second)
      BY <3>1, <3>2, <3>4 DEF Client!convert_link_create_query, Client!Make, Client!I_LinkCreateQuery, Client!Class
    <3>6. v.is.link_create_query = read_LinkCreateQuery(New(I_LinkCreateQuery), sq)
      BY <1>11, <3>2, <3>4, ReadsuQuery
    <3>7. /\ v.is.link_create_query.is.link_name = ReadText(q.name)
          /\ v.is.link_create_query.is.link_type = Code(I_LinkType, q.link_type)
          /\ v.is.link_create_query.is.first = read_NodeCondition(New(I_NodeCondition), Client!convert_node_condition(q.first))
          /\ v.is.link_create_query.is.second = read_NodeCondition(New(I_NodeCondition), Client!convert_node_condition(q.second))
      BY <1>4, <2>9, <3>5, <3>6, ReadsLinkCreateQuery, TextArrives, ClientCodes DEF Client!IsQuery
    <3> QED BY <2>9, <3>3, <3>7, ConditionArrives DEF HoldsMember, Client!IsQuery
  <2>10. CASE q.type = "LINK_DELETE"
    <3>1. DOMAIN member = {"link_delete_query"} /\ member.link_delete_query = Client!convert_link_delete_query(q)
      BY <1>7, <2>10 DEF Client!Member
    <3>2. "link_delete_query" \in u.set /\ u.is.link_delete_query = member.link_delete_query
      BY <1>8, <3>1 DEF Client!I_uQuery, Client!Class
    <3>3. v.set = DOMAIN member
      BY <1>8, <1>11, <3>1, ReadsuQuery
    <3>4. PICK sq : sq = u.is.link_delete_query
      OBVIOUS
    <3>5. /\ sq.is.condition = Client!convert_match_condition(q.condition)
      BY <3>1, <3>2, <3>4 DEF Client!convert_link_delete_query, Client!Make, Client!I_LinkDeleteQuery, Client!Class
    <3>6. v.is.link_delete_query = read_LinkDeleteQuery(New(I_LinkDeleteQuery), sq)
      BY <1>11, <3>2, <3>4, ReadsuQuery
    <3>7. /\ v.is.link_delete_query.is.condition = read_MatchCondition(New(I_MatchCondition), Client!convert_match_condition(q.condition))
      BY <1>4, <2>10, <3>5, <3>6, ReadsLinkDeleteQuery, TextArrives, ClientCodes
    <3> QED BY <2>10, <3>3, <3>7, MatchArrives DEF HoldsMember, Client!IsQuery
  <2>11. CASE q.type = "MATCH"
    <3>1. DOMAIN member = {"match_query"} /\ member.match_query = Client!convert_match_query(q)
      BY <1>7, <2>11 DEF Client!Member
    <3>2. "match_query" \in u.set /\ u.is.match_query = member.match_query
      BY <1>8, <3>1 DEF Client!I_uQuery, Client!Class
    <3>3. v.set = DOMAIN member
      BY <1>8, <1>11, <3>1, ReadsuQuery
    <3>4. PICK sq : sq = u.is.match_query
      OBVIOUS
    <3>5. /\ sq.is.condition = Client!convert_match_condition(q.condition)
      BY <3>1, <3>2, <3>4 DEF Client!convert_match_query, Client!Make, Client!I_MatchQuery, Client!Class
    <3>6. v.is.match_query = read_MatchQuery(New(I_MatchQuery), sq)
      BY <1>11, <3>2, <3>4, ReadsuQuery
    <3>7. /\ v.is.match_query.is.condition = read_MatchCondition(New(I_MatchCondition), Client!convert_match_condition(q.condition))
      BY <1>4, <2>11, <3>5, <3>6, ReadsMatchQuery, TextArrives, ClientCodes
    <3> QED BY <2>11, <3>3, <3>7, MatchArrives DEF HoldsMember, Client!IsQuery
  <2> QED BY <1>4, <2>1, <2>2, <2>3, <2>4, <2>5, <2>6, <2>7, <2>8, <2>9, <2>10, <2>11
<1> QED BY <1>1, <1>3, <1>7, <1>9, <1>10, <1>12 DEF HoldsQuery


-----------------------------------------------------------------------------
(* What the server makes of an object that holds what was typed: nothing     *)
(* else, and nothing at all only of a text without letters                   *)

\* An enumerator of the interface has the name that the database has for it.
LEMMA ServerNames ==
  /\ \A x \in DOMAIN DataTypeOf :
        /\ Server!NameOf(Server!I_ValueType, Code(I_ValueType, x)) = x
        /\ Server!NameOf(Server!DataType, Code(I_ValueType, x)) = DataTypeOf[x]
  /\ \A x \in DOMAIN LinkTypeOf :
        Server!NameOf(Server!LinkType, Code(I_LinkType, x)) = LinkTypeOf[x]
  /\ \A x \in ToSet(Client!Comparation) :
        Server!NameOf(Server!I_Comparation, Code(I_Comparation, x)) = x
  /\ Server!NameOf(Server!ComparableType, Code(I_ComparableType, "CMPT_FIELD")) = "CMPT_FIELD_NAME"
  /\ Server!NameOf(Server!ComparableType, Code(I_ComparableType, "CMPT_VALUE")) = "CMPT_VALUE"
  /\ \A x \in {"PT_TERM", "PT_AND", "PT_OR"} :
        Server!NameOf(Server!I_PredicateType, Code(I_PredicateType, x)) = x
  /\ \A x \in ToSet(Client!QueryType) :
        Server!NameOf(Server!QueryType, Code(I_QueryType, x)) = x
BY DEF Server!NameOf, Code, DataTypeOf, Server!DataType, Server!I_ValueType, I_ValueType,
       LinkTypeOf, Server!LinkType, I_LinkType, Client!Comparation, Server!I_Comparation, I_Comparation,
       Server!ComparableType, I_ComparableType, Server!I_PredicateType, I_PredicateType,
       Client!QueryType, Server!QueryType, I_QueryType, ToSet

\* A value is the one that was typed.
LEMMA ServerValue ==
  ASSUME NEW obj, NEW v, Client!IsValue(v), HoldsValue(obj, v)
  PROVE  /\ \A x \in Server!convert_value(obj) : x = SaysValue(v)
         /\ "" \notin ValueTexts(v) => Server!convert_value(obj) # {}
<1>1. v.vt \in {"VT_INTEGER", "VT_STRING", "VT_FLOATING", "VT_BOOLEAN"}
  BY DEF Client!IsValue, Client!ToSet, Client!ValueType
<1>2. /\ Server!NameOf(Server!I_ValueType, obj.is.type) = v.vt
      /\ Server!NameOf(Server!DataType, obj.is.type) = DataTypeOf[v.vt]
  BY <1>1, ServerNames DEF HoldsValue, DataTypeOf
<1>3. CASE v.vt = "VT_INTEGER"
  <2>1. Server!convert_value(obj) = {SaysValue(v)}
    BY <1>2, <1>3 DEF Server!convert_value, SaysValue, HoldsValue, DataTypeOf
  <2> QED BY <2>1
<1>4. CASE v.vt = "VT_STRING"
  <2>1. PICK text : text = ReadText(v.string)
    OBVIOUS
  <2>2. Server!convert_value(obj)
          = {[data_type |-> "DT_STRING", string |-> s] : s \in Server!convert_string(text)}
    BY <1>2, <1>4, <2>1 DEF Server!convert_value, HoldsValue, DataTypeOf
  <2>3. IF v.string = "" THEN Server!convert_string(text) = {}
                         ELSE Server!convert_string(text) = {v.string}
    BY <1>4, <2>1, ConversationAssumption
    DEF ConversationAssumption, Client!IsValue, ReadText, Server!convert_string
  <2> QED BY <1>4, <2>2, <2>3 DEF SaysValue, ValueTexts
<1>5. CASE v.vt = "VT_FLOATING"
  <2>1. Server!convert_value(obj) = {SaysValue(v)}
    BY <1>2, <1>5 DEF Server!convert_value, SaysValue, HoldsValue, DataTypeOf
  <2> QED BY <2>1
<1>6. CASE v.vt = "VT_BOOLEAN"
  <2>1. Server!convert_value(obj) = {SaysValue(v)}
    BY <1>2, <1>6 DEF Server!convert_value, SaysValue, HoldsValue, DataTypeOf
  <2> QED BY <2>1
<1> QED BY <1>1, <1>3, <1>4, <1>5, <1>6

\* A term is the one that was typed, with the comparison that the database has
\* for it.
LEMMA ServerTerm ==
  ASSUME NEW obj, NEW p, Client!IsTerm(p.term), HoldsTerm(obj.is.predicate.is.term, p.term)
  PROVE  /\ p.term.left.field_name # "" =>
              \A x \in Server!convert_predicate(obj) : x = SaysTerm(p)
         /\ "" \notin ValueTexts(p.term.compare.with.value) => Server!convert_predicate(obj) # {}
<1>1. PICK t : t = obj.is.predicate.is.term
  OBVIOUS
<1>2. PICK with : with = t.is.compare.is.with_
  OBVIOUS
<1>3. PICK values : values = Server!convert_value(with.is.comparable.is.value)
  OBVIOUS
<1>4. /\ \A x \in values : x = SaysValue(p.term.compare.with.value)
      /\ "" \notin ValueTexts(p.term.compare.with.value) => values # {}
  BY <1>1, <1>2, <1>3, ServerValue DEF HoldsTerm, Client!IsTerm
<1>5. Server!convert_comparable(t.is.left)
        = {[type |-> "CMPT_FIELD_NAME", field_name |-> ReadText(p.term.left.field_name)]}
  BY <1>1, ServerNames DEF HoldsTerm, Server!convert_comparable
<1>6. \A x : x \in Server!convert_comparable(with)
              <=> \E v \in values : x = [type |-> "CMPT_VALUE", value |-> v]
  <2>1. Server!NameOf(Server!ComparableType, with.is.type) = "CMPT_VALUE"
    BY <1>1, <1>2, ServerNames DEF HoldsTerm
  <2> QED BY <1>3, <2>1 DEF Server!convert_comparable
<1>7. PICK cmp : cmp = Server!ConditionCmp[Server!NameOf(Server!I_Comparation, t.is.compare.is.cmp)]
  OBVIOUS
<1>8. cmp = SaysTerm(p).cmp
  <2>1. Server!NameOf(Server!I_Comparation, t.is.compare.is.cmp) = p.term.compare.cmp
    BY <1>1, ServerNames DEF HoldsTerm, Client!IsTerm, Client!ToSet, ToSet
  <2> QED BY <1>7, <2>1 DEF SaysTerm, Server!ConditionCmp, Client!IsTerm, Client!ToSet, Client!Comparation
<1>9. \A x : x \in Server!convert_predicate(obj) <=>
        \E l \in Server!convert_comparable(t.is.left), r \in Server!convert_comparable(with) :
            x = [left |-> l, cmp |-> cmp, right |-> r]
  <2>1. Server!convert_predicate(obj)
          = {[left |-> l, cmp |-> Server!ConditionCmp[Server!NameOf(Server!I_Comparation, t.is.compare.is.cmp)],
              right |-> r] :
                l \in Server!convert_comparable(t.is.left), r \in Server!convert_comparable(with)}
    BY <1>1, <1>2 DEF Server!convert_predicate
  <2> QED BY <1>7, <2>1
<1>10. ASSUME p.term.left.field_name # "", NEW x \in Server!convert_predicate(obj)
       PROVE  x = SaysTerm(p)
  <2>1. PICK l \in Server!convert_comparable(t.is.left), r \in Server!convert_comparable(with) :
          x = [left |-> l, cmp |-> cmp, right |-> r]
    BY <1>9, <1>10
  <2>2. l = SaysTerm(p).left
    <3>1. ReadText(p.term.left.field_name) = p.term.left.field_name
      BY <1>10 DEF ReadText
    <3> QED BY <1>5, <2>1, <3>1 DEF SaysTerm
  <2>3. r = SaysTerm(p).right
    BY <1>4, <1>6, <2>1 DEF SaysTerm
  <2> QED BY <1>8, <2>1, <2>2, <2>3 DEF SaysTerm
<1>11. values # {} => Server!convert_predicate(obj) # {}
  <2>1. \E l : l \in Server!convert_comparable(t.is.left)
    BY <1>5
  <2>2. values # {} => \E r : r \in Server!convert_comparable(with)
    BY <1>6
  <2> QED BY <1>9, <2>1, <2>2
<1> QED BY <1>4, <1>10, <1>11

\* The term that is read of what is no term does not end the server.
LEMMA ServerNoTerm ==
  ASSUME NEW obj, obj.is.predicate.is.term = New(I_ConditionCompare)
  PROVE  Server!convert_predicate(obj) # {}
<1>1. PICK t : t = obj.is.predicate.is.term
  OBVIOUS
<1>2. t.is.left.is.type = 0 /\ t.is.compare.is.with_.is.type = 0
  BY <1>1 DEF New, I_ConditionCompare, I_Compare, I_Comparable, Class
<1>3. Server!NameOf(Server!ComparableType, 0) = "CMPT_FIELD_NAME"
  BY DEF Server!NameOf, Server!ComparableType
<1>4. PICK cmp : cmp = Server!ConditionCmp[Server!NameOf(Server!I_Comparation, t.is.compare.is.cmp)]
  OBVIOUS
<1>5. \A x : x \in Server!convert_predicate(obj) <=>
        \E l \in Server!convert_comparable(t.is.left),
           r \in Server!convert_comparable(t.is.compare.is.with_) :
            x = [left |-> l, cmp |-> cmp, right |-> r]
  BY <1>1, <1>4 DEF Server!convert_predicate
<1>6. ASSUME NEW c, c.is.type = 0
      PROVE  \E l : l \in Server!convert_comparable(c)
  BY <1>3, <1>6 DEF Server!convert_comparable
<1> QED BY <1>2, <1>5, <1>6

-----------------------------------------------------------------------------
(* The lists of the server *)

\* A list of predicates is converted one by one, and if each can be.
LEMMA AllPredicates ==
  ASSUME NEW list
  PROVE  /\ \A s \in Server!AllOf(Server!convert_predicate, list) :
               /\ s = [i \in DOMAIN list |-> s[i]]
               /\ \A i \in DOMAIN list : s[i] \in Server!convert_predicate(list[i])
         /\ (\A i \in DOMAIN list : Server!convert_predicate(list[i]) # {})
              => Server!AllOf(Server!convert_predicate, list) # {}
<1>1. ASSUME NEW s \in Server!AllOf(Server!convert_predicate, list)
      PROVE  s = [i \in DOMAIN list |-> s[i]] /\ \A i \in DOMAIN list : s[i] \in Server!convert_predicate(list[i])
  BY <1>1 DEF Server!AllOf
<1>2. ASSUME \A i \in DOMAIN list : Server!convert_predicate(list[i]) # {}
      PROVE  Server!AllOf(Server!convert_predicate, list) # {}
  <2> DEFINE s == [i \in DOMAIN list |-> CHOOSE x : x \in Server!convert_predicate(list[i])]
  <2>1. \A i \in DOMAIN list : s[i] \in Server!convert_predicate(list[i])
    BY <1>2
  <2>2. s \in [DOMAIN list -> UNION {Server!convert_predicate(list[i]) : i \in DOMAIN list}]
    BY <2>1
  <2> HIDE DEF s
  <2> QED BY <2>1, <2>2 DEF Server!AllOf
<1> QED BY <1>1, <1>2

\* A list of values is converted one by one, and if each can be.
LEMMA AllProperties ==
  ASSUME NEW list
  PROVE  /\ \A s \in Server!AllOf(Server!convert_property, list) :
               /\ s = [i \in DOMAIN list |-> s[i]]
               /\ \A i \in DOMAIN list : s[i] \in Server!convert_property(list[i])
         /\ (\A i \in DOMAIN list : Server!convert_property(list[i]) # {})
              => Server!AllOf(Server!convert_property, list) # {}
<1>1. ASSUME NEW s \in Server!AllOf(Server!convert_property, list)
      PROVE  s = [i \in DOMAIN list |-> s[i]] /\ \A i \in DOMAIN list : s[i] \in Server!convert_property(list[i])
  BY <1>1 DEF Server!AllOf
<1>2. ASSUME \A i \in DOMAIN list : Server!convert_property(list[i]) # {}
      PROVE  Server!AllOf(Server!convert_property, list) # {}
  <2> DEFINE s == [i \in DOMAIN list |-> CHOOSE x : x \in Server!convert_property(list[i])]
  <2>1. \A i \in DOMAIN list : s[i] \in Server!convert_property(list[i])
    BY <1>2
  <2>2. s \in [DOMAIN list -> UNION {Server!convert_property(list[i]) : i \in DOMAIN list}]
    BY <2>1
  <2> HIDE DEF s
  <2> QED BY <2>1, <2>2 DEF Server!AllOf
<1> QED BY <1>1, <1>2

\* A list of properties is converted one by one, and if each can be.
LEMMA AllUpdates ==
  ASSUME NEW list
  PROVE  /\ \A s \in Server!AllOf(Server!convert_update, list) :
               /\ s = [i \in DOMAIN list |-> s[i]]
               /\ \A i \in DOMAIN list : s[i] \in Server!convert_update(list[i])
         /\ (\A i \in DOMAIN list : Server!convert_update(list[i]) # {})
              => Server!AllOf(Server!convert_update, list) # {}
<1>1. ASSUME NEW s \in Server!AllOf(Server!convert_update, list)
      PROVE  s = [i \in DOMAIN list |-> s[i]] /\ \A i \in DOMAIN list : s[i] \in Server!convert_update(list[i])
  BY <1>1 DEF Server!AllOf
<1>2. ASSUME \A i \in DOMAIN list : Server!convert_update(list[i]) # {}
      PROVE  Server!AllOf(Server!convert_update, list) # {}
  <2> DEFINE s == [i \in DOMAIN list |-> CHOOSE x : x \in Server!convert_update(list[i])]
  <2>1. \A i \in DOMAIN list : s[i] \in Server!convert_update(list[i])
    BY <1>2
  <2>2. s \in [DOMAIN list -> UNION {Server!convert_update(list[i]) : i \in DOMAIN list}]
    BY <2>1
  <2> HIDE DEF s
  <2> QED BY <2>1, <2>2 DEF Server!AllOf
<1> QED BY <1>1, <1>2

\* A list of attributes is converted one by one, and if each can be.
LEMMA AllAttributes ==
  ASSUME NEW list
  PROVE  /\ \A s \in Server!AllOf(Server!convert_attribute, list) :
               /\ s = [i \in DOMAIN list |-> s[i]]
               /\ \A i \in DOMAIN list : s[i] \in Server!convert_attribute(list[i])
         /\ (\A i \in DOMAIN list : Server!convert_attribute(list[i]) # {})
              => Server!AllOf(Server!convert_attribute, list) # {}
<1>1. ASSUME NEW s \in Server!AllOf(Server!convert_attribute, list)
      PROVE  s = [i \in DOMAIN list |-> s[i]] /\ \A i \in DOMAIN list : s[i] \in Server!convert_attribute(list[i])
  BY <1>1 DEF Server!AllOf
<1>2. ASSUME \A i \in DOMAIN list : Server!convert_attribute(list[i]) # {}
      PROVE  Server!AllOf(Server!convert_attribute, list) # {}
  <2> DEFINE s == [i \in DOMAIN list |-> CHOOSE x : x \in Server!convert_attribute(list[i])]
  <2>1. \A i \in DOMAIN list : s[i] \in Server!convert_attribute(list[i])
    BY <1>2
  <2>2. s \in [DOMAIN list -> UNION {Server!convert_attribute(list[i]) : i \in DOMAIN list}]
    BY <2>1
  <2> HIDE DEF s
  <2> QED BY <2>1, <2>2 DEF Server!AllOf
<1> QED BY <1>1, <1>2

\* A list of attributes that are found is converted one by one, and if each can be.
LEMMA AllFoundAttributes ==
  ASSUME NEW list
  PROVE  /\ \A s \in Server!AllOf(Server!get_attribute, list) :
               /\ s = [i \in DOMAIN list |-> s[i]]
               /\ \A i \in DOMAIN list : s[i] \in Server!get_attribute(list[i])
         /\ (\A i \in DOMAIN list : Server!get_attribute(list[i]) # {})
              => Server!AllOf(Server!get_attribute, list) # {}
<1>1. ASSUME NEW s \in Server!AllOf(Server!get_attribute, list)
      PROVE  s = [i \in DOMAIN list |-> s[i]] /\ \A i \in DOMAIN list : s[i] \in Server!get_attribute(list[i])
  BY <1>1 DEF Server!AllOf
<1>2. ASSUME \A i \in DOMAIN list : Server!get_attribute(list[i]) # {}
      PROVE  Server!AllOf(Server!get_attribute, list) # {}
  <2> DEFINE s == [i \in DOMAIN list |-> CHOOSE x : x \in Server!get_attribute(list[i])]
  <2>1. \A i \in DOMAIN list : s[i] \in Server!get_attribute(list[i])
    BY <1>2
  <2>2. s \in [DOMAIN list -> UNION {Server!get_attribute(list[i]) : i \in DOMAIN list}]
    BY <2>1
  <2> HIDE DEF s
  <2> QED BY <2>1, <2>2 DEF Server!AllOf
<1> QED BY <1>1, <1>2

\* A list that holds as many as a sequence does is as long.
LEMMA AsLong ==
  ASSUME NEW list, list \in Seq(ToSet(list)), NEW objects, DOMAIN objects = DOMAIN list
  PROVE  Len(objects) = 0 <=> list = <<>>
<1>1. PICK n \in Nat : n = Len(list) /\ DOMAIN list = 1 .. n
  BY DomainOfList
<1>2. Len(objects) = n
  BY <1>1
<1> QED BY <1>1, <1>2

\* Lists without elements and with one.
LEMMA NoElement == DOMAIN <<>> = {} /\ DOMAIN <<>> = 1 .. 0
OBVIOUS

\* The only element of a list of one.
LEMMA OneElement == \A x : DOMAIN <<x>> = {1} /\ <<x>>[1] = x
OBVIOUS

\* A list of no elements is the empty one.
LEMMA EmptyList ==
  ASSUME NEW list, list = [i \in 1 .. 0 |-> list[i]]
  PROVE  list = <<>>
<1>1. list \in [1 .. 0 -> {}]
  OBVIOUS
<1>2. list \in Seq({}) /\ Len(list) = 0
  BY <1>1
<1> QED BY <1>2

\* A sequence with elements has a first one.
LEMMA FirstElement ==
  ASSUME NEW list, list \in Seq(ToSet(list)), list # <<>> \/ Len(list) = 1
  PROVE  1 \in DOMAIN list /\ list # <<>>
<1>1. PICK n \in Nat : n = Len(list) /\ DOMAIN list = 1 .. n
  BY DomainOfList
<1>2. list # <<>> => n # 0
  BY <1>1
<1>3. n # 0
  BY <1>1, <1>2
<1> QED BY <1>1, <1>3

-----------------------------------------------------------------------------
(* Conditions *)

\* The terms of a simple condition are those that the first predicate says.
LEMMA SimpleTerms ==
  ASSUME NEW objects, NEW list, Client!IsListOf(Client!IsPredicate, list),
         HoldsList(HoldsPredicate, objects, list),
         list = <<>> \/ /\ Len(list) = 1
                        /\ \/ list[1].type = "PT_TERM"
                           \/ /\ list[1].type = "PT_AND"
                              /\ \A i \in DOMAIN list[1].and : list[1].and[i].type = "PT_TERM",
         NEW terms, terms = Server!TermsOf(objects), NEW said, said = TermsSaid(list)
  PROVE  /\ DOMAIN terms = DOMAIN said
         /\ \A i \in DOMAIN said :
               /\ Client!IsTerm(said[i].term) /\ HoldsTerm(terms[i].is.predicate.is.term, said[i].term)
               /\ \E j \in DOMAIN list : said[i].term \in TermsInAny(list[j])
<1>1. list \in Seq(ToSet(list)) /\ \A i \in DOMAIN list : Client!IsPredicate(list[i])
  BY DEF Client!IsListOf, Client!ToSet, ToSet
<1>2. /\ DOMAIN objects = DOMAIN list
      /\ \A i \in DOMAIN list : HoldsPredicate(objects[i], list[i])
  BY DEF HoldsList
<1>3. Len(objects) = 0 <=> list = <<>>
  BY <1>1, <1>2, AsLong
<1>4. CASE list = <<>>
  <2>1. terms = <<>> /\ said = <<>>
    BY <1>3, <1>4 DEF Server!TermsOf, TermsSaid
  <2> QED BY <2>1
<1>5. CASE Len(list) = 1 /\ list[1].type = "PT_TERM"
  <2>1. 1 \in DOMAIN list /\ list # <<>>
    BY <1>1, <1>5, FirstElement
  <2>2. /\ objects[1].is.type = Code(I_PredicateType, "PT_TERM")
        /\ HoldsTerm(objects[1].is.predicate.is.term, list[1].term)
    BY <1>2, <1>5, <2>1 DEF HoldsPredicate, HoldsPredicateOf
  <2>3. Client!IsTerm(list[1].term)
    BY <1>1, <1>5, <2>1 DEF Client!IsPredicate, Client!IsPredicateOf
  <2>4. Server!NameOf(Server!I_PredicateType, objects[1].is.type) = "PT_TERM"
    BY <2>2, ServerNames
  <2>5. terms = <<objects[1]>>
    BY <1>3, <2>1, <2>4 DEF Server!TermsOf
  <2>6. said = <<list[1]>>
    BY <1>5, <2>1 DEF TermsSaid
  <2>7. list[1].term \in TermsInAny(list[1])
    BY <1>5 DEF TermsInAny, TermsInOne
  <2> QED BY <2>1, <2>2, <2>3, <2>5, <2>6, <2>7
<1>6. CASE /\ Len(list) = 1 /\ list[1].type = "PT_AND"
           /\ \A i \in DOMAIN list[1].and : list[1].and[i].type = "PT_TERM"
  <2>1. 1 \in DOMAIN list /\ list # <<>>
    BY <1>1, <1>6, FirstElement
  <2>2. /\ objects[1].is.type = Code(I_PredicateType, "PT_AND")
        /\ HoldsList(HoldsInnerPredicate, objects[1].is.predicate.is.and_, list[1].and)
    BY <1>2, <1>6, <2>1 DEF HoldsPredicate, HoldsPredicateOf
  <2>3. \A i \in DOMAIN list[1].and : Client!IsInnerPredicate(list[1].and[i])
    BY <1>1, <1>6, <2>1 DEF Client!IsPredicate, Client!IsPredicateOf, Client!IsListOf
  <2>4. Server!NameOf(Server!I_PredicateType, objects[1].is.type) = "PT_AND"
    BY <2>2, ServerNames
  <2>5. terms = objects[1].is.predicate.is.and_
    BY <1>3, <2>1, <2>4 DEF Server!TermsOf
  <2>6. said = list[1].and
    BY <1>6, <2>1 DEF TermsSaid
  <2>7. DOMAIN terms = DOMAIN said /\ \A i \in DOMAIN said : HoldsInnerPredicate(terms[i], said[i])
    BY <2>2, <2>5, <2>6 DEF HoldsList
  <2>8. ASSUME NEW i \in DOMAIN said
        PROVE  /\ Client!IsTerm(said[i].term) /\ HoldsTerm(terms[i].is.predicate.is.term, said[i].term)
               /\ said[i].term \in TermsInAny(list[1])
    <3>1. said[i].type = "PT_TERM"
      BY <1>6, <2>6
    <3>2. HoldsTerm(terms[i].is.predicate.is.term, said[i].term)
      BY <2>7, <3>1 DEF HoldsInnerPredicate, HoldsPredicateOf
    <3>3. Client!IsTerm(said[i].term)
      BY <2>3, <2>6, <3>1 DEF Client!IsInnerPredicate, Client!IsPredicateOf
    <3>4. said[i].term \in InnerTerms(said[i])
      BY <3>1 DEF InnerTerms, TermsInOne
    <3>5. TermsInAny(list[1]) = UNION {InnerTerms(list[1].and[k]) : k \in DOMAIN list[1].and}
      BY <1>6 DEF TermsInAny, TermsInOne
    <3>6. said[i].term \in TermsInAny(list[1])
      BY <2>6, <3>4, <3>5
    <3> QED BY <3>2, <3>3, <3>6
  <2> QED BY <2>1, <2>7, <2>8
<1> QED BY <1>4, <1>5, <1>6

\* A simple condition whose texts have letters is the one that was typed.
LEMMA ServerSimple ==
  ASSUME NEW obj, NEW c, Client!IsCondition(c), HoldsCondition(obj, c), Simple(c),
         c # Null => c.schema # "",
         \A t \in TermsIn(c) : t.left.field_name # "",
         NEW x \in Server!convert_node_condition(obj)
  PROVE  x = SaysCondition(c)
<1>1. PICK terms : terms = Server!TermsOf(obj.is.predicates)
  OBVIOUS
<1>2. PICK cs \in Server!AllOf(Server!convert_predicate, terms) :
        x = [is_null |-> obj.is.is_null, schema_name |-> obj.is.schema, compare_conditions |-> cs]
  BY <1>1 DEF Server!convert_node_condition
<1>3. /\ cs = [i \in DOMAIN terms |-> cs[i]]
      /\ \A i \in DOMAIN terms : cs[i] \in Server!convert_predicate(terms[i])
  BY AllPredicates
<1>4. CASE c = Null
  <2>1. obj.is.is_null = TRUE /\ obj.is.schema = Null /\ obj.is.predicates = <<>>
    BY <1>4 DEF HoldsCondition
  <2>2. terms = <<>>
    BY <1>1, <2>1 DEF Server!TermsOf
  <2>3. cs = [i \in 1 .. 0 |-> cs[i]]
    BY <1>3, <2>2, NoElement
  <2>4. cs = <<>>
    BY <2>3, EmptyList
  <2> QED BY <1>2, <1>4, <2>1, <2>4 DEF SaysCondition
<1>5. CASE c # Null
  <2>1. /\ obj.is.is_null = c.is_null /\ obj.is.schema = ReadText(c.schema)
        /\ HoldsList(HoldsPredicate, obj.is.predicates, c.predicates)
    BY <1>5 DEF HoldsCondition
  <2>2. ReadText(c.schema) = c.schema
    BY <1>5 DEF ReadText
  <2>3. PICK said : said = TermsSaid(c.predicates)
    OBVIOUS
  <2>4. Client!IsListOf(Client!IsPredicate, c.predicates)
    BY <1>5 DEF Client!IsCondition
  <2>5. /\ DOMAIN terms = DOMAIN said
        /\ \A i \in DOMAIN said :
              /\ Client!IsTerm(said[i].term) /\ HoldsTerm(terms[i].is.predicate.is.term, said[i].term)
              /\ \E j \in DOMAIN c.predicates : said[i].term \in TermsInAny(c.predicates[j])
    <3>1. PICK list : list = c.predicates
      OBVIOUS
    <3>2. \/ list = <<>>
          \/ /\ Len(list) = 1
             /\ \/ list[1].type = "PT_TERM"
                \/ /\ list[1].type = "PT_AND"
                   /\ \A i \in DOMAIN list[1].and : list[1].and[i].type = "PT_TERM"
      BY <1>5, <3>1 DEF Simple
    <3>3. HoldsList(HoldsPredicate, obj.is.predicates, list)
      BY <2>1, <3>1
    <3>4. Client!IsListOf(Client!IsPredicate, list)
      BY <2>4, <3>1
    <3>5. said = TermsSaid(list)
      BY <2>3, <3>1
    <3>6. /\ DOMAIN terms = DOMAIN said
          /\ \A i \in DOMAIN said :
                /\ Client!IsTerm(said[i].term) /\ HoldsTerm(terms[i].is.predicate.is.term, said[i].term)
                /\ \E j \in DOMAIN list : said[i].term \in TermsInAny(list[j])
      BY ONLY <1>1, <3>2, <3>3, <3>4, <3>5, SimpleTerms
    <3> QED BY ONLY <3>1, <3>6
  <2>6. \A i \in DOMAIN said : said[i].term \in TermsIn(c)
    BY <1>5, <2>5 DEF TermsIn
  <2>7. \A i \in DOMAIN said : cs[i] = SaysTerm(said[i])
    BY <1>3, <2>5, <2>6, ServerTerm
  <2>8. cs = Map(SaysTerm, said)
    BY <1>3, <2>5, <2>7 DEF Map
  <2> QED BY <1>2, <1>5, <2>1, <2>2, <2>3, <2>8 DEF SaysCondition
<1> QED BY <1>4, <1>5

\* A condition whose values have letters does not end the server.
LEMMA ServerCondition ==
  ASSUME NEW obj, NEW c, Client!IsCondition(c), HoldsCondition(obj, c),
         \A t \in TermsIn(c) : "" \notin ValueTexts(t.compare.with.value)
  PROVE  Server!convert_node_condition(obj) # {}
<1>1. PICK terms : terms = Server!TermsOf(obj.is.predicates)
  OBVIOUS
<1>2. (\A i \in DOMAIN terms : Server!convert_predicate(terms[i]) # {})
        => Server!convert_node_condition(obj) # {}
  <2>1. PICK all : all = Server!AllOf(Server!convert_predicate, terms)
    OBVIOUS
  <2>2. SUFFICES ASSUME \A i \in DOMAIN terms : Server!convert_predicate(terms[i]) # {}
                 PROVE  Server!convert_node_condition(obj) # {}
    OBVIOUS
  <2>3. PICK cs : cs \in all
    BY <2>1, <2>2, AllPredicates
  <2>4. [is_null |-> obj.is.is_null, schema_name |-> obj.is.schema, compare_conditions |-> cs]
          \in Server!convert_node_condition(obj)
    BY <1>1, <2>1, <2>3 DEF Server!convert_node_condition
  <2> QED BY <2>4
<1> SUFFICES \A i \in DOMAIN terms : Server!convert_predicate(terms[i]) # {}
  BY <1>2
<1>3. CASE c = Null
  <2>1. obj.is.predicates = <<>>
    BY <1>3 DEF HoldsCondition
  <2>2. terms = <<>>
    BY <1>1, <2>1 DEF Server!TermsOf
  <2> QED BY <2>2, NoElement
<1>4. CASE c # Null
  <2>1. PICK objects, list : objects = obj.is.predicates /\ list = c.predicates
    OBVIOUS
  <2>2. list \in Seq(ToSet(list)) /\ \A i \in DOMAIN list : Client!IsPredicate(list[i])
    BY <1>4, <2>1 DEF Client!IsCondition, Client!IsListOf, Client!ToSet, ToSet
  <2>3. DOMAIN objects = DOMAIN list /\ \A i \in DOMAIN list : HoldsPredicate(objects[i], list[i])
    BY <1>4, <2>1 DEF HoldsCondition, HoldsList
  <2>4. Len(objects) = 0 <=> list = <<>>
    BY <2>2, <2>3, AsLong
  <2>5. CASE list = <<>>
    <3>1. terms = <<>>
      BY <1>1, <2>1, <2>4, <2>5 DEF Server!TermsOf
    <3> QED BY <3>1, NoElement
  <2>6. CASE list # <<>>
    <3>1. 1 \in DOMAIN list
      BY <2>2, <2>6, FirstElement
    <3>2. PICK p, o : p = list[1] /\ o = objects[1]
      OBVIOUS
    <3>3. Client!IsPredicate(p) /\ HoldsPredicate(o, p)
      BY <2>2, <2>3, <3>1, <3>2
    <3>4. \A t \in TermsInAny(p) : "" \notin ValueTexts(t.compare.with.value)
      BY <1>4, <2>1, <3>1, <3>2 DEF TermsIn
    <3>5. p.type \in {"PT_TERM", "PT_AND", "PT_OR"} /\ o.is.type = Code(I_PredicateType, p.type)
      BY <3>3 DEF Client!IsPredicate, Client!IsPredicateOf, HoldsPredicate, HoldsPredicateOf
    <3>6. Server!NameOf(Server!I_PredicateType, o.is.type) = p.type
      BY <3>5, ServerNames
    <3>7. CASE p.type = "PT_TERM"
      <4>1. terms = <<o>>
        BY <1>1, <2>1, <2>4, <2>6, <3>2, <3>6, <3>7 DEF Server!TermsOf
      <4>2. Client!IsTerm(p.term) /\ HoldsTerm(o.is.predicate.is.term, p.term)
        BY <3>3, <3>7 DEF Client!IsPredicate, Client!IsPredicateOf, HoldsPredicate, HoldsPredicateOf
      <4>3. p.term \in TermsInAny(p)
        BY <3>7 DEF TermsInAny, TermsInOne
      <4>4. Server!convert_predicate(o) # {}
        BY <3>4, <4>2, <4>3, ServerTerm
      <4> QED BY <4>1, <4>4, OneElement
    <3>8. CASE p.type = "PT_AND"
      <4>1. terms = o.is.predicate.is.and_
        BY <1>1, <2>1, <2>4, <2>6, <3>2, <3>6, <3>8 DEF Server!TermsOf
      <4>2. HoldsList(HoldsInnerPredicate, terms, p.and)
        BY <3>3, <3>8, <4>1 DEF HoldsPredicate, HoldsPredicateOf
      <4>3. \A i \in DOMAIN p.and : Client!IsInnerPredicate(p.and[i])
        BY <3>3, <3>8 DEF Client!IsPredicate, Client!IsPredicateOf, Client!IsListOf
      <4>4. DOMAIN terms = DOMAIN p.and /\ \A i \in DOMAIN p.and : HoldsInnerPredicate(terms[i], p.and[i])
        BY <4>2 DEF HoldsList
      <4>5. TermsInAny(p) = UNION {InnerTerms(p.and[i]) : i \in DOMAIN p.and}
        BY <3>8 DEF TermsInAny, TermsInOne
      <4>6. ASSUME NEW i \in DOMAIN p.and
            PROVE  Server!convert_predicate(terms[i]) # {}
        <5>1. CASE p.and[i].type = "PT_TERM"
          <6>1. Client!IsTerm(p.and[i].term) /\ HoldsTerm(terms[i].is.predicate.is.term, p.and[i].term)
            BY <4>3, <4>4, <5>1 DEF Client!IsInnerPredicate, Client!IsPredicateOf, HoldsInnerPredicate,
               HoldsPredicateOf
          <6>2. p.and[i].term \in InnerTerms(p.and[i])
            BY <5>1 DEF InnerTerms, TermsInOne
          <6>3. p.and[i].term \in TermsInAny(p)
            BY <4>5, <6>2
          <6> QED BY <3>4, <6>1, <6>3, ServerTerm
        <5>2. CASE p.and[i].type # "PT_TERM"
          <6>1. terms[i].is.predicate.is.term = New(I_ConditionCompare)
            BY <4>4, <5>2 DEF HoldsInnerPredicate, HoldsPredicateOf
          <6> QED BY <6>1, ServerNoTerm
        <5> QED BY <5>1, <5>2
      <4> QED BY <4>4, <4>6
    <3>9. CASE p.type = "PT_OR"
      <4>1. terms = <<>>
        BY <1>1, <2>1, <2>4, <2>6, <3>2, <3>6, <3>9 DEF Server!TermsOf
      <4> QED BY <4>1, NoElement
    <3> QED BY <3>5, <3>7, <3>8, <3>9
  <2> QED BY <2>5, <2>6
<1> QED BY <1>3, <1>4

-----------------------------------------------------------------------------
(* Links, schemas, nodes *)

\* A text that is not null is converted to itself, and not at all without
\* letters.
LEMMA ServerText ==
  ASSUME NEW text, text # Null
  PROVE  /\ \A x \in Server!convert_string(ReadText(text)) : x = text
         /\ text # "" => text \in Server!convert_string(ReadText(text))
BY DEF ReadText, Server!convert_string

\* A condition of a link is the one that was typed.
LEMMA ServerLink ==
  ASSUME NEW obj, NEW c, HoldsLink(obj, c), c.link_type \in {"LT_TO", "LT_FROM", "LT_BOTH"},
         c.link_name # Null
  PROVE  /\ \A x \in Server!convert_link_condition(obj) : x = SaysLink(c)
         /\ c.link_name # "" => Server!convert_link_condition(obj) # {}
<1>1. Server!NameOf(Server!LinkType, obj.is.link_type) = LinkTypeOf[c.link_type]
  BY ServerNames DEF HoldsLink, LinkTypeOf
<1>2. \A x : x \in Server!convert_link_condition(obj)
              <=> \E n \in Server!convert_string(ReadText(c.link_name)) :
                     x = [is_null |-> c.is_null, link_name |-> n, link_type |-> LinkTypeOf[c.link_type]]
  BY <1>1 DEF Server!convert_link_condition, HoldsLink
<1> QED BY <1>2, ServerText DEF SaysLink

\* A condition is simple, and its names have letters.
Plain(c) == /\ Simple(c) /\ (c # Null => c.schema # "")
            /\ \A t \in TermsIn(c) : t.left.field_name # ""
\* The values of a condition have letters.
Readable(c) == \A t \in TermsIn(c) : "" \notin ValueTexts(t.compare.with.value)

\* What a plain condition becomes, and that a readable one becomes something.
LEMMA ServerNode ==
  ASSUME NEW obj, NEW c, Client!IsCondition(c), HoldsCondition(obj, c)
  PROVE  /\ Plain(c) => \A x \in Server!convert_node_condition(obj) : x = SaysCondition(c)
         /\ Readable(c) => Server!convert_node_condition(obj) # {}
BY ServerSimple, ServerCondition DEF Plain, Readable

\* The conditions of a match are those that were typed, each in its place.
LEMMA ServerMatchCondition ==
  ASSUME NEW obj, NEW c, Client!IsMatchCondition(c), HoldsMatch(obj, c)
  PROVE  /\ /\ Plain(c.node_first_condition) /\ Plain(c.node_second_condition)
            /\ Plain(c.node_cross_condition)
            => \A x \in Server!convert_match_condition(obj) : x = SaysMatch(c)
         /\ /\ Readable(c.node_first_condition) /\ Readable(c.node_second_condition)
            /\ Readable(c.node_cross_condition) /\ c.link_condition.link_name # ""
            => Server!convert_match_condition(obj) # {}
<1>1. PICK ls, ones, twos, crosses :
        /\ ls = Server!convert_link_condition(obj.is.link_condition)
        /\ ones = Server!convert_node_condition(obj.is.node_first_condition)
        /\ twos = Server!convert_node_condition(obj.is.node_second_condition)
        /\ crosses = Server!convert_node_condition(obj.is.node_cross_condition)
  OBVIOUS
<1>2. \A x : x \in Server!convert_match_condition(obj)
              <=> \E l \in ls, one \in ones, two \in twos, cross \in crosses :
                     x = [is_null |-> obj.is.is_null, link_condition |-> l, node_first_condition |-> one,
                          node_second_condition |-> two, node_cross_condition |-> cross]
  BY <1>1 DEF Server!convert_match_condition
<1>3. /\ \A x \in ls : x = SaysLink(c.link_condition)
      /\ c.link_condition.link_name # "" => ls # {}
  BY <1>1, ServerLink DEF HoldsMatch, Client!IsMatchCondition
<1>4. /\ Plain(c.node_first_condition) => \A x \in ones : x = SaysCondition(c.node_first_condition)
      /\ Readable(c.node_first_condition) => ones # {}
  BY <1>1, ServerNode DEF HoldsMatch, Client!IsMatchCondition
<1>5. /\ Plain(c.node_second_condition) => \A x \in twos : x = SaysCondition(c.node_second_condition)
      /\ Readable(c.node_second_condition) => twos # {}
  BY <1>1, ServerNode DEF HoldsMatch, Client!IsMatchCondition
<1>6. /\ Plain(c.node_cross_condition) => \A x \in crosses : x = SaysCondition(c.node_cross_condition)
      /\ Readable(c.node_cross_condition) => crosses # {}
  BY <1>1, ServerNode DEF HoldsMatch, Client!IsMatchCondition
<1>7. ASSUME Plain(c.node_first_condition), Plain(c.node_second_condition), Plain(c.node_cross_condition),
             NEW x \in Server!convert_match_condition(obj)
      PROVE  x = SaysMatch(c)
  <2>1. PICK l \in ls, one \in ones, two \in twos, cross \in crosses :
          x = [is_null |-> obj.is.is_null, link_condition |-> l, node_first_condition |-> one,
               node_second_condition |-> two, node_cross_condition |-> cross]
    BY <1>2, <1>7
  <2>2. /\ l = SaysLink(c.link_condition) /\ one = SaysCondition(c.node_first_condition)
        /\ two = SaysCondition(c.node_second_condition) /\ cross = SaysCondition(c.node_cross_condition)
        /\ obj.is.is_null = c.is_null
    BY <1>3, <1>4, <1>5, <1>6, <1>7 DEF HoldsMatch
  <2> QED BY <2>1, <2>2 DEF SaysMatch
<1>8. ASSUME Readable(c.node_first_condition), Readable(c.node_second_condition),
             Readable(c.node_cross_condition), c.link_condition.link_name # ""
      PROVE  Server!convert_match_condition(obj) # {}
  <2>1. ls # {} /\ ones # {} /\ twos # {} /\ crosses # {}
    BY <1>3, <1>4, <1>5, <1>6, <1>8
  <2>2. PICK l \in ls, one \in ones, two \in twos, cross \in crosses : TRUE
    BY <2>1
  <2> QED BY <1>2, <2>2
<1> QED BY <1>7, <1>8

\* A schema is the one that was typed, with its attributes in their order.
LEMMA ServerSchema ==
  ASSUME NEW obj, NEW s, s.name # Null, Client!IsListOf(Client!IsAttribute, s.attributes),
         HoldsSchema(obj, s)
  PROVE  /\ \A x \in Server!convert_schema(obj) :
               x = [name |-> s.name, attributes |-> Map(SaysAttribute, s.attributes)]
         /\ s.name # "" /\ (\A i \in DOMAIN s.attributes : s.attributes[i].name # "")
               => Server!convert_schema(obj) # {}
<1>1. PICK objects, list : objects = obj.is.attributes /\ list = s.attributes
  OBVIOUS
<1>2. PICK all : all = Server!AllOf(Server!convert_attribute, objects)
  OBVIOUS
<1>3. \A x : x \in Server!convert_schema(obj)
              <=> \E n \in Server!convert_string(ReadText(s.name)), as \in all :
                     x = [name |-> n, attributes |-> as]
  BY <1>1, <1>2 DEF Server!convert_schema, HoldsSchema
<1>4. DOMAIN objects = DOMAIN list
  BY <1>1 DEF HoldsSchema, HoldsList
<1>5. ASSUME NEW i \in DOMAIN list
      PROVE  /\ \A x \in Server!convert_attribute(objects[i]) : x = SaysAttribute(list[i])
             /\ list[i].name # "" => Server!convert_attribute(objects[i]) # {}
  <2>1. Client!IsAttribute(list[i]) /\ HoldsAttribute(objects[i], list[i])
    BY <1>1, <1>5 DEF HoldsSchema, HoldsList, Client!IsListOf
  <2>2. Server!NameOf(Server!DataType, objects[i].is.vt) = DataTypeOf[list[i].vt]
    <3>1. list[i].vt \in DOMAIN DataTypeOf
      BY <2>1 DEF Client!IsAttribute, Client!ToSet, Client!ValueType, DataTypeOf
    <3> QED BY <2>1, <3>1, ServerNames DEF HoldsAttribute
  <2>3. \A x : x \in Server!convert_attribute(objects[i])
                <=> \E n \in Server!convert_string(ReadText(list[i].name)) :
                       x = [name |-> n, data_type |-> DataTypeOf[list[i].vt]]
    BY <2>1, <2>2 DEF Server!convert_attribute, HoldsAttribute
  <2>4. list[i].name # Null
    BY <2>1 DEF Client!IsAttribute
  <2> QED BY <2>3, <2>4, ServerText DEF SaysAttribute
<1>6. ASSUME NEW as \in all
      PROVE  as = Map(SaysAttribute, list)
  <2>1. /\ as = [i \in DOMAIN objects |-> as[i]]
        /\ \A i \in DOMAIN objects : as[i] \in Server!convert_attribute(objects[i])
    BY <1>2, <1>6, AllAttributes
  <2>2. \A i \in DOMAIN list : as[i] = SaysAttribute(list[i])
    BY <1>4, <1>5, <2>1
  <2> QED BY <1>4, <2>1, <2>2 DEF Map
<1>7. (\A i \in DOMAIN list : list[i].name # "") => all # {}
  BY <1>2, <1>4, <1>5, AllAttributes
<1>8. ASSUME NEW x \in Server!convert_schema(obj)
      PROVE  x = [name |-> s.name, attributes |-> Map(SaysAttribute, list)]
  <2>1. PICK n \in Server!convert_string(ReadText(s.name)), as \in all : x = [name |-> n, attributes |-> as]
    BY <1>3, <1>8
  <2> QED BY <1>6, <2>1, ServerText
<1>9. ASSUME s.name # "", \A i \in DOMAIN list : list[i].name # ""
      PROVE  Server!convert_schema(obj) # {}
  <2>1. PICK as : as \in all
    BY <1>7, <1>9
  <2>2. s.name \in Server!convert_string(ReadText(s.name))
    BY <1>9, ServerText
  <2> QED BY <1>3, <2>1, <2>2
<1> QED BY <1>1, <1>8, <1>9

\* The elements of a list of properties, also in the reverse order
LEMMA ReverseOf ==
  ASSUME NEW list, Client!IsListOf(Client!IsProperty, list)
  PROVE  \A i \in DOMAIN Reverse(list) : Reverse(list)[i] \in ToSet(list) /\ Client!IsProperty(Reverse(list)[i])
<1>1. PICK n \in Nat : Len(list) = n /\ DOMAIN list = 1 .. n
  BY DEF Client!IsListOf, Client!ToSet
<1>2. DOMAIN Reverse(list) = 1 .. n /\ \A i \in 1 .. n : Reverse(list)[i] = list[n - i + 1]
  BY <1>1 DEF Reverse
<1>3. \A i \in 1 .. n : n - i + 1 \in DOMAIN list
  BY <1>1
<1> QED BY <1>2, <1>3 DEF Client!IsListOf, ToSet

\* The values of a node are those that were typed, without their names.
LEMMA ServerProperties ==
  ASSUME NEW objects, NEW list, HoldsList(HoldsProperty, objects, list),
         \A i \in DOMAIN list : Client!IsProperty(list[i])
  PROVE  /\ \A s \in Server!AllOf(Server!convert_property, objects) : s = Map(SaysWithoutName, list)
         /\ (\A i \in DOMAIN list : "" \notin ValueTexts(list[i].value))
               => Server!AllOf(Server!convert_property, objects) # {}
<1>1. PICK all : all = Server!AllOf(Server!convert_property, objects)
  OBVIOUS
<1>2. DOMAIN objects = DOMAIN list /\ \A i \in DOMAIN list : HoldsProperty(objects[i], list[i])
  BY DEF HoldsList
<1>3. ASSUME NEW i \in DOMAIN list
      PROVE  /\ \A x \in Server!convert_property(objects[i]) : x = SaysWithoutName(list[i])
             /\ "" \notin ValueTexts(list[i].value) => Server!convert_property(objects[i]) # {}
  BY <1>2, <1>3, ServerValue DEF HoldsProperty, Client!IsProperty, SaysWithoutName, Server!convert_property
<1>4. ASSUME NEW s \in all
      PROVE  s = Map(SaysWithoutName, list)
  <2>1. /\ s = [i \in DOMAIN objects |-> s[i]]
        /\ \A i \in DOMAIN objects : s[i] \in Server!convert_property(objects[i])
    BY <1>1, <1>4, AllProperties
  <2>2. \A i \in DOMAIN list : s[i] = SaysWithoutName(list[i])
    BY <1>2, <1>3, <2>1
  <2> QED BY <1>2, <2>1, <2>2 DEF Map
<1>5. (\A i \in DOMAIN list : "" \notin ValueTexts(list[i].value)) => all # {}
  BY <1>1, <1>2, <1>3, AllProperties
<1> QED BY <1>1, <1>4, <1>5

\* The properties of an update are those that were typed, with their names.
LEMMA ServerUpdates ==
  ASSUME NEW objects, NEW list, HoldsList(HoldsProperty, objects, list),
         \A i \in DOMAIN list : Client!IsProperty(list[i])
  PROVE  /\ (\A i \in DOMAIN list : list[i].field # "")
               => \A s \in Server!AllOf(Server!convert_update, objects) : s = Map(SaysProperty, list)
         /\ (\A i \in DOMAIN list : "" \notin ValueTexts(list[i].value))
               => Server!AllOf(Server!convert_update, objects) # {}
<1>1. PICK all : all = Server!AllOf(Server!convert_update, objects)
  OBVIOUS
<1>2. DOMAIN objects = DOMAIN list /\ \A i \in DOMAIN list : HoldsProperty(objects[i], list[i])
  BY DEF HoldsList
<1>3. ASSUME NEW i \in DOMAIN list
      PROVE  /\ list[i].field # "" => \A x \in Server!convert_update(objects[i]) : x = SaysProperty(list[i])
             /\ "" \notin ValueTexts(list[i].value) => Server!convert_update(objects[i]) # {}
  <2>1. /\ \A v \in Server!convert_property(objects[i]) : v = SaysValue(list[i].value)
        /\ "" \notin ValueTexts(list[i].value) => Server!convert_property(objects[i]) # {}
    BY <1>2, <1>3, ServerValue DEF HoldsProperty, Client!IsProperty, Server!convert_property
  <2>2. list[i].field # "" => objects[i].is.field = list[i].field
    BY <1>2, <1>3 DEF HoldsProperty, ReadText
  <2>3. \A x : x \in Server!convert_update(objects[i])
                <=> \E v \in Server!convert_property(objects[i]) :
                       x = [attribute |-> objects[i].is.field, value |-> v]
    BY DEF Server!convert_update
  <2> QED BY <2>1, <2>2, <2>3 DEF SaysProperty
<1>4. ASSUME \A i \in DOMAIN list : list[i].field # "", NEW s \in all
      PROVE  s = Map(SaysProperty, list)
  <2>1. /\ s = [i \in DOMAIN objects |-> s[i]]
        /\ \A i \in DOMAIN objects : s[i] \in Server!convert_update(objects[i])
    BY <1>1, <1>4, AllUpdates
  <2>2. \A i \in DOMAIN list : s[i] = SaysProperty(list[i])
    BY <1>2, <1>3, <1>4, <2>1
  <2> QED BY <1>2, <2>1, <2>2 DEF Map
<1>5. (\A i \in DOMAIN list : "" \notin ValueTexts(list[i].value)) => all # {}
  BY <1>1, <1>2, <1>3, AllUpdates
<1> QED BY <1>1, <1>4, <1>5

-----------------------------------------------------------------------------
(* Queries *)

\* The server makes a query of the type of the object, of the member that this
\* type has.
LEMMA ServerType ==
  ASSUME NEW obj, NEW type, Server!NameOf(Server!QueryType, obj.is.type) = type,
         NEW u, u = obj.is.query.is
  PROVE
         /\ type = "SCHEMA_CREATE" =>
               \A x : x \in Server!convert_query(obj)
                         <=> \E m \in Server!convert_schema_create_query(u.schema_create_query) :
                                x = [type |-> type, query |-> m]
         /\ type = "SCHEMA_GET" =>
               \A x : x \in Server!convert_query(obj)
                         <=> \E m \in Server!convert_schema_get_query(u.schema_get_query) :
                                x = [type |-> type, query |-> m]
         /\ type = "SCHEMA_DELETE" =>
               \A x : x \in Server!convert_query(obj)
                         <=> \E m \in Server!convert_schema_delete_query(u.schema_delete_query) :
                                x = [type |-> type, query |-> m]
         /\ type = "NODE_CREATE" =>
               \A x : x \in Server!convert_query(obj)
                         <=> \E m \in Server!convert_node_create_query(u.node_create_query) :
                                x = [type |-> type, query |-> m]
         /\ type = "NODE_UPDATE" =>
               \A x : x \in Server!convert_query(obj)
                         <=> \E m \in Server!convert_node_update_query(u.node_update_query) :
                                x = [type |-> type, query |-> m]
         /\ type = "NODE_DELETE" =>
               \A x : x \in Server!convert_query(obj)
                         <=> \E m \in Server!convert_node_delete_query(u.node_delete_query) :
                                x = [type |-> type, query |-> m]
         /\ type = "NODE_MATCH" =>
               \A x : x \in Server!convert_query(obj)
                         <=> \E m \in Server!convert_node_match_query(u.node_match_query) :
                                x = [type |-> type, query |-> m]
         /\ type = "LINK_CREATE" =>
               \A x : x \in Server!convert_query(obj)
                         <=> \E m \in Server!convert_link_create_query(u.link_create_query) :
                                x = [type |-> type, query |-> m]
         /\ type = "LINK_DELETE" =>
               \A x : x \in Server!convert_query(obj)
                         <=> \E m \in Server!convert_link_delete_query(u.link_delete_query) :
                                x = [type |-> type, query |-> m]
         /\ type = "MATCH" =>
               \A x : x \in Server!convert_query(obj)
                         <=> \E m \in Server!convert_match_query(u.match_query) :
                                x = [type |-> type, query |-> m]
         /\ type = "SCHEMA_GET_ALL" =>
               Server!convert_query(obj) = {[type |-> type, query |-> <<>>]}
<1>1. ASSUME type = "SCHEMA_CREATE"
      PROVE  \A x : x \in Server!convert_query(obj)
                       <=> \E m \in Server!convert_schema_create_query(u.schema_create_query) :
                              x = [type |-> type, query |-> m]
  BY <1>1 DEF Server!convert_query
<1>2. ASSUME type = "SCHEMA_GET"
      PROVE  \A x : x \in Server!convert_query(obj)
                       <=> \E m \in Server!convert_schema_get_query(u.schema_get_query) :
                              x = [type |-> type, query |-> m]
  BY <1>2 DEF Server!convert_query
<1>3. ASSUME type = "SCHEMA_DELETE"
      PROVE  \A x : x \in Server!convert_query(obj)
                       <=> \E m \in Server!convert_schema_delete_query(u.schema_delete_query) :
                              x = [type |-> type, query |-> m]
  BY <1>3 DEF Server!convert_query
<1>4. ASSUME type = "NODE_CREATE"
      PROVE  \A x : x \in Server!convert_query(obj)
                       <=> \E m \in Server!convert_node_create_query(u.node_create_query) :
                              x = [type |-> type, query |-> m]
  BY <1>4 DEF Server!convert_query
<1>5. ASSUME type = "NODE_UPDATE"
      PROVE  \A x : x \in Server!convert_query(obj)
                       <=> \E m \in Server!convert_node_update_query(u.node_update_query) :
                              x = [type |-> type, query |-> m]
  BY <1>5 DEF Server!convert_query
<1>6. ASSUME type = "NODE_DELETE"
      PROVE  \A x : x \in Server!convert_query(obj)
                       <=> \E m \in Server!convert_node_delete_query(u.node_delete_query) :
                              x = [type |-> type, query |-> m]
  BY <1>6 DEF Server!convert_query
<1>7. ASSUME type = "NODE_MATCH"
      PROVE  \A x : x \in Server!convert_query(obj)
                       <=> \E m \in Server!convert_node_match_query(u.node_match_query) :
                              x = [type |-> type, query |-> m]
  BY <1>7 DEF Server!convert_query
<1>8. ASSUME type = "LINK_CREATE"
      PROVE  \A x : x \in Server!convert_query(obj)
                       <=> \E m \in Server!convert_link_create_query(u.link_create_query) :
                              x = [type |-> type, query |-> m]
  BY <1>8 DEF Server!convert_query
<1>9. ASSUME type = "LINK_DELETE"
      PROVE  \A x : x \in Server!convert_query(obj)
                       <=> \E m \in Server!convert_link_delete_query(u.link_delete_query) :
                              x = [type |-> type, query |-> m]
  BY <1>9 DEF Server!convert_query
<1>10. ASSUME type = "MATCH"
      PROVE  \A x : x \in Server!convert_query(obj)
                       <=> \E m \in Server!convert_match_query(u.match_query) :
                              x = [type |-> type, query |-> m]
  BY <1>10 DEF Server!convert_query
<1>11. type = "SCHEMA_GET_ALL" => Server!convert_query(obj) = {[type |-> type, query |-> <<>>]}
  BY DEF Server!convert_query
<1> QED BY <1>1, <1>2, <1>3, <1>4, <1>5, <1>6, <1>7, <1>8, <1>9, <1>10, <1>11

\* The texts of a query, one by one
LEMMA LookedAt ==
  ASSUME NEW q, NEW x
  PROVE  x \in Looked(q) <=>
            \/ \E c \in ConditionsOf(q) : x \in FieldNames(c)
            \/ \E c \in ConditionsOf(q) : c # Null /\ x = c.schema
            \/ \E p \in PropertiesOf(q) : x = p.field
            \/ q.type \in {"SCHEMA_GET", "SCHEMA_DELETE", "NODE_CREATE"} /\ x = q.schema_name
BY DEF Looked

\* The texts that a condition or a property gives are given by the query.
LEMMA GivenAt ==
  ASSUME NEW q, NEW x
  PROVE  /\ \A c \in ConditionsOf(q) : x \in GivenIn(c) => x \in Given(q)
         /\ \A p \in PropertiesOf(q) : x \in ValueTexts(p.value) => x \in Given(q)
BY DEF Given

\* The conditions of a query that only names what has letters are plain if they
\* are simple.
LEMMA PlainConditions ==
  ASSUME NEW q, "" \notin Looked(q), \A c \in ConditionsOf(q) : Simple(c)
  PROVE  /\ \A c \in ConditionsOf(q) : Plain(c)
         /\ \A p \in PropertiesOf(q) : p.field # ""
         /\ q.type \in {"SCHEMA_GET", "SCHEMA_DELETE", "NODE_CREATE"} => q.schema_name # ""
<1>1. ASSUME NEW c \in ConditionsOf(q)
      PROVE  Plain(c)
  <2>1. "" \notin FieldNames(c)
    BY <1>1, LookedAt
  <2>2. \A t \in TermsIn(c) : t.left.field_name # ""
    BY <2>1 DEF FieldNames
  <2>3. c # Null => c.schema # ""
    BY <1>1, LookedAt
  <2> QED BY <1>1, <2>2, <2>3 DEF Plain
<1>2. \A p \in PropertiesOf(q) : p.field # ""
  BY LookedAt
<1>3. q.type \in {"SCHEMA_GET", "SCHEMA_DELETE", "NODE_CREATE"} => q.schema_name # ""
  BY LookedAt
<1> QED BY <1>1, <1>2, <1>3

\* The conditions and properties of a query that only gives what has letters
\* are readable.
LEMMA ReadableConditions ==
  ASSUME NEW q, "" \notin Given(q)
  PROVE  /\ \A c \in ConditionsOf(q) : Readable(c)
         /\ \A p \in PropertiesOf(q) : "" \notin ValueTexts(p.value)
<1>1. ASSUME NEW c \in ConditionsOf(q), NEW t \in TermsIn(c)
      PROVE  "" \notin ValueTexts(t.compare.with.value)
  <2>1. "" \notin GivenIn(c)
    BY <1>1, GivenAt
  <2> QED BY <1>1, <2>1 DEF GivenIn
<1>2. \A p \in PropertiesOf(q) : "" \notin ValueTexts(p.value)
  BY GivenAt
<1> QED BY <1>1, <1>2 DEF Readable

\* A query that creates a schema says which.
LEMMA ServerSchemaCreate ==
  ASSUME NEW q, Client!IsQuery(q), q.type = "SCHEMA_CREATE", NEW u, HoldsMember(u, q)
  PROVE  /\ "" \notin Looked(q) /\ (\A c \in ConditionsOf(q) : Simple(c))
               => \A m \in Server!convert_schema_create_query(u.schema_create_query) : m = SaysMember(q)
         /\ "" \notin Given(q) => Server!convert_schema_create_query(u.schema_create_query) # {}
<1>1. PICK obj : obj = u.schema_create_query.is.schema
  OBVIOUS
<1>2. HoldsSchema(obj, q.schema) /\ q.schema.name # Null
      /\ Client!IsListOf(Client!IsAttribute, q.schema.attributes)
  BY <1>1 DEF HoldsMember, Client!IsQuery
<1>3. \A m : m \in Server!convert_schema_create_query(u.schema_create_query)
              <=> \E s \in Server!convert_schema(obj) : m = [schema |-> s]
  BY <1>1 DEF Server!convert_schema_create_query
<1>4. \A s \in Server!convert_schema(obj) :
         s = [name |-> q.schema.name, attributes |-> Map(SaysAttribute, q.schema.attributes)]
  BY <1>2, ServerSchema
<1>5. SaysMember(q) =
        [schema |-> [name |-> q.schema.name, attributes |-> Map(SaysAttribute, q.schema.attributes)]]
  BY DEF SaysMember
<1>6. ASSUME "" \notin Given(q)
      PROVE  Server!convert_schema(obj) # {}
  <2>1. PICK names : names = {a.name : a \in ToSet(q.schema.attributes)}
    OBVIOUS
  <2>2. q.schema.name \in Given(q) /\ names \subseteq Given(q)
    BY <2>1 DEF Given
  <2>3. \A i \in DOMAIN q.schema.attributes : q.schema.attributes[i].name \in names
    BY <2>1 DEF ToSet
  <2>4. q.schema.name # "" /\ \A i \in DOMAIN q.schema.attributes : q.schema.attributes[i].name # ""
    BY <1>6, <2>2, <2>3
  <2> QED BY <1>2, <2>4, ServerSchema
<1> QED BY <1>3, <1>4, <1>5, <1>6

\* A query that gets a schema says which.
LEMMA ServerSchemaGet ==
  ASSUME NEW q, Client!IsQuery(q), q.type = "SCHEMA_GET", NEW u, HoldsMember(u, q)
  PROVE  /\ "" \notin Looked(q) /\ (\A c \in ConditionsOf(q) : Simple(c))
               => \A m \in Server!convert_schema_get_query(u.schema_get_query) : m = SaysMember(q)
         /\ "" \notin Given(q) => Server!convert_schema_get_query(u.schema_get_query) # {}
<1>1. u.schema_get_query.is.schema_name = ReadText(q.schema_name)
  BY DEF HoldsMember
<1>2. Server!convert_schema_get_query(u.schema_get_query) = {[schema_name |-> ReadText(q.schema_name)]}
  BY <1>1 DEF Server!convert_schema_get_query
<1>3. "" \notin Looked(q) => ReadText(q.schema_name) = q.schema_name
  BY LookedAt DEF ReadText
<1> QED BY <1>2, <1>3 DEF SaysMember

\* A query that deletes a schema says which.
LEMMA ServerSchemaDelete ==
  ASSUME NEW q, Client!IsQuery(q), q.type = "SCHEMA_DELETE", NEW u, HoldsMember(u, q)
  PROVE  /\ "" \notin Looked(q) /\ (\A c \in ConditionsOf(q) : Simple(c))
               => \A m \in Server!convert_schema_delete_query(u.schema_delete_query) : m = SaysMember(q)
         /\ "" \notin Given(q) => Server!convert_schema_delete_query(u.schema_delete_query) # {}
<1>1. u.schema_delete_query.is.schema_name = ReadText(q.schema_name)
  BY DEF HoldsMember
<1>2. Server!convert_schema_delete_query(u.schema_delete_query) = {[schema_name |-> ReadText(q.schema_name)]}
  BY <1>1 DEF Server!convert_schema_delete_query
<1>3. "" \notin Looked(q) => ReadText(q.schema_name) = q.schema_name
  BY LookedAt DEF ReadText
<1> QED BY <1>2, <1>3 DEF SaysMember

\* A query that creates a node says its schema and its values.
LEMMA ServerNodeCreate ==
  ASSUME NEW q, Client!IsQuery(q), q.type = "NODE_CREATE", NEW u, HoldsMember(u, q)
  PROVE  /\ "" \notin Looked(q) /\ (\A c \in ConditionsOf(q) : Simple(c))
               => \A m \in Server!convert_node_create_query(u.node_create_query) : m = SaysMember(q)
         /\ "" \notin Given(q) => Server!convert_node_create_query(u.node_create_query) # {}
<1>1. PICK obj : obj = u.node_create_query.is.node
  OBVIOUS
<1>2. PICK list, objects : list = Reverse(q.node.properties) /\ objects = obj.is.properties
  OBVIOUS
<1>3. /\ u.node_create_query.is.schema_name = ReadText(q.schema_name)
      /\ HoldsList(HoldsProperty, objects, list)
  BY <1>1, <1>2 DEF HoldsMember, HoldsNode
<1>4. \A i \in DOMAIN list : list[i] \in PropertiesOf(q) /\ Client!IsProperty(list[i])
  <2>1. Client!IsListOf(Client!IsProperty, q.node.properties) /\ PropertiesOf(q) = ToSet(q.node.properties)
    BY DEF Client!IsQuery, PropertiesOf
  <2> QED BY <1>2, <2>1, ReverseOf
<1>5. PICK all : all = Server!AllOf(Server!convert_property, objects)
  OBVIOUS
<1>6. /\ \A s \in all : s = Map(SaysWithoutName, list)
      /\ (\A i \in DOMAIN list : "" \notin ValueTexts(list[i].value)) => all # {}
  BY <1>3, <1>4, <1>5, ServerProperties
<1>7. \A n : n \in Server!convert_node(obj) <=> \E vs \in all : n = [values |-> vs]
  BY <1>2, <1>5 DEF Server!convert_node
<1>8. \A m : m \in Server!convert_node_create_query(u.node_create_query)
              <=> \E n \in Server!convert_node(obj) : m = [schema_name |-> ReadText(q.schema_name), node |-> n]
  BY <1>1, <1>3 DEF Server!convert_node_create_query
<1>9. SaysMember(q) = [schema_name |-> q.schema_name, node |-> [values |-> Map(SaysWithoutName, list)]]
  BY <1>2 DEF SaysMember
<1>10. "" \notin Looked(q) => ReadText(q.schema_name) = q.schema_name
  BY LookedAt DEF ReadText
<1>11. "" \notin Given(q) => all # {}
  BY <1>4, <1>6, ReadableConditions
<1>12. all # {} => Server!convert_node_create_query(u.node_create_query) # {}
  <2>1. all # {} => Server!convert_node(obj) # {}
    BY <1>7
  <2> QED BY <1>8, <2>1
<1>13. ASSUME "" \notin Looked(q), NEW m \in Server!convert_node_create_query(u.node_create_query)
       PROVE  m = SaysMember(q)
  <2>1. PICK n \in Server!convert_node(obj) : m = [schema_name |-> ReadText(q.schema_name), node |-> n]
    BY <1>8, <1>13
  <2>2. n = [values |-> Map(SaysWithoutName, list)]
    BY <1>6, <1>7
  <2> QED BY <1>9, <1>10, <1>13, <2>1, <2>2
<1> QED BY <1>11, <1>12, <1>13

\* A query that updates nodes says which, and their new properties.
LEMMA ServerNodeUpdate ==
  ASSUME NEW q, Client!IsQuery(q), q.type = "NODE_UPDATE", NEW u, HoldsMember(u, q)
  PROVE  /\ "" \notin Looked(q) /\ (\A c \in ConditionsOf(q) : Simple(c))
               => \A m \in Server!convert_node_update_query(u.node_update_query) : m = SaysMember(q)
         /\ "" \notin Given(q) => Server!convert_node_update_query(u.node_update_query) # {}
<1>1. PICK obj : obj = u.node_update_query.is.condition
  OBVIOUS
<1>2. PICK list, objects : list = Reverse(q.properties) /\ objects = u.node_update_query.is.properties
  OBVIOUS
<1>3. HoldsCondition(obj, q.condition) /\ HoldsList(HoldsProperty, objects, list)
  BY <1>1, <1>2 DEF HoldsMember
<1>4. \A i \in DOMAIN list : list[i] \in PropertiesOf(q) /\ Client!IsProperty(list[i])
  <2>1. Client!IsListOf(Client!IsProperty, q.properties) /\ PropertiesOf(q) = ToSet(q.properties)
    BY DEF Client!IsQuery, PropertiesOf
  <2> QED BY <1>2, <2>1, ReverseOf
<1>5. PICK all : all = Server!AllOf(Server!convert_update, objects)
  OBVIOUS
<1>6. /\ (\A i \in DOMAIN list : list[i].field # "") => \A s \in all : s = Map(SaysProperty, list)
      /\ (\A i \in DOMAIN list : "" \notin ValueTexts(list[i].value)) => all # {}
  BY <1>3, <1>4, <1>5, ServerUpdates
<1>7. Client!IsCondition(q.condition) /\ q.condition \in ConditionsOf(q)
  BY DEF Client!IsQuery, ConditionsOf
<1>8. \A m : m \in Server!convert_node_update_query(u.node_update_query)
              <=> \E c \in Server!convert_node_condition(obj), us \in all : m = [condition |-> c, updates |-> us]
  BY <1>1, <1>2, <1>5 DEF Server!convert_node_update_query
<1>9. SaysMember(q) = [condition |-> SaysCondition(q.condition), updates |-> Map(SaysProperty, list)]
  BY <1>2 DEF SaysMember
<1>10. ASSUME "" \notin Looked(q), \A c \in ConditionsOf(q) : Simple(c),
              NEW m \in Server!convert_node_update_query(u.node_update_query)
       PROVE  m = SaysMember(q)
  <2>1. PICK c \in Server!convert_node_condition(obj), us \in all : m = [condition |-> c, updates |-> us]
    BY <1>8, <1>10
  <2>2. c = SaysCondition(q.condition)
    BY <1>3, <1>7, <1>10, PlainConditions, ServerNode
  <2>3. us = Map(SaysProperty, list)
    BY <1>4, <1>6, <1>10, PlainConditions
  <2> QED BY <1>9, <2>1, <2>2, <2>3
<1>11. ASSUME "" \notin Given(q)
       PROVE  Server!convert_node_update_query(u.node_update_query) # {}
  <2>1. all # {}
    BY <1>4, <1>6, <1>11, ReadableConditions
  <2>2. Server!convert_node_condition(obj) # {}
    BY <1>3, <1>7, <1>11, ReadableConditions, ServerNode
  <2>3. PICK c \in Server!convert_node_condition(obj), us \in all : TRUE
    BY <2>1, <2>2
  <2> QED BY <1>8, <2>3
<1> QED BY <1>10, <1>11

\* A query that deletes nodes says which.
LEMMA ServerNodeDelete ==
  ASSUME NEW q, Client!IsQuery(q), q.type = "NODE_DELETE", NEW u, HoldsMember(u, q)
  PROVE  /\ "" \notin Looked(q) /\ (\A c \in ConditionsOf(q) : Simple(c))
               => \A m \in Server!convert_node_delete_query(u.node_delete_query) : m = SaysMember(q)
         /\ "" \notin Given(q) => Server!convert_node_delete_query(u.node_delete_query) # {}
<1>1. PICK obj : obj = u.node_delete_query.is.condition
  OBVIOUS
<1>2. HoldsCondition(obj, q.condition)
  BY <1>1 DEF HoldsMember
<1>3. Client!IsCondition(q.condition) /\ q.condition \in ConditionsOf(q)
  BY DEF Client!IsQuery, ConditionsOf
<1>4. \A m : m \in Server!convert_node_delete_query(u.node_delete_query)
              <=> \E c \in Server!convert_node_condition(obj) : m = [condition |-> c]
  BY <1>1 DEF Server!convert_node_delete_query
<1>5. SaysMember(q) = [condition |-> SaysCondition(q.condition)]
  BY DEF SaysMember
<1>6. "" \notin Looked(q) /\ (\A c \in ConditionsOf(q) : Simple(c)) => Plain(q.condition)
  BY <1>3, PlainConditions
<1>7. "" \notin Given(q) => Readable(q.condition)
  BY <1>3, ReadableConditions
<1> QED BY <1>2, <1>3, <1>4, <1>5, <1>6, <1>7, ServerNode

\* A query that matches nodes says which.
LEMMA ServerNodeMatch ==
  ASSUME NEW q, Client!IsQuery(q), q.type = "NODE_MATCH", NEW u, HoldsMember(u, q)
  PROVE  /\ "" \notin Looked(q) /\ (\A c \in ConditionsOf(q) : Simple(c))
               => \A m \in Server!convert_node_match_query(u.node_match_query) : m = SaysMember(q)
         /\ "" \notin Given(q) => Server!convert_node_match_query(u.node_match_query) # {}
<1>1. PICK obj : obj = u.node_match_query.is.condition
  OBVIOUS
<1>2. HoldsCondition(obj, q.condition)
  BY <1>1 DEF HoldsMember
<1>3. Client!IsCondition(q.condition) /\ q.condition \in ConditionsOf(q)
  BY DEF Client!IsQuery, ConditionsOf
<1>4. \A m : m \in Server!convert_node_match_query(u.node_match_query)
              <=> \E c \in Server!convert_node_condition(obj) : m = [condition |-> c]
  BY <1>1 DEF Server!convert_node_match_query
<1>5. SaysMember(q) = [condition |-> SaysCondition(q.condition)]
  BY DEF SaysMember
<1>6. "" \notin Looked(q) /\ (\A c \in ConditionsOf(q) : Simple(c)) => Plain(q.condition)
  BY <1>3, PlainConditions
<1>7. "" \notin Given(q) => Readable(q.condition)
  BY <1>3, ReadableConditions
<1> QED BY <1>2, <1>3, <1>4, <1>5, <1>6, <1>7, ServerNode

\* A query that creates links says which and between which nodes.
LEMMA ServerLinkCreate ==
  ASSUME NEW q, Client!IsQuery(q), q.type = "LINK_CREATE", NEW u, HoldsMember(u, q)
  PROVE  /\ "" \notin Looked(q) /\ (\A c \in ConditionsOf(q) : Simple(c))
               => \A m \in Server!convert_link_create_query(u.link_create_query) : m = SaysMember(q)
         /\ "" \notin Given(q) => Server!convert_link_create_query(u.link_create_query) # {}
<1>1. PICK obj1, obj2 : obj1 = u.link_create_query.is.first /\ obj2 = u.link_create_query.is.second
  OBVIOUS
<1>2. HoldsCondition(obj1, q.first) /\ HoldsCondition(obj2, q.second)
  BY <1>1 DEF HoldsMember
<1>3. /\ Client!IsCondition(q.first) /\ q.first \in ConditionsOf(q)
      /\ Client!IsCondition(q.second) /\ q.second \in ConditionsOf(q)
      /\ q.name # Null /\ q.link_type \in {"LT_TO", "LT_FROM", "LT_BOTH"}
  BY DEF Client!IsQuery, ConditionsOf
<1>4. /\ u.link_create_query.is.link_name = ReadText(q.name)
      /\ Server!NameOf(Server!LinkType, u.link_create_query.is.link_type) = LinkTypeOf[q.link_type]
  BY <1>3, ServerNames DEF HoldsMember, LinkTypeOf
<1>5. PICK names, ones, twos : /\ names = Server!convert_string(ReadText(q.name))
                               /\ ones = Server!convert_node_condition(obj1)
                               /\ twos = Server!convert_node_condition(obj2)
  OBVIOUS
<1>6. \A m : m \in Server!convert_link_create_query(u.link_create_query)
              <=> \E n \in names, one \in ones, two \in twos :
                     m = [link |-> [name |-> n, type |-> LinkTypeOf[q.link_type]], first |-> one, second |-> two]
  BY <1>1, <1>4, <1>5 DEF Server!convert_link_create_query
<1>7. SaysMember(q) = [link |-> [name |-> q.name, type |-> LinkTypeOf[q.link_type]],
                       first |-> SaysCondition(q.first), second |-> SaysCondition(q.second)]
  BY DEF SaysMember
<1>8. ASSUME "" \notin Looked(q), \A c \in ConditionsOf(q) : Simple(c),
             NEW m \in Server!convert_link_create_query(u.link_create_query)
      PROVE  m = SaysMember(q)
  <2>1. PICK n \in names, one \in ones, two \in twos :
          m = [link |-> [name |-> n, type |-> LinkTypeOf[q.link_type]], first |-> one, second |-> two]
    BY <1>6, <1>8
  <2>2. Plain(q.first) /\ Plain(q.second)
    BY <1>3, <1>8, PlainConditions
  <2>3. one = SaysCondition(q.first)
    BY <1>2, <1>3, <1>5, <2>2, ServerNode
  <2>4. two = SaysCondition(q.second)
    BY <1>2, <1>3, <1>5, <2>2, ServerNode
  <2>5. n = q.name
    BY <1>3, <1>5, ServerText
  <2> QED BY <1>7, <2>1, <2>3, <2>4, <2>5
<1>9. ASSUME "" \notin Given(q)
      PROVE  Server!convert_link_create_query(u.link_create_query) # {}
  <2>1. q.name \in Given(q)
    BY DEF Given
  <2>2. names # {}
    BY <1>3, <1>5, <1>9, <2>1, ServerText
  <2>3. Readable(q.first) /\ Readable(q.second)
    BY <1>3, <1>9, ReadableConditions
  <2>4. ones # {} /\ twos # {}
    BY <1>2, <1>3, <1>5, <2>3, ServerNode
  <2>5. PICK n \in names, one \in ones, two \in twos : TRUE
    BY <2>2, <2>4
  <2> QED BY <1>6, <2>5
<1> QED BY <1>8, <1>9

\* A query that deletes links says which.
LEMMA ServerLinkDelete ==
  ASSUME NEW q, Client!IsQuery(q), q.type = "LINK_DELETE", NEW u, HoldsMember(u, q)
  PROVE  /\ "" \notin Looked(q) /\ (\A c \in ConditionsOf(q) : Simple(c))
               => \A m \in Server!convert_link_delete_query(u.link_delete_query) : m = SaysMember(q)
         /\ "" \notin Given(q) => Server!convert_link_delete_query(u.link_delete_query) # {}
<1>1. PICK obj : obj = u.link_delete_query.is.condition
  OBVIOUS
<1>2. HoldsMatch(obj, q.condition) /\ Client!IsMatchCondition(q.condition)
  BY <1>1 DEF HoldsMember, Client!IsQuery
<1>3. /\ q.condition.node_first_condition \in ConditionsOf(q)
      /\ q.condition.node_second_condition \in ConditionsOf(q)
      /\ q.condition.node_cross_condition \in ConditionsOf(q)
  BY DEF ConditionsOf
<1>4. \A m : m \in Server!convert_link_delete_query(u.link_delete_query)
              <=> \E c \in Server!convert_match_condition(obj) : m = [condition |-> c]
  BY <1>1 DEF Server!convert_link_delete_query
<1>5. SaysMember(q) = [condition |-> SaysMatch(q.condition)]
  BY DEF SaysMember
<1>6. ASSUME "" \notin Looked(q), \A c \in ConditionsOf(q) : Simple(c)
      PROVE  \A c \in Server!convert_match_condition(obj) : c = SaysMatch(q.condition)
  <2>1. /\ Plain(q.condition.node_first_condition) /\ Plain(q.condition.node_second_condition)
        /\ Plain(q.condition.node_cross_condition)
    BY <1>3, <1>6, PlainConditions
  <2> QED BY <1>2, <2>1, ServerMatchCondition
<1>7. ASSUME "" \notin Given(q)
      PROVE  Server!convert_match_condition(obj) # {}
  <2>1. /\ Readable(q.condition.node_first_condition) /\ Readable(q.condition.node_second_condition)
        /\ Readable(q.condition.node_cross_condition)
    BY <1>3, <1>7, ReadableConditions
  <2>2. q.condition.link_condition.link_name \in Given(q)
    BY DEF Given
  <2> QED BY <1>2, <1>7, <2>1, <2>2, ServerMatchCondition
<1> QED BY <1>4, <1>5, <1>6, <1>7

\* A query that matches says what.
LEMMA ServerMatch ==
  ASSUME NEW q, Client!IsQuery(q), q.type = "MATCH", NEW u, HoldsMember(u, q)
  PROVE  /\ "" \notin Looked(q) /\ (\A c \in ConditionsOf(q) : Simple(c))
               => \A m \in Server!convert_match_query(u.match_query) : m = SaysMember(q)
         /\ "" \notin Given(q) => Server!convert_match_query(u.match_query) # {}
<1>1. PICK obj : obj = u.match_query.is.condition
  OBVIOUS
<1>2. HoldsMatch(obj, q.condition) /\ Client!IsMatchCondition(q.condition)
  BY <1>1 DEF HoldsMember, Client!IsQuery
<1>3. /\ q.condition.node_first_condition \in ConditionsOf(q)
      /\ q.condition.node_second_condition \in ConditionsOf(q)
      /\ q.condition.node_cross_condition \in ConditionsOf(q)
  BY DEF ConditionsOf
<1>4. \A m : m \in Server!convert_match_query(u.match_query)
              <=> \E c \in Server!convert_match_condition(obj) : m = [condition |-> c]
  BY <1>1 DEF Server!convert_match_query
<1>5. SaysMember(q) = [condition |-> SaysMatch(q.condition)]
  BY DEF SaysMember
<1>6. ASSUME "" \notin Looked(q), \A c \in ConditionsOf(q) : Simple(c)
      PROVE  \A c \in Server!convert_match_condition(obj) : c = SaysMatch(q.condition)
  <2>1. /\ Plain(q.condition.node_first_condition) /\ Plain(q.condition.node_second_condition)
        /\ Plain(q.condition.node_cross_condition)
    BY <1>3, <1>6, PlainConditions
  <2> QED BY <1>2, <2>1, ServerMatchCondition
<1>7. ASSUME "" \notin Given(q)
      PROVE  Server!convert_match_condition(obj) # {}
  <2>1. /\ Readable(q.condition.node_first_condition) /\ Readable(q.condition.node_second_condition)
        /\ Readable(q.condition.node_cross_condition)
    BY <1>3, <1>7, ReadableConditions
  <2>2. q.condition.link_condition.link_name \in Given(q)
    BY DEF Given
  <2> QED BY <1>2, <1>7, <2>1, <2>2, ServerMatchCondition
<1> QED BY <1>4, <1>5, <1>6, <1>7

\* What the server makes of an object that holds a query is of its type, says
\* what was typed if it is plain, and is there unless a text without letters is
\* given.
LEMMA ServerQuery ==
  ASSUME NEW q, Client!IsQuery(q), NEW obj, HoldsQuery(obj, q)
  PROVE  /\ \A x \in Server!convert_query(obj) : x.type = q.type
         /\ "" \notin Looked(q) /\ (\A c \in ConditionsOf(q) : Simple(c))
               => \A x \in Server!convert_query(obj) : x = Says(q)
         /\ "" \notin Given(q) => Server!convert_query(obj) # {}
<1>0. PICK queries : queries = Server!convert_query(obj)
  OBVIOUS
<1>1. PICK u : u = obj.is.query.is
  OBVIOUS
<1>2. HoldsMember(u, q)
  BY <1>1 DEF HoldsQuery
<1>3. Server!NameOf(Server!QueryType, obj.is.type) = q.type
  BY ServerNames DEF HoldsQuery, Client!IsQuery, Client!ToSet, ToSet
<1>4. q.type \in {"SCHEMA_CREATE", "SCHEMA_GET", "SCHEMA_GET_ALL", "SCHEMA_DELETE", "NODE_CREATE", "NODE_UPDATE",
                "NODE_DELETE", "NODE_MATCH", "LINK_CREATE", "LINK_DELETE", "MATCH"}
  BY DEF Client!IsQuery, Client!ToSet, Client!QueryType
<1> DEFINE plain == "" \notin Looked(q) /\ (\A c \in ConditionsOf(q) : Simple(c))
           Made == \E members :
                      /\ \A x : x \in queries <=> \E m \in members : x = [type |-> q.type, query |-> m]
                      /\ plain => \A m \in members : m = SaysMember(q)
                      /\ "" \notin Given(q) => members # {}
<1>5. ASSUME q.type = "SCHEMA_CREATE"
      PROVE  Made
  <2>1. PICK members : members = Server!convert_schema_create_query(u.schema_create_query)
    OBVIOUS
  <2>2. \A x : x \in queries <=> \E m \in members : x = [type |-> q.type, query |-> m]
    BY <1>0, <1>1, <1>3, <1>5, <2>1, ServerType
  <2>3. plain => \A m \in members : m = SaysMember(q)
    BY <1>2, <1>5, <2>1, ServerSchemaCreate
  <2>4. "" \notin Given(q) => members # {}
    BY <1>2, <1>5, <2>1, ServerSchemaCreate
  <2> HIDE DEF plain
  <2> QED BY <2>2, <2>3, <2>4
<1>6. ASSUME q.type = "SCHEMA_GET"
      PROVE  Made
  <2>1. PICK members : members = Server!convert_schema_get_query(u.schema_get_query)
    OBVIOUS
  <2>2. \A x : x \in queries <=> \E m \in members : x = [type |-> q.type, query |-> m]
    BY <1>0, <1>1, <1>3, <1>6, <2>1, ServerType
  <2>3. plain => \A m \in members : m = SaysMember(q)
    BY <1>2, <1>6, <2>1, ServerSchemaGet
  <2>4. "" \notin Given(q) => members # {}
    BY <1>2, <1>6, <2>1, ServerSchemaGet
  <2> HIDE DEF plain
  <2> QED BY <2>2, <2>3, <2>4
<1>7. ASSUME q.type = "SCHEMA_DELETE"
      PROVE  Made
  <2>1. PICK members : members = Server!convert_schema_delete_query(u.schema_delete_query)
    OBVIOUS
  <2>2. \A x : x \in queries <=> \E m \in members : x = [type |-> q.type, query |-> m]
    BY <1>0, <1>1, <1>3, <1>7, <2>1, ServerType
  <2>3. plain => \A m \in members : m = SaysMember(q)
    BY <1>2, <1>7, <2>1, ServerSchemaDelete
  <2>4. "" \notin Given(q) => members # {}
    BY <1>2, <1>7, <2>1, ServerSchemaDelete
  <2> HIDE DEF plain
  <2> QED BY <2>2, <2>3, <2>4
<1>8. ASSUME q.type = "NODE_CREATE"
      PROVE  Made
  <2>1. PICK members : members = Server!convert_node_create_query(u.node_create_query)
    OBVIOUS
  <2>2. \A x : x \in queries <=> \E m \in members : x = [type |-> q.type, query |-> m]
    BY <1>0, <1>1, <1>3, <1>8, <2>1, ServerType
  <2>3. plain => \A m \in members : m = SaysMember(q)
    BY <1>2, <1>8, <2>1, ServerNodeCreate
  <2>4. "" \notin Given(q) => members # {}
    BY <1>2, <1>8, <2>1, ServerNodeCreate
  <2> HIDE DEF plain
  <2> QED BY <2>2, <2>3, <2>4
<1>9. ASSUME q.type = "NODE_UPDATE"
      PROVE  Made
  <2>1. PICK members : members = Server!convert_node_update_query(u.node_update_query)
    OBVIOUS
  <2>2. \A x : x \in queries <=> \E m \in members : x = [type |-> q.type, query |-> m]
    BY <1>0, <1>1, <1>3, <1>9, <2>1, ServerType
  <2>3. plain => \A m \in members : m = SaysMember(q)
    BY <1>2, <1>9, <2>1, ServerNodeUpdate
  <2>4. "" \notin Given(q) => members # {}
    BY <1>2, <1>9, <2>1, ServerNodeUpdate
  <2> HIDE DEF plain
  <2> QED BY <2>2, <2>3, <2>4
<1>10. ASSUME q.type = "NODE_DELETE"
      PROVE  Made
  <2>1. PICK members : members = Server!convert_node_delete_query(u.node_delete_query)
    OBVIOUS
  <2>2. \A x : x \in queries <=> \E m \in members : x = [type |-> q.type, query |-> m]
    BY <1>0, <1>1, <1>3, <1>10, <2>1, ServerType
  <2>3. plain => \A m \in members : m = SaysMember(q)
    BY <1>2, <1>10, <2>1, ServerNodeDelete
  <2>4. "" \notin Given(q) => members # {}
    BY <1>2, <1>10, <2>1, ServerNodeDelete
  <2> HIDE DEF plain
  <2> QED BY <2>2, <2>3, <2>4
<1>11. ASSUME q.type = "NODE_MATCH"
      PROVE  Made
  <2>1. PICK members : members = Server!convert_node_match_query(u.node_match_query)
    OBVIOUS
  <2>2. \A x : x \in queries <=> \E m \in members : x = [type |-> q.type, query |-> m]
    BY <1>0, <1>1, <1>3, <1>11, <2>1, ServerType
  <2>3. plain => \A m \in members : m = SaysMember(q)
    BY <1>2, <1>11, <2>1, ServerNodeMatch
  <2>4. "" \notin Given(q) => members # {}
    BY <1>2, <1>11, <2>1, ServerNodeMatch
  <2> HIDE DEF plain
  <2> QED BY <2>2, <2>3, <2>4
<1>12. ASSUME q.type = "LINK_CREATE"
      PROVE  Made
  <2>1. PICK members : members = Server!convert_link_create_query(u.link_create_query)
    OBVIOUS
  <2>2. \A x : x \in queries <=> \E m \in members : x = [type |-> q.type, query |-> m]
    BY <1>0, <1>1, <1>3, <1>12, <2>1, ServerType
  <2>3. plain => \A m \in members : m = SaysMember(q)
    BY <1>2, <1>12, <2>1, ServerLinkCreate
  <2>4. "" \notin Given(q) => members # {}
    BY <1>2, <1>12, <2>1, ServerLinkCreate
  <2> HIDE DEF plain
  <2> QED BY <2>2, <2>3, <2>4
<1>13. ASSUME q.type = "LINK_DELETE"
      PROVE  Made
  <2>1. PICK members : members = Server!convert_link_delete_query(u.link_delete_query)
    OBVIOUS
  <2>2. \A x : x \in queries <=> \E m \in members : x = [type |-> q.type, query |-> m]
    BY <1>0, <1>1, <1>3, <1>13, <2>1, ServerType
  <2>3. plain => \A m \in members : m = SaysMember(q)
    BY <1>2, <1>13, <2>1, ServerLinkDelete
  <2>4. "" \notin Given(q) => members # {}
    BY <1>2, <1>13, <2>1, ServerLinkDelete
  <2> HIDE DEF plain
  <2> QED BY <2>2, <2>3, <2>4
<1>14. ASSUME q.type = "MATCH"
      PROVE  Made
  <2>1. PICK members : members = Server!convert_match_query(u.match_query)
    OBVIOUS
  <2>2. \A x : x \in queries <=> \E m \in members : x = [type |-> q.type, query |-> m]
    BY <1>0, <1>1, <1>3, <1>14, <2>1, ServerType
  <2>3. plain => \A m \in members : m = SaysMember(q)
    BY <1>2, <1>14, <2>1, ServerMatch
  <2>4. "" \notin Given(q) => members # {}
    BY <1>2, <1>14, <2>1, ServerMatch
  <2> HIDE DEF plain
  <2> QED BY <2>2, <2>3, <2>4
<1>15. ASSUME q.type = "SCHEMA_GET_ALL"
      PROVE  Made
  <2>1. PICK members : members = {<<>>}
    OBVIOUS
  <2>2. queries = {[type |-> q.type, query |-> <<>>]}
    BY <1>0, <1>1, <1>3, <1>15, ServerType
  <2>3. SaysMember(q) = <<>>
    BY <1>15 DEF SaysMember
  <2> HIDE DEF plain
  <2> QED BY <2>1, <2>2, <2>3
<1> HIDE DEF plain, Made
<1>16. Made
  BY <1>4, <1>5, <1>6, <1>7, <1>8, <1>9, <1>10, <1>11, <1>12, <1>13, <1>14, <1>15
<1>17. PICK members :
         /\ \A x : x \in queries <=> \E m \in members : x = [type |-> q.type, query |-> m]
         /\ plain => \A m \in members : m = SaysMember(q)
         /\ "" \notin Given(q) => members # {}
  BY <1>16 DEF Made
<1>18. ASSUME NEW x \in queries
       PROVE  x.type = q.type
  <2>1. PICK m : x = [type |-> q.type, query |-> m]
    BY <1>18, <1>17
  <2> QED BY <2>1
<1>19. ASSUME plain, NEW x \in queries
       PROVE  x = Says(q)
  BY <1>17, <1>19 DEF Says
<1>20. ASSUME "" \notin Given(q)
       PROVE  queries # {}
  <2>1. PICK m : m \in members
    BY <1>17, <1>20
  <2>2. [type |-> q.type, query |-> m] \in queries
    BY <1>17, <2>1
  <2> QED BY <2>2
<1> QED BY <1>0, <1>18, <1>19, <1>20 DEF plain
-----------------------------------------------------------------------------
(* Answers: what is read holds what was found *)

\* An enumerator of the database has the number that the interface has for it.
LEMMA ServerCodes ==
  /\ \A x \in DOMAIN ValueTypeOf :
        Server!Code(Server!DataType, x) = Code(I_ValueType, ValueTypeOf[x])
  /\ \A x \in DOMAIN LinkTypeFound :
        Server!Code(Server!LinkType, x) = Code(I_LinkType, LinkTypeFound[x])
  /\ \A x \in ToSet(Server!QueryResultType) :
        Server!Code(Server!QueryResultType, x) = Code(I_QueryResultType, x)
BY DEF Server!Code, Code, ValueTypeOf, Server!DataType, I_ValueType, LinkTypeFound, Server!LinkType,
       I_LinkType, Server!QueryResultType, I_QueryResultType, ToSet

\* A value that was found arrives.
LEMMA FoundValueArrives ==
  ASSUME NEW v, Server!IsValue(v)
  PROVE  HoldsFoundValue(read_Value(New(I_Value), Server!get_value(v)), v)
<1> DEFINE sent == Server!get_value(v)
           u == sent.is.value
<1>1. v.data_type \in {"DT_INTEGER", "DT_STRING", "DT_FLOATING", "DT_BOOLEAN"}
  BY DEF Server!IsValue, Server!ToSet, Server!DataType
<1>2. sent.is.type = Code(I_ValueType, ValueTypeOf[v.data_type])
  <2>1. sent.is.type = Server!Code(Server!DataType, v.data_type)
    BY DEF Server!get_value, Server!Make, Server!I_Value, Server!Class
  <2> QED BY <2>1, <1>1, ServerCodes DEF ValueTypeOf
<1>3. /\ v.data_type = "DT_INTEGER" => "integer" \in u.set /\ u.is.integer = v.integer
      /\ v.data_type = "DT_STRING" => "string_" \in u.set /\ u.is.string_ = v.string
      /\ v.data_type = "DT_FLOATING" => "floating" \in u.set /\ u.is.floating = v.floating
      /\ v.data_type = "DT_BOOLEAN" => "boolean" \in u.set /\ u.is.boolean = v.boolean
  BY DEF Server!get_value, Server!Make, Server!I_Value, Server!I_uValue, Server!Class
<1> HIDE DEF sent, u
<1>4. read_Value(New(I_Value), sent).is.type = Code(I_ValueType, ValueTypeOf[v.data_type])
  BY <1>2, ReadsValue
<1>5. PICK r : r = ReadPlain(I_uValue, New(I_uValue), u)
  OBVIOUS
<1>6. read_Value(New(I_Value), sent).is.value = r
  BY <1>5, ReadsValue DEF u
<1>7. /\ v.data_type = "DT_INTEGER" => r.is.integer = v.integer
      /\ v.data_type = "DT_STRING" => r.is.string_ = ReadText(v.string)
      /\ v.data_type = "DT_FLOATING" => r.is.floating = v.floating
      /\ v.data_type = "DT_BOOLEAN" => r.is.boolean = v.boolean
  <2>1. /\ r.is.integer = IF "integer" \in u.set THEN u.is.integer ELSE 0
        /\ r.is.string_ = IF "string_" \in u.set THEN ReadText(SentText(u.is.string_)) ELSE Null
        /\ r.is.floating = IF "floating" \in u.set THEN u.is.floating ELSE 0
        /\ r.is.boolean = IF "boolean" \in u.set THEN u.is.boolean ELSE FALSE
    BY <1>5, ReadsuValue
  <2> QED BY <1>3, <2>1, TextArrives
<1> QED BY <1>4, <1>6, <1>7 DEF HoldsFoundValue, sent

\* A node that was found arrives, with its values in their order and without
\* names.
LEMMA FoundNodeArrives ==
  ASSUME NEW node, Server!IsNode(node)
  PROVE  HoldsFoundNode(read_Node(New(I_Node), Server!get_node(node)), node)
<1>1. PICK values, n : n \in Nat /\ values = node.values /\ DOMAIN values = 1 .. n
  BY DEF Server!IsNode, Server!IsListOf, Server!ToSet
<1>2. PICK sent : sent = Server!get_node(node)
  OBVIOUS
<1>3. PICK list : list = [i \in 1 .. n |->
                            Server!Make(Server!I_Property, [value |-> Server!get_value(values[i])])]
  OBVIOUS
<1>4. sent.set = {"properties"} /\ sent.is.properties = list
  BY <1>1, <1>2, <1>3 DEF Server!get_node, Server!Make, Server!I_Node, Server!Class
<1>5. PICK r : r = read_Node(New(I_Node), sent)
  OBVIOUS
<1>6. r.is.name = Null /\ r.is.properties = ReadList(I_Property, read_Property, <<>>, list)
  BY <1>4, <1>5, ReadsNode
<1>7. PICK read : read = [i \in 1 .. n |-> read_Property(New(I_Property), list[i])]
  OBVIOUS
<1>8. r.is.properties = read
  <2>1. <<>> \o read = read
    BY <1>1, <1>7, BehindNone
  <2>2. DOMAIN list = 1 .. n
    BY <1>3
  <2> QED BY <1>6, <1>7, <2>1, <2>2 DEF ReadList
<1>9. ASSUME NEW i \in 1 .. n
      PROVE  HoldsFoundProperty(read[i], values[i])
  <2>1. PICK obj : obj = list[i]
    OBVIOUS
  <2>2. obj.set = {"value"} /\ obj.is.value = Server!get_value(values[i])
    BY <1>3, <1>9, <2>1 DEF Server!Make, Server!I_Property, Server!Class
  <2>3. PICK p : p = read_Property(New(I_Property), obj)
    OBVIOUS
  <2>4. p.is.field = Null /\ p.is.value = read_Value(New(I_Value), Server!get_value(values[i]))
    BY <2>2, <2>3, ReadsProperty
  <2>5. Server!IsValue(values[i])
    BY <1>1, <1>9 DEF Server!IsNode, Server!IsListOf
  <2>6. read[i] = p
    BY <1>7, <1>9, <2>1, <2>3
  <2> QED BY <2>4, <2>5, <2>6, FoundValueArrives DEF HoldsFoundProperty
<1> QED BY <1>1, <1>2, <1>5, <1>6, <1>7, <1>8, <1>9 DEF HoldsFoundNode, HoldsList

\* A link that was found arrives.
LEMMA FoundLinkArrives ==
  ASSUME NEW link, Server!IsLink(link)
  PROVE  HoldsFoundLink(read_Link(New(I_Link), Server!get_link(link)), link)
<1>1. PICK sent : sent = Server!get_link(link)
  OBVIOUS
<1>2. sent.is.name = link.name /\ sent.is.type = Server!Code(Server!LinkType, link.type)
  BY <1>1 DEF Server!get_link, Server!Make, Server!I_Link, Server!Class
<1>3. Server!Code(Server!LinkType, link.type) = Code(I_LinkType, LinkTypeFound[link.type])
  BY ServerCodes DEF Server!IsLink, LinkTypeFound
<1> QED BY <1>1, <1>2, <1>3, ReadsLink, TextArrives DEF HoldsFoundLink

\* A schema that was found arrives, with its attributes, of whose names the
\* beginning is what it was.
LEMMA FoundSchemaArrives ==
  ASSUME NEW schema, schema # Null => Server!IsSchema(schema), NEW sent \in Server!get_schema(schema)
  PROVE  HoldsFoundSchema(read_Schema(New(I_Schema), sent), schema)
<1>1. schema # Null /\ Server!IsSchema(schema)
  BY DEF Server!get_schema
<1>2. PICK attributes, n : n \in Nat /\ attributes = schema.attributes /\ DOMAIN attributes = 1 .. n
  BY <1>1 DEF Server!IsSchema, Server!IsListOf, Server!ToSet
<1>3. PICK list \in Server!AllOf(Server!get_attribute, attributes) :
        sent = Server!Make(Server!I_Schema, [name |-> schema.name, attributes |-> list])
  BY <1>1, <1>2 DEF Server!get_schema
<1>4. /\ list = [i \in DOMAIN attributes |-> list[i]]
      /\ \A i \in DOMAIN attributes : list[i] \in Server!get_attribute(attributes[i])
  BY AllFoundAttributes
<1>5. sent.is.name = schema.name /\ sent.is.attributes = list
  BY <1>3 DEF Server!Make, Server!I_Schema, Server!Class
<1>6. PICK r : r = read_Schema(New(I_Schema), sent)
  OBVIOUS
<1>7. r.is.name = ReadText(schema.name)
      /\ r.is.attributes = ReadList(I_Attribute, read_Attribute, <<>>, list)
  BY <1>5, <1>6, ReadsSchema, TextArrives
<1>8. PICK read : read = [i \in 1 .. n |-> read_Attribute(New(I_Attribute), list[i])]
  OBVIOUS
<1>9. r.is.attributes = read
  <2>1. <<>> \o read = read
    BY <1>2, <1>8, BehindNone
  <2>2. DOMAIN list = 1 .. n
    BY <1>2, <1>4
  <2> QED BY <1>7, <1>8, <2>1, <2>2 DEF ReadList
<1>10. ASSUME NEW i \in 1 .. n
       PROVE  HoldsFoundAttribute(read[i], attributes[i])
  <2>1. PICK name \in Server!RunOn(attributes[i].name) :
          list[i] = Server!Make(Server!I_Attribute,
                       [name |-> name, vt |-> Server!Code(Server!DataType, attributes[i].data_type)])
    BY <1>2, <1>4, <1>10 DEF Server!get_attribute
  <2>2. list[i].is.name = name /\ list[i].is.vt = Server!Code(Server!DataType, attributes[i].data_type)
    BY <2>1 DEF Server!Make, Server!I_Attribute, Server!Class
  <2>3. attributes[i].data_type \in DOMAIN ValueTypeOf
    BY <1>1, <1>2, <1>10 DEF Server!IsSchema, Server!IsListOf, Server!IsAttribute, Server!ToSet,
       Server!DataType, ValueTypeOf
  <2>4. list[i].is.vt = Code(I_ValueType, ValueTypeOf[attributes[i].data_type])
    BY <2>2, <2>3, ServerCodes
  <2>5. read[i].is.name = ReadText(name) /\ read[i].is.vt = list[i].is.vt
    BY <1>8, <1>10, <2>2, ReadsAttribute, TextArrives
  <2> QED BY <2>1, <2>4, <2>5 DEF HoldsFoundAttribute
<1> QED BY <1>2, <1>6, <1>7, <1>8, <1>9, <1>10 DEF HoldsFoundSchema, HoldsList

-----------------------------------------------------------------------------
(* Elements of a result *)

\* What a query of each type finds.
IsFound(type, f) ==
    /\ type = "SCHEMA_GET_ALL" => Server!IsSchema(f)
    /\ type = "NODE_MATCH" => Server!IsNode(f)
    /\ type = "MATCH" => Server!IsNode(f.first) /\ Server!IsLink(f.link) /\ Server!IsNode(f.second)

\* An element arrives, and nothing of another kind.
LEMMA FoundItemArrives ==
  ASSUME NEW type \in Generated, NEW f, IsFound(type, f), NEW sent \in Server!get_item(f, type)
  PROVE  HoldsItem(read_Result(New(I_Result), sent), type, f)
<1>1. PICK r : r = read_Result(New(I_Result), sent)
  OBVIOUS
<1>2. r.set = {m \in {"return_items", "first", "link", "second", "schema"} : m \in {"return_items"} \/ m \in sent.set}
  BY <1>1, ReadsResult
<1>3. CASE type = "SCHEMA_GET_ALL"
  <2>1. PICK s \in Server!get_schema(f) : sent = Server!Make(Server!I_Result, [schema |-> s])
    BY <1>3 DEF Server!get_item
  <2>2. sent.set = {"schema"} /\ sent.is.schema = s
    BY <2>1 DEF Server!Make, Server!I_Result, Server!Class
  <2>3. r.set = {"return_items", "schema"}
    BY <1>2, <2>2
  <2>4. r.is.schema = read_Schema(New(I_Schema), s)
    BY <1>1, <2>2, ReadsResult
  <2>5. HoldsFoundSchema(r.is.schema, f)
    BY <1>3, <2>4, FoundSchemaArrives DEF IsFound
  <2> QED BY <1>1, <1>3, <2>3, <2>5 DEF HoldsItem
<1>4. CASE type = "NODE_MATCH"
  <2>1. sent = Server!Make(Server!I_Result, [first |-> Server!get_node(f)])
    BY <1>4 DEF Server!get_item
  <2>2. sent.set = {"first"} /\ sent.is.first = Server!get_node(f)
    BY <2>1 DEF Server!Make, Server!I_Result, Server!Class
  <2>3. r.set = {"return_items", "first"}
    BY <1>2, <2>2
  <2>4. r.is.first = read_Node(New(I_Node), Server!get_node(f))
    BY <1>1, <2>2, ReadsResult
  <2>5. HoldsFoundNode(r.is.first, f)
    BY <1>4, <2>4, FoundNodeArrives DEF IsFound
  <2> QED BY <1>1, <1>4, <2>3, <2>5 DEF HoldsItem
<1>5. CASE type = "MATCH"
  <2>1. sent = Server!Make(Server!I_Result, [first |-> Server!get_node(f.first),
                                             second |-> Server!get_node(f.second),
                                             link |-> Server!get_link(f.link)])
    BY <1>5 DEF Server!get_item
  <2>2. /\ sent.set = {"first", "second", "link"}
        /\ sent.is.first = Server!get_node(f.first) /\ sent.is.second = Server!get_node(f.second)
        /\ sent.is.link = Server!get_link(f.link)
    BY <2>1 DEF Server!Make, Server!I_Result, Server!Class
  <2>3. r.set = {"return_items", "first", "link", "second"}
    BY <1>2, <2>2
  <2>4. /\ r.is.first = read_Node(New(I_Node), Server!get_node(f.first))
        /\ r.is.second = read_Node(New(I_Node), Server!get_node(f.second))
        /\ r.is.link = read_Link(New(I_Link), Server!get_link(f.link))
    BY <1>1, <2>2, ReadsResult
  <2>5. /\ HoldsFoundNode(r.is.first, f.first) /\ HoldsFoundNode(r.is.second, f.second)
        /\ HoldsFoundLink(r.is.link, f.link)
    BY <1>5, <2>4, FoundNodeArrives, FoundLinkArrives DEF IsFound
  <2> QED BY <1>1, <1>5, <2>3, <2>5 DEF HoldsItem
<1> QED BY <1>3, <1>4, <1>5 DEF Generated

\* A schema that was found can be converted.
LEMMA FoundSchemaGiven ==
  ASSUME NEW schema, schema # Null
  PROVE  Server!get_schema(schema) # {}
<1>1. PICK all : all = Server!AllOf(Server!get_attribute, schema.attributes)
  OBVIOUS
<1>2. ASSUME NEW i \in DOMAIN schema.attributes
      PROVE  Server!get_attribute(schema.attributes[i]) # {}
  <2>1. schema.attributes[i].name \in Server!RunOn(schema.attributes[i].name)
    BY DEF Server!RunOn
  <2> QED BY <2>1 DEF Server!get_attribute
<1>3. PICK list : list \in all
  BY <1>1, <1>2, AllFoundAttributes
<1>4. Server!Make(Server!I_Schema, [name |-> schema.name, attributes |-> list]) \in Server!get_schema(schema)
  BY <1>1, <1>3 DEF Server!get_schema
<1> QED BY <1>4

\* An element can be converted.
LEMMA FoundItemGiven ==
  ASSUME NEW type \in Generated, NEW f, IsFound(type, f)
  PROVE  Server!get_item(f, type) # {}
<1>1. CASE type = "SCHEMA_GET_ALL"
  <2>1. PICK s : s \in Server!get_schema(f)
    BY <1>1, FoundSchemaGiven DEF IsFound, Server!IsSchema
  <2>2. Server!get_item(f, type) = {Server!Make(Server!I_Result, [schema |-> x]) : x \in Server!get_schema(f)}
    BY <1>1 DEF Server!get_item
  <2> QED BY <2>1, <2>2
<1>2. CASE type = "NODE_MATCH"
  BY <1>2 DEF Server!get_item
<1>3. CASE type = "MATCH"
  BY <1>3 DEF Server!get_item
<1> QED BY <1>1, <1>2, <1>3 DEF Generated

\* The elements are converted one by one, and they can be.
LEMMA AllItems ==
  ASSUME NEW type \in Generated, NEW list, \A i \in DOMAIN list : IsFound(type, list[i])
  PROVE  /\ \A s \in Server!get_items(list, type) :
               /\ s = [i \in DOMAIN list |-> s[i]]
               /\ \A i \in DOMAIN list : s[i] \in Server!get_item(list[i], type)
         /\ Server!get_items(list, type) # {}
<1>1. ASSUME NEW s \in Server!get_items(list, type)
      PROVE  s = [i \in DOMAIN list |-> s[i]] /\ \A i \in DOMAIN list : s[i] \in Server!get_item(list[i], type)
  BY <1>1 DEF Server!get_items, Server!AllOf
<1>2. Server!get_items(list, type) # {}
  <2> DEFINE s == [i \in DOMAIN list |-> CHOOSE x : x \in Server!get_item(list[i], type)]
  <2>1. \A i \in DOMAIN list : s[i] \in Server!get_item(list[i], type)
    BY FoundItemGiven
  <2>2. s \in [DOMAIN list -> UNION {Server!get_item(list[i], type) : i \in DOMAIN list}]
    BY <2>1
  <2> HIDE DEF s
  <2> QED BY <2>1, <2>2 DEF Server!get_items, Server!AllOf
<1> QED BY <1>1, <1>2

\* The elements of a result arrive in their order.
LEMMA ItemsArrive ==
  ASSUME NEW type \in Generated, NEW n \in Nat, NEW list, DOMAIN list = 1 .. n,
         \A i \in DOMAIN list : IsFound(type, list[i]), NEW sent \in Server!get_items(list, type),
         NEW items, items = ReadList(I_Result, read_Result, <<>>, sent)
  PROVE  DOMAIN items = DOMAIN list /\ \A i \in DOMAIN list : HoldsItem(items[i], type, list[i])
<1>1. /\ sent = [i \in DOMAIN list |-> sent[i]]
      /\ \A i \in DOMAIN list : sent[i] \in Server!get_item(list[i], type)
  BY AllItems
<1>2. PICK read : read = [i \in 1 .. n |-> read_Result(New(I_Result), sent[i])]
  OBVIOUS
<1>3. items = read
  <2>1. <<>> \o read = read
    BY <1>2, BehindNone
  <2>2. DOMAIN sent = 1 .. n
    BY <1>1
  <2> QED BY <1>2, <2>1, <2>2 DEF ReadList
<1>4. ASSUME NEW i \in 1 .. n
      PROVE  HoldsItem(read[i], type, list[i])
  <2>1. sent[i] \in Server!get_item(list[i], type) /\ IsFound(type, list[i])
    BY <1>1, <1>4
  <2>2. read[i] = read_Result(New(I_Result), sent[i])
    BY <1>2, <1>4
  <2> QED BY <2>1, <2>2, FoundItemArrives
<1> QED BY <1>2, <1>3, <1>4

-----------------------------------------------------------------------------
(* Results *)

\* What a query finds is made of what the database holds.
LEMMA FoundInDatabase ==
  ASSUME NEW type, NEW res \in ResultsOf(type)
  PROVE  /\ res.status \in {StatusCode(rc) : rc \in {"RC_OK", "RC_DATABASE_NO_SUCH_SCHEMA", "RC_DATA_TYPES_ARE_NOT_EQUAL"}}
         /\ type = "SCHEMA_GET" =>
               res.type = "RESULT_SCHEMA" /\ (res.schema # Null => Server!IsSchema(res.schema))
         /\ type \in Generated =>
               /\ res.type = "RESULT_GENERATOR"
               /\ \E n \in Nat : DOMAIN res.generator = 1 .. n
               /\ \A i \in DOMAIN res.generator : IsFound(type, res.generator[i])
         /\ type \notin Generated \union {"SCHEMA_GET"} => res.type = "RESULT_NONE"
<1>1. Statuses(type) \subseteq
        {StatusCode(rc) : rc \in {"RC_OK", "RC_DATABASE_NO_SUCH_SCHEMA", "RC_DATA_TYPES_ARE_NOT_EQUAL"}}
  BY DEF Statuses
<1>2. CASE type = "SCHEMA_GET"
  <2>1. res \in [type : {"RESULT_SCHEMA"}, status : Statuses(type), schema : StoredSchemas \union {Null}]
    BY <1>2 DEF ResultsOf, Generated
  <2>2. "SCHEMA_GET" \notin Generated
    BY DEF Generated
  <2> QED BY <1>1, <1>2, <2>1, <2>2, ConversationAssumption DEF ConversationAssumption
<1>3. CASE type \in Generated
  <2>0. type # "SCHEMA_GET"
    BY <1>3 DEF Generated
  <2>1. res \in [type : {"RESULT_GENERATOR"}, status : Statuses(type),
                   generator : UNION {[1 .. n -> Elements(type)] : n \in 0 .. MaxFound}]
    BY <1>3, <2>0 DEF ResultsOf
  <2>2. PICK n \in 0 .. MaxFound : res.generator \in [1 .. n -> Elements(type)]
    BY <2>1
  <2>3. n \in Nat
    OBVIOUS
  <2>4. ASSUME NEW f \in Elements(type)
        PROVE  IsFound(type, f)
    BY <1>3, <2>4, ConversationAssumption DEF ConversationAssumption, Elements, IsFound, Generated
  <2>5. DOMAIN res.generator = 1 .. n /\ \A i \in 1 .. n : IsFound(type, res.generator[i])
    BY <2>2, <2>4
  <2>6. res.type = "RESULT_GENERATOR" /\ res.status \in Statuses(type)
    BY <2>1
  <2> QED BY <1>1, <1>3, <2>0, <2>3, <2>5, <2>6
<1>4. CASE type \notin Generated \union {"SCHEMA_GET"}
  <2>1. res \in [type : {"RESULT_NONE"}, status : Statuses(type)]
    BY <1>4 DEF ResultsOf
  <2> QED BY <1>1, <1>4, <2>1
<1> QED BY <1>2, <1>3, <1>4

\* The answer to a query arrives.
LEMMA AnswerArrives ==
  ASSUME NEW type, NEW res \in ResultsOf(type), NEW given \in Server!convert_result(res, type)
  PROVE  HoldsResult(recv_execute(New(I_QueryResult), ReplyWith(given)), type, res)
<1>1. PICK r : r = read_QueryResult(New(I_QueryResult), given)
  OBVIOUS
<1>2. recv_execute(New(I_QueryResult), ReplyWith(given)) = r
  <2>1. PICK back : back = Make(querySvcExecuteResult, [success |-> given])
    OBVIOUS
  <2>2. back.is.success = given /\ back.set = {"success"}
    BY <2>1 DEF Make, querySvcExecuteResult, Class
  <2>3. /\ Fields(querySvcExecuteResult, back, "success") # {}
        /\ (CHOOSE w \in Fields(querySvcExecuteResult, back, "success") : TRUE) = "success"
    BY <2>2, ClassesAreStraight, FieldsOf DEF querySvcExecuteResult, Class, IfSet
  <2>4. ReplyWith(given).fields = back
    BY <2>1 DEF ReplyWith, Message
  <2> QED BY <1>1, <2>2, <2>3, <2>4 DEF recv_execute, Read, querySvcExecuteResult, Class, Into
<1>3. PICK u : /\ given = Server!Make(Server!I_QueryResult,
                              [type |-> Server!Code(Server!QueryResultType, res.type),
                               message |-> Server!RESULT_CODES[res.status + 1], result |-> u])
               /\ type = "SCHEMA_GET" =>
                     \E s \in Server!get_schema(res.schema) :
                        u = Server!Make(Server!I_uQueryResult, [schema |-> s])
               /\ type \in Generated =>
                     \E is \in Server!get_items(res.generator, type) :
                        u = Server!Make(Server!I_uQueryResult, [items |-> is])
               /\ type \notin Generated \union {"SCHEMA_GET"} => u = Server!New(Server!I_uQueryResult)
  BY DEF Server!convert_result, Generated
<1>4. /\ given.is.type = Server!Code(Server!QueryResultType, res.type)
      /\ given.is.message = Server!RESULT_CODES[res.status + 1]
      /\ given.is.result = u /\ "result" \in given.set
  BY <1>3 DEF Server!Make, Server!I_QueryResult, Server!Class
<1>5. r.is.type = Code(I_QueryResultType, res.type)
  <2>1. res.type \in ToSet(Server!QueryResultType)
    BY FoundInDatabase DEF ToSet, Server!QueryResultType
  <2> QED BY <1>1, <1>4, <2>1, ReadsQueryResult, ServerCodes
<1>6. r.is.message = Server!RESULT_CODES[res.status + 1]
  <2>1. Server!RESULT_CODES[res.status + 1] \in
           {"RC_OK", "RC_DATABASE_NO_SUCH_SCHEMA", "RC_DATA_TYPES_ARE_NOT_EQUAL"}
    <3>1. \A rc \in {"RC_OK", "RC_DATABASE_NO_SUCH_SCHEMA", "RC_DATA_TYPES_ARE_NOT_EQUAL"} :
             Server!RESULT_CODES[StatusCode(rc) + 1] = rc
      BY DEF StatusCode, Code, Server!RESULT_CODES
    <3>2. PICK rc \in {"RC_OK", "RC_DATABASE_NO_SUCH_SCHEMA", "RC_DATA_TYPES_ARE_NOT_EQUAL"} :
            res.status = StatusCode(rc)
      BY FoundInDatabase
    <3> QED BY <3>1, <3>2
  <2>2. ReadText(Server!RESULT_CODES[res.status + 1]) = Server!RESULT_CODES[res.status + 1]
    BY <2>1 DEF ReadText
  <2> QED BY <1>1, <1>4, <2>2, ReadsQueryResult, TextArrives
<1>7. PICK v : v = r.is.result
  OBVIOUS
<1>8. v = read_uQueryResult(New(I_uQueryResult), u)
  BY <1>1, <1>4, <1>7, ReadsQueryResult
<1>9. ASSUME type = "SCHEMA_GET"
      PROVE  HoldsFoundSchema(v.is.schema, res.schema) /\ v.is.items = <<>>
  <2>1. PICK s \in Server!get_schema(res.schema) : u = Server!Make(Server!I_uQueryResult, [schema |-> s])
    BY <1>3, <1>9
  <2>2. u.set = {"schema"} /\ u.is.schema = s
    BY <2>1 DEF Server!Make, Server!I_uQueryResult, Server!Class
  <2>3. v.is.schema = read_Schema(New(I_Schema), s) /\ v.is.items = <<>>
    BY <1>8, <2>2, ReadsuQueryResult
  <2>4. res.schema # Null => Server!IsSchema(res.schema)
    BY <1>9, FoundInDatabase
  <2> QED BY <2>1, <2>3, <2>4, FoundSchemaArrives
<1>10. ASSUME type \in Generated
       PROVE  /\ DOMAIN v.is.items = DOMAIN res.generator
              /\ \A i \in DOMAIN res.generator : HoldsItem(v.is.items[i], type, res.generator[i])
  <2>1. PICK list \in Server!get_items(res.generator, type) :
          u = Server!Make(Server!I_uQueryResult, [items |-> list])
    BY <1>3, <1>10
  <2>2. u.set = {"items"} /\ u.is.items = list
    BY <2>1 DEF Server!Make, Server!I_uQueryResult, Server!Class
  <2>3. v.is.items = ReadList(I_Result, read_Result, <<>>, list)
    BY <1>8, <2>2, ReadsuQueryResult
  <2>4. PICK n \in Nat : DOMAIN res.generator = 1 .. n
    BY <1>10, FoundInDatabase
  <2>5. \A i \in DOMAIN res.generator : IsFound(type, res.generator[i])
    BY <1>10, FoundInDatabase
  <2> QED BY <1>10, <2>1, <2>3, <2>4, <2>5, ItemsArrive
<1>11. ASSUME type \notin Generated \union {"SCHEMA_GET"}
       PROVE  v.is.items = <<>>
  <2>1. u.set = {}
    BY <1>3, <1>11 DEF Server!New
  <2> QED BY <1>8, <2>1, ReadsuQueryResult
<1>12. "SCHEMA_GET" \notin Generated
  BY DEF Generated
<1>13. HoldsResult(r, type, res)
  <2>1. r.is.type = Code(I_QueryResultType, res.type) /\ r.is.message = Server!RESULT_CODES[res.status + 1]
    BY <1>5, <1>6
  <2>2. type = "SCHEMA_GET" => HoldsFoundSchema(r.is.result.is.schema, res.schema)
    BY <1>7, <1>9
  <2>3. CASE type \in Generated
    BY <1>7, <1>10, <2>1, <2>2, <2>3 DEF HoldsResult, HoldsList
  <2>4. CASE type \notin Generated
    <3>1. r.is.result.is.items = <<>>
      BY <1>7, <1>9, <1>11, <2>4
    <3> QED BY <2>1, <2>2, <2>4, <3>1 DEF HoldsResult
  <2> QED BY <2>3, <2>4
<1> QED BY <1>2, <1>13

\* An answer can be made, but for a schema that does not exist.
LEMMA AnswerGiven ==
  ASSUME NEW type, type # "SCHEMA_GET", NEW res \in ResultsOf(type)
  PROVE  Server!convert_result(res, type) # {}
<1>1. CASE type \in Generated
  <2>1. PICK all : all = Server!get_items(res.generator, type)
    OBVIOUS
  <2>2. PICK list : list \in all
    BY <1>1, <2>1, FoundInDatabase, AllItems
  <2> QED BY <1>1, <2>1, <2>2 DEF Server!convert_result, Generated
<1>2. CASE type \notin Generated
  BY <1>2 DEF Server!convert_result, Generated
<1> QED BY <1>1, <1>2

-----------------------------------------------------------------------------
(* What is printed *)

\* The client has the same name for each enumerator that it prints.
LEMMA ClientNames ==
  /\ \A x \in ToSet(I_ValueType) : Client!NameOf(Client!I_ValueType, Code(I_ValueType, x)) = x
  /\ \A x \in ToSet(I_QueryResultType) :
        Client!NameOf(Client!I_QueryResultType, Code(I_QueryResultType, x)) = x
  /\ \A x, y \in {"LT_TO", "LT_FROM", "LT_BOTH"} :
        Code(I_LinkType, x) = Client!Code(Client!LinkType, y) <=> x = y
BY DEF Client!NameOf, Code, Client!Code, I_ValueType, Client!I_ValueType, I_QueryResultType,
       Client!I_QueryResultType, I_LinkType, Client!LinkType, ToSet

\* The value that was found is printed.
LEMMA ValuePrinted ==
  ASSUME NEW obj, NEW v, Server!IsValue(v), HoldsFoundValue(obj, v)
  PROVE  Client!print_value(obj) = PrintedValue(v)
<1>1. v.data_type \in {"DT_INTEGER", "DT_STRING", "DT_FLOATING", "DT_BOOLEAN"}
  BY DEF Server!IsValue, Server!ToSet, Server!DataType
<1>2. Client!NameOf(Client!I_ValueType, obj.is.type) = ValueTypeOf[v.data_type]
  <2>1. ValueTypeOf[v.data_type] \in ToSet(I_ValueType)
    BY <1>1 DEF ValueTypeOf, I_ValueType, ToSet
  <2> QED BY <2>1, ClientNames DEF HoldsFoundValue
<1>3. CASE v.data_type = "DT_INTEGER"
  BY <1>2, <1>3 DEF ValueTypeOf, HoldsFoundValue, Client!print_value, PrintedValue
<1>4. CASE v.data_type = "DT_STRING"
  BY <1>2, <1>4 DEF ValueTypeOf, HoldsFoundValue, Client!print_value, PrintedValue
<1>5. CASE v.data_type = "DT_FLOATING"
  BY <1>2, <1>5 DEF ValueTypeOf, HoldsFoundValue, Client!print_value, PrintedValue
<1>6. CASE v.data_type = "DT_BOOLEAN"
  BY <1>2, <1>6 DEF ValueTypeOf, HoldsFoundValue, Client!print_value, PrintedValue
<1> QED BY <1>1, <1>3, <1>4, <1>5, <1>6

\* The node that was found is printed.
LEMMA NodePrinted ==
  ASSUME NEW obj, NEW n, Server!IsNode(n), HoldsFoundNode(obj, n)
  PROVE  Client!print_node(obj) = PrintedNode(n)
<1>1. PICK list, values : list = obj.is.properties /\ values = n.values
  OBVIOUS
<1>2. DOMAIN list = DOMAIN values /\ \A i \in DOMAIN values : HoldsFoundProperty(list[i], values[i])
  BY <1>1 DEF HoldsFoundNode, HoldsList
<1>3. ASSUME NEW i \in DOMAIN values
      PROVE  Client!print_property(list[i]) = PrintedValue(values[i])
  <2>1. Server!IsValue(values[i])
    BY <1>1, <1>3 DEF Server!IsNode, Server!IsListOf
  <2> QED BY <1>2, <1>3, <2>1, ValuePrinted DEF HoldsFoundProperty, Client!print_property
<1>4. Client!ListOf(Client!print_property, list) = Map(PrintedValue, values)
  BY <1>2, <1>3 DEF Client!ListOf, Map
<1> QED BY <1>1, <1>4 DEF Client!print_node, PrintedNode, HoldsFoundNode

\* The link that was found is printed, with its directions.
LEMMA LinkPrinted ==
  ASSUME NEW obj, NEW l, Server!IsLink(l), HoldsFoundLink(obj, l)
  PROVE  Client!print_link(obj) = PrintedLink(l)
<1>1. obj.is.type = Code(I_LinkType, LinkTypeFound[l.type]) /\ obj.is.name = ReadText(l.name)
  BY DEF HoldsFoundLink
<1>2. CASE l.type = "LT_DIRECTED_TO"
  <2>1. obj.is.type = Code(I_LinkType, "LT_TO")
    BY <1>1, <1>2 DEF LinkTypeFound
  <2> QED BY <1>1, <1>2, <2>1, ClientNames DEF Client!print_link, PrintedLink
<1>3. CASE l.type = "LT_DIRECTED_FROM"
  <2>1. obj.is.type = Code(I_LinkType, "LT_FROM")
    BY <1>1, <1>3 DEF LinkTypeFound
  <2> QED BY <1>1, <1>3, <2>1, ClientNames DEF Client!print_link, PrintedLink
<1>4. CASE l.type = "LT_DIRECTED_BOTH"
  <2>1. obj.is.type = Code(I_LinkType, "LT_BOTH")
    BY <1>1, <1>4 DEF LinkTypeFound
  <2> QED BY <1>1, <1>4, <2>1, ClientNames DEF Client!print_link, PrintedLink
<1> QED BY <1>2, <1>3, <1>4 DEF Server!IsLink

\* The schema that was found is printed.
LEMMA SchemaPrinted ==
  ASSUME NEW obj, NEW s, Server!IsSchema(s), HoldsFoundSchema(obj, s)
  PROVE  PrintedSchema(Client!print_schema(obj), s)
<1>1. PICK list, attributes : list = obj.is.attributes /\ attributes = s.attributes
  OBVIOUS
<1>2. DOMAIN list = DOMAIN attributes /\ \A i \in DOMAIN attributes : HoldsFoundAttribute(list[i], attributes[i])
  BY <1>1 DEF HoldsFoundSchema, HoldsList
<1>3. PICK p : p = Client!print_schema(obj)
  OBVIOUS
<1>4. p.name = ReadText(s.name) /\ p.attributes = Client!ListOf(Client!print_attribute, list)
  BY <1>1, <1>3 DEF Client!print_schema, HoldsFoundSchema
<1>5. DOMAIN p.attributes = DOMAIN list /\ \A i \in DOMAIN list : p.attributes[i] = Client!print_attribute(list[i])
  BY <1>4 DEF Client!ListOf
<1>6. ASSUME NEW i \in DOMAIN attributes
      PROVE  /\ p.attributes[i].type = ValueTypeOf[attributes[i].data_type]
             /\ \E name \in Server!RunOn(attributes[i].name) : p.attributes[i].name = ReadText(name)
  <2>1. ValueTypeOf[attributes[i].data_type] \in ToSet(I_ValueType)
    BY <1>1, <1>6 DEF Server!IsSchema, Server!IsListOf, Server!IsAttribute, Server!ToSet, Server!DataType,
       ValueTypeOf, I_ValueType, ToSet
  <2>2. HoldsFoundAttribute(list[i], attributes[i]) /\ p.attributes[i] = Client!print_attribute(list[i])
    BY <1>2, <1>5, <1>6
  <2>3. p.attributes[i].type = ValueTypeOf[attributes[i].data_type] /\ p.attributes[i].name = list[i].is.name
    BY <2>1, <2>2, ClientNames DEF HoldsFoundAttribute, Client!print_attribute
  <2> QED BY <2>2, <2>3 DEF HoldsFoundAttribute
<1> QED BY <1>1, <1>2, <1>3, <1>4, <1>5, <1>6 DEF PrintedSchema

\* Three elements, one behind the other
LEMMA Joined ==
  ASSUME NEW a, NEW b, NEW c
  PROVE  (<<a>> \o <<b>>) \o <<c>> = <<a, b, c>>
<1>1. PICK S : a \in S /\ b \in S /\ c \in S
  <2>1. a \in {a, b, c} /\ b \in {a, b, c} /\ c \in {a, b, c}
    OBVIOUS
  <2> QED BY <2>1
<1>2. PICK s, w : s = <<a>> \o <<b>> /\ w = <<c>>
  OBVIOUS
<1>3. s \in Seq(S) /\ Len(s) = 2 /\ s[1] = a /\ s[2] = b
  BY <1>1, <1>2
<1>4. w \in Seq(S) /\ Len(w) = 1 /\ w[1] = c
  BY <1>1, <1>2
<1>5. PICK t : t = s \o w
  OBVIOUS
<1>6. /\ t \in Seq(S) /\ Len(t) = Len(s) + Len(w)
      /\ \A i \in 1 .. Len(s) + Len(w) : t[i] = IF i <= Len(s) THEN s[i] ELSE w[i - Len(s)]
  BY <1>3, <1>4, <1>5, ConcatProperties
<1>7. Len(t) = 3 /\ t[1] = a /\ t[2] = b /\ t[3] = c
  BY ONLY <1>3, <1>4, <1>6
<1>8. PICK u : u = <<a, b, c>>
  OBVIOUS
<1>9. u \in Seq(S) /\ Len(u) = 3 /\ u[1] = a /\ u[2] = b /\ u[3] = c
  BY <1>1, <1>8
<1>10. t = u
  BY <1>6, <1>7, <1>9
<1> QED BY <1>2, <1>5, <1>8, <1>10

\* The element that was found is printed, its parts in their order.
LEMMA ItemPrinted ==
  ASSUME NEW type \in Generated, NEW f, IsFound(type, f), NEW obj, HoldsItem(obj, type, f)
  PROVE  PrintedItem(Client!print_result_item(obj), type, f)
<1>1. CASE type = "SCHEMA_GET_ALL"
  <2>1. "schema" \in obj.set /\ HoldsFoundSchema(obj.is.schema, f)
    BY <1>1 DEF HoldsItem
  <2>2. Client!print_result_item(obj) = <<Client!print_schema(obj.is.schema)>>
    BY <2>1 DEF Client!print_result_item
  <2>3. PrintedSchema(Client!print_schema(obj.is.schema), f)
    BY <1>1, <2>1, SchemaPrinted DEF IsFound
  <2> QED BY <1>1, <2>2, <2>3 DEF PrintedItem
<1>2. CASE type = "NODE_MATCH"
  <2>1. obj.set = {"return_items", "first"} /\ HoldsFoundNode(obj.is.first, f)
    BY <1>2 DEF HoldsItem
  <2>2. Client!print_result_item(obj) = <<Client!print_node(obj.is.first)>>
    <3>1. PICK one : one = <<Client!print_node(obj.is.first)>>
      OBVIOUS
    <3>2. (one \o <<>>) \o <<>> = one
      BY <3>1
    <3> QED BY <2>1, <3>1, <3>2 DEF Client!print_result_item
  <2>3. Client!print_node(obj.is.first) = PrintedNode(f)
    BY <1>2, <2>1, NodePrinted DEF IsFound
  <2> QED BY <1>2, <2>2, <2>3 DEF PrintedItem
<1>3. CASE type = "MATCH"
  <2>1. /\ obj.set = {"return_items", "first", "link", "second"}
        /\ HoldsFoundNode(obj.is.first, f.first) /\ HoldsFoundNode(obj.is.second, f.second)
        /\ HoldsFoundLink(obj.is.link, f.link)
    BY <1>3 DEF HoldsItem
  <2>2. PICK a, b, c : /\ a = Client!print_node(obj.is.first) /\ b = Client!print_link(obj.is.link)
                       /\ c = Client!print_node(obj.is.second)
    OBVIOUS
  <2>3. Client!print_result_item(obj) = <<a, b, c>>
    <3>1. (<<a>> \o <<b>>) \o <<c>> = <<a, b, c>>
      BY Joined
    <3> QED BY <2>1, <2>2, <3>1 DEF Client!print_result_item
  <2>4. a = PrintedNode(f.first) /\ b = PrintedLink(f.link) /\ c = PrintedNode(f.second)
    BY <1>3, <2>1, <2>2, NodePrinted, LinkPrinted DEF IsFound
  <2> QED BY <1>3, <2>3, <2>4 DEF PrintedItem
<1> QED BY <1>1, <1>2, <1>3 DEF Generated

\* What an object holds of a result is printed.
LEMMA ResultPrinted ==
  ASSUME NEW type, NEW res \in ResultsOf(type), type = "SCHEMA_GET" => res.schema # Null,
         NEW obj, HoldsResult(obj, type, res)
  PROVE  /\ Client!print_result(obj).message = Server!RESULT_CODES[res.status + 1]
         /\ Printed(Client!print_result(obj).items, type, res)
<1>1. PICK p, u : p = Client!print_result(obj) /\ u = obj.is.result.is
  OBVIOUS
<1>2. p.message = Server!RESULT_CODES[res.status + 1]
  BY <1>1 DEF Client!print_result, HoldsResult
<1>3. Client!NameOf(Client!I_QueryResultType, obj.is.type) = res.type
  <2>1. res.type \in ToSet(I_QueryResultType)
    BY FoundInDatabase DEF ToSet, I_QueryResultType
  <2> QED BY <2>1, ClientNames DEF HoldsResult
<1>4. /\ res.type = "RESULT_SCHEMA" => p.items = <<<<Client!print_schema(u.schema)>>>>
      /\ res.type = "RESULT_GENERATOR" => p.items = Client!print_items(u.items)
      /\ res.type = "RESULT_NONE" => p.items = <<>>
  BY <1>1, <1>3 DEF Client!print_result
<1>5. CASE type = "SCHEMA_GET"
  <2>1. HoldsFoundSchema(u.schema, res.schema) /\ Server!IsSchema(res.schema) /\ res.type = "RESULT_SCHEMA"
    BY <1>1, <1>5, FoundInDatabase DEF HoldsResult
  <2>2. PICK s : s = Client!print_schema(u.schema)
    OBVIOUS
  <2>3. PrintedSchema(s, res.schema)
    BY <2>1, <2>2, SchemaPrinted
  <2>4. p.items = <<<<s>>>>
    BY <1>4, <2>1, <2>2
  <2>5. Len(p.items) = 1 /\ Len(p.items[1]) = 1 /\ p.items[1][1] = s
    BY <2>4
  <2>6. Printed(p.items, type, res)
    BY <1>5, <2>3, <2>5 DEF Printed, Generated
  <2> QED BY <1>1, <1>2, <2>6
<1>6. CASE type \in Generated
  <2>1. /\ DOMAIN u.items = DOMAIN res.generator
        /\ \A i \in DOMAIN res.generator : HoldsItem(u.items[i], type, res.generator[i])
    BY <1>1, <1>6 DEF HoldsResult, HoldsList
  <2>2. res.type = "RESULT_GENERATOR" /\ \A i \in DOMAIN res.generator : IsFound(type, res.generator[i])
    BY <1>6, FoundInDatabase
  <2>3. PICK items : items = p.items
    OBVIOUS
  <2>4. DOMAIN items = DOMAIN u.items /\ \A i \in DOMAIN u.items : items[i] = Client!print_result_item(u.items[i])
    BY <1>4, <2>2, <2>3 DEF Client!print_items, Client!ListOf
  <2>5. \A i \in DOMAIN items : PrintedItem(items[i], type, res.generator[i])
    BY <1>6, <2>1, <2>2, <2>4, ItemPrinted
  <2>6. type # "SCHEMA_GET"
    BY <1>6 DEF Generated
  <2>7. Printed(items, type, res)
    BY <1>6, <2>1, <2>4, <2>5, <2>6 DEF Printed
  <2> QED BY <1>1, <1>2, <2>3, <2>7
<1>7. CASE type \notin Generated \union {"SCHEMA_GET"}
  <2>1. p.items = <<>>
    BY <1>4, <1>7, FoundInDatabase
  <2> QED BY <1>1, <1>2, <1>7, <2>1 DEF Printed
<1> QED BY <1>5, <1>6, <1>7

-----------------------------------------------------------------------------
(* The conversation *)

\* The object that the server reads of a query.
ObjectOf(q) == QueryOf(send_execute(Client!convert_query(q)))

\* What is on its way at each stage: the message of what was typed, an answer
\* to what the server made of it, the object that was read of that answer.  A
\* server has ended only of a text without letters or a missing schema.
ConversationInv ==
    /\ stage \in {"prompt", "waiting", "answered", "shown", "ended"}
    /\ stage # "prompt" => typed \in Queries
    /\ stage = "waiting" => wire = send_execute(Client!convert_query(typed))
    /\ stage \in {"waiting", "answered"} => result = New(I_QueryResult)
    /\ stage \in {"answered", "shown"} =>
          /\ executed \in Server!convert_query(ObjectOf(typed))
          /\ found \in ResultsOf(executed.type)
          /\ \E given \in Server!convert_result(found, executed.type) :
                /\ wire = ReplyWith(given)
                /\ stage = "shown" => result = recv_execute(New(I_QueryResult), ReplyWith(given))
    /\ stage = "shown" => shown = Client!print_result(result)
    /\ stage = "ended" => "" \in Given(typed) \/ typed.type = "SCHEMA_GET"

\* The object that the server reads holds the query that was typed.
LEMMA TypedIsHeld ==
  ASSUME NEW q \in Queries
  PROVE  Client!IsQuery(q) /\ HoldsQuery(ObjectOf(q), q)
BY QueryIsHeld, ConversationAssumption DEF ConversationAssumption, ObjectOf

\* The invariant holds at first.
LEMMA ConversationInitInv == ConversationInit => ConversationInv
BY DEF ConversationInit, ConversationInv

\* Every step keeps it.
LEMMA ConversationNextInv ==
  ConversationInv /\ [ConversationNext]_conversation => ConversationInv'
<1> SUFFICES ASSUME ConversationInv, [ConversationNext]_conversation
             PROVE  ConversationInv'
  OBVIOUS
<1>1. CASE Ask
  <2>1. /\ stage' = "waiting" /\ typed' \in Queries
        /\ wire' = send_execute(Client!convert_query(typed')) /\ result' = New(I_QueryResult)
    BY <1>1 DEF Ask
  <2> QED BY <2>1 DEF ConversationInv
<1>2. CASE Serve
  <2>1. /\ stage = "waiting" /\ stage' = "answered" /\ typed' = typed /\ result' = result
        /\ executed' \in Server!convert_query(QueryOf(wire)) /\ found' \in ResultsOf(executed'.type)
        /\ \E given \in Server!convert_result(found', executed'.type) : wire' = ReplyWith(given)
    BY <1>2 DEF Serve
  <2>2. typed \in Queries /\ QueryOf(wire) = ObjectOf(typed) /\ result = New(I_QueryResult)
    BY <2>1 DEF ConversationInv, ObjectOf
  <2> QED BY <2>1, <2>2 DEF ConversationInv
<1>3. CASE EndServer
  <2>1. stage = "waiting" /\ stage' = "ended" /\ typed' = typed
    BY <1>3 DEF EndServer
  <2>2. typed \in Queries /\ QueryOf(wire) = ObjectOf(typed)
    BY <2>1 DEF ConversationInv, ObjectOf
  <2>3. \/ Server!convert_query(ObjectOf(typed)) = {}
        \/ \E q \in Server!convert_query(ObjectOf(typed)) : \E r \in ResultsOf(q.type) :
              Server!convert_result(r, q.type) = {}
    BY <1>3, <2>2 DEF EndServer
  <2>4. CASE Server!convert_query(ObjectOf(typed)) = {}
    <3>1. "" \in Given(typed)
      BY <2>2, <2>4, TypedIsHeld, ServerQuery
    <3> QED BY <2>1, <2>2, <3>1 DEF ConversationInv
  <2>5. CASE \E q \in Server!convert_query(ObjectOf(typed)) : \E r \in ResultsOf(q.type) :
               Server!convert_result(r, q.type) = {}
    <3>1. PICK q \in Server!convert_query(ObjectOf(typed)) : \E r \in ResultsOf(q.type) :
             Server!convert_result(r, q.type) = {}
      BY <2>5
    <3>2. q.type = "SCHEMA_GET"
      BY <3>1, AnswerGiven
    <3>3. q.type = typed.type
      BY <2>2, <3>1, TypedIsHeld, ServerQuery
    <3> QED BY <2>1, <2>2, <3>2, <3>3 DEF ConversationInv
  <2> QED BY <2>3, <2>4, <2>5
<1>4. CASE Show
  <2>1. /\ stage = "answered" /\ stage' = "shown" /\ typed' = typed /\ wire' = wire
        /\ executed' = executed /\ found' = found
        /\ result' = recv_execute(result, wire) /\ shown' = Client!print_result(result')
    BY <1>4 DEF Show
  <2>2. /\ typed \in Queries /\ result = New(I_QueryResult)
        /\ executed \in Server!convert_query(ObjectOf(typed)) /\ found \in ResultsOf(executed.type)
        /\ \E given \in Server!convert_result(found, executed.type) : wire = ReplyWith(given)
    BY <2>1 DEF ConversationInv
  <2> QED BY <2>1, <2>2 DEF ConversationInv
<1>5. CASE NextTurn
  BY <1>5 DEF NextTurn, ConversationInv
<1>6. CASE UNCHANGED conversation
  BY <1>6 DEF conversation, ConversationInv
<1> QED BY <1>1, <1>2, <1>3, <1>4, <1>5, <1>6 DEF ConversationNext

\* In every state of a conversation what is on its way comes from what was typed
\* and what was found.
LEMMA ConversationInvariant == ConversationSpec => []ConversationInv
BY ConversationInitInv, ConversationNextInv, PTL DEF ConversationSpec

\* The server executes the query that was typed, if its conditions are simple
\* and its names have letters, through both converters and the generated code.
THEOREM QueryArrivesHolds == ConversationSpec => []QueryArrives
<1>1. ASSUME ConversationInv PROVE QueryArrives
  <2> SUFFICES ASSUME stage \in {"answered", "shown"}, "" \notin Looked(typed),
                      \A c \in ConditionsOf(typed) : Simple(c)
               PROVE  executed = Says(typed)
    BY DEF QueryArrives
  <2>1. typed \in Queries /\ executed \in Server!convert_query(ObjectOf(typed))
    BY <1>1 DEF ConversationInv
  <2> QED BY <2>1, TypedIsHeld, ServerQuery
<1> QED BY <1>1, ConversationInvariant, PTL

\* A message loses nothing and confuses nothing, in both directions.
THEOREM MessagesSurviveHolds == ConversationSpec => []MessagesSurvive
<1>1. ASSUME ConversationInv PROVE MessagesSurvive
  <2>1. ASSUME stage = "waiting" PROVE HoldsQuery(QueryOf(wire), typed)
    <3>1. typed \in Queries /\ QueryOf(wire) = ObjectOf(typed)
      BY <1>1, <2>1 DEF ConversationInv, ObjectOf
    <3> QED BY <3>1, TypedIsHeld
  <2>2. ASSUME stage = "shown" PROVE HoldsResult(result, executed.type, found)
    <3>1. /\ found \in ResultsOf(executed.type)
          /\ \E given \in Server!convert_result(found, executed.type) :
                result = recv_execute(New(I_QueryResult), ReplyWith(given))
      BY <1>1, <2>2 DEF ConversationInv
    <3> QED BY <3>1, AnswerArrives
  <2> QED BY <2>1, <2>2 DEF MessagesSurvive
<1> QED BY <1>1, ConversationInvariant, PTL

\* The client prints what the query found and the message of its status.
THEOREM ResultShownHolds == ConversationSpec => []ResultShown
<1>1. ASSUME ConversationInv PROVE ResultShown
  <2> SUFFICES ASSUME stage = "shown"
               PROVE  /\ shown.message = Server!RESULT_CODES[found.status + 1]
                      /\ Printed(shown.items, executed.type, found)
    BY DEF ResultShown
  <2>1. PICK given \in Server!convert_result(found, executed.type) :
          result = recv_execute(New(I_QueryResult), ReplyWith(given))
    BY <1>1 DEF ConversationInv
  <2>2. found \in ResultsOf(executed.type) /\ shown = Client!print_result(result)
    BY <1>1 DEF ConversationInv
  <2>3. HoldsResult(result, executed.type, found)
    BY <2>1, <2>2, AnswerArrives
  <2>4. ASSUME executed.type = "SCHEMA_GET" PROVE found.schema # Null
    BY <2>1, <2>4 DEF Server!convert_result, Server!get_schema
  <2> QED BY <2>2, <2>3, <2>4, ResultPrinted
<1> QED BY <1>1, ConversationInvariant, PTL

\* Only a text without letters that is given, or a schema that does not exist,
\* ends the server in a conversion.
THEOREM EndsOnlyOnBlankHolds == ConversationSpec => []EndsOnlyOnBlank
<1>1. ASSUME ConversationInv PROVE EndsOnlyOnBlank
  BY <1>1 DEF ConversationInv, EndsOnlyOnBlank
<1> QED BY <1>1, ConversationInvariant, PTL

=============================================================================
