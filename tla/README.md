# A TLA+ model of graph-database

`graph-database` is a small graph database in C: a client that parses queries
written in a Gremlin dialect, a server that receives them over Apache Thrift,
and a library (`db_lib`) that keeps schemas, nodes and links in one file. This
directory holds TLA+ modules for it, the TLC configurations that check them,
and theorems about the allocator, the lists, the graph, crashes, what queries mean,
their way through the layers and the processes, with proofs for TLAPS. `PROJECT.json` lists the
runs, the source lines behind every definition, the hazards of the code and what the runs found.

## 1. The system

| component | state | operations |
|---|---|---|
| block allocator (`block_heap.c`, `database_manager.c`) | binary heap of free blocks in memory, blocks in the file, length of the file | `database_get_insertion_block` (split the top, take it whole, or append), `database_free_blocks`, `database_open`, `database_close` |
| blocks in the file (`block_serialize.c`, `util.c`, `crud_util.h`) | header (`is_free`, `size`, `capacity`) and content of each block | write and read a block; overwrite the `next` or `prev` pointer that ends a block |
| schemas (`schema_crud.c`, `attribute_crud.c`) | singly linked list, its ends in the database header | create, find by name, list, delete |
| nodes (`node_crud.c`, `value_crud.c`) | doubly linked list; a value block per attribute, a string block per text | create, match, update, delete |
| links (`link_crud.c`) | doubly linked list; a name block per link, pointers to two nodes | create for all pairs of two vectors, match, delete |
| query executor (`query_manager.c`) | none between queries; vectors of matched nodes and links during one | one `execute_` function per type of query |
| conditions and values (`value_model.c`, `string_model.c`) | none | comparison of a stored value with a condition |
| parser (`parser.y`), client and server conversion (`client_convert.c`, `server_convert.c`) | none between queries | text → tree → Thrift objects → query of `db_lib`, and a result → Thrift objects → what is printed |
| Thrift interface (`gen-c_glib/`) | the members of an object that were set; the object for an answer | make, write and read an object of each class; send and serve a call |
| client and server processes (`client.c`, `server.c`) | socket; one database connection per query | read a query, send it, execute it, print the result |

**How they interact.** The client parses a query and converts its tree into
Thrift objects; the generated code writes them to the socket and reads them into
objects of the server. The server converts these into a `Query`, opens the database,
executes the query, converts the result and closes the database; the answer
goes back the same way and is read into the object that the client gave. Thrift's simple
server takes one client at a time and one request after the other, so no two
queries ever run at once. Nothing is locked, and nothing needs to be. A client
stays connected from its start to its end; the others wait to be accepted. Every entity
is written by `database_get_insertion_block` + `block_to_file`; entities are
chained by pointers that are changed in place; the six ends of the three lists
are in the database header, written after each change.

**What is hard.** Not concurrency but long histories: free blocks split and
merge with batches of deletions; headers that exist only in memory when the
database is closed; queries that work through a vector of copies while the list
they came from changes under them; addresses that are reused while something still
refers to them; comparisons on memory nobody wrote; and a condition that is
translated four times before a node is compared with it, over enumerations that
agree in their numbers only. A creation or a deletion is several writes to the file,
between which the process may end. Between the processes:
a server that ends in the middle of a query, of which the file may hold a part, and
clients that wait for it; no client ever connects again.

**What makes each component correct.** The allocator: no two blocks share a
byte, none is lost, blocks in use stay, the file grows only when it must, and a
database that is opened again has the free blocks it had. The lists: they hold
every entity in order of creation, read the same from either end, and the header
names both ends; a file that is opened after its process ended is such a list
with all that was completed. Ownership: every block in use has one owner, and is given back
with it and only then. The graph: a match on a schema finds its nodes and no others, and a
match on links shows the nodes they were created for. Queries: exactly the entities that are
meant are found, changed or dropped, values arrive as they were written, and
what is printed is what was found.
The processes: a query is neither lost nor done twice while its connection lives,
what was answered is in the file, and who waits is answered or told of a failure.

## 2. The modules

| module | models | composes |
|---|---|---|
| `BlockStore` | what the allocator promises (abstract): heap as a set | |
| `BlockHeap` | `block_heap.c` as operators on the array of the heap | |
| `HeapFile` | the array and the file, opening and closing; implements `BlockStore` | `BlockHeap`, `BlockStore` |
| `EntityList` | lists in the file: change a pointer, iterate, fetch into a vector, the shape of a whole list | |
| `EntitySeq` | what the list of nodes or of links promises (abstract): a sequence | |
| `NodeStore` | nodes, values and texts; implements `EntitySeq` | `EntityList`, `EntitySeq` |
| `SchemaStore` | schemas with names and attributes | `EntityList` |
| `LinkStore` | links beside a sequence of nodes; implements `EntitySeq` | `EntityList`, `EntitySeq` |
| `GraphStore` | schemas, nodes and links over one set of addresses, as the `execute_` functions change and read them | |
| `CrashStore` | the list of nodes or of links as single writes to the file, and a process that ends between them | `EntityList` |
| `QueryPath` | parser lists, conversions, comparison, update of values | |
| `LinkPath` | the parts of a match, and whether a link is found | `QueryPath` |
| `QueryMeaning` | one query on one node or link, answered by the operators above, and what it means | `LinkPath` |
| `ThriftTypes` | enumerations and classes of the generated code | |
| `ThriftObjects` | making, sending and reading an object, the read of each class; the call and the reply | `ThriftTypes` |
| `ClientConvert`, `ServerConvert` | every function of the two conversions, and the structures they are given | `ThriftObjects` |
| `MessageContent` | what a query says, what objects have to hold of it or of a result, and what is printed, in words of its own | `ClientConvert`, `ServerConvert` |
| `Conversation` | a query through all layers and its answer back | `MessageContent` |
| `QueryService` | clients, the simple server, one database connection per query, processes that end | |

| module with proofs | theorems about | uses |
|---|---|---|
| `BlockStore_proofs` | `BlockStore` | |
| `EntityList_proofs` | numbers, functions and sequences; `EntityList`: chains of blocks as sequences | |
| `HeapFile_proofs` | the operators of `BlockHeap`, and `HeapFile` | `BlockStore_proofs`, the lemmas on data of `EntityList_proofs` |
| `LinkStore_proofs`, `SchemaStore_proofs` | the module of that name | `EntityList_proofs` |
| `NodeStore_proofs` | `NodeStore`, and `CrashStore`, whose list is that of the nodes or of the links | `EntityList_proofs` |
| `GraphStore_proofs` | `GraphStore` | the lemmas on data of `EntityList_proofs` |
| `QueryService_proofs` | `QueryService`; `QueryMeaning`, with the operators of `QueryPath` and `LinkPath`; `Conversation`, with the generated classes and both conversions | the lemmas on data of `EntityList_proofs` |

The modules named `MC…` choose values of constants for TLC. `MCNodeStore`, `MCSchemaStore`,
`MCLinkStore`, `MCGraphStore` and `MCCrashStore` add the symmetry of the addresses; `MCConversation` and
`MCQueryPath` list the queries. `MCHeapFile` has, besides, the assumption
`HeapOperations`: each operation of `block_heap.c` on every array of at most seven nodes
keeps the order of the heap and its nodes (TLC evaluates it before the run, and
`HeapFile_proofs` proves it for arrays of any length).

**Layers.** `HeapFile` is proved to implement `BlockStore`; `NodeStore`,
`SchemaStore` and `LinkStore` do not model the allocator but use what
`BlockStore` guarantees: an insertion is given *some* block that is not in use
(`NoOverlap`), whose content nobody else changes (`LiveStable`). In the same way
`LinkStore` has the nodes as the sequence that `NodeStore` is shown to implement,
`GraphStore` has a query as one step on nodes and links whose lists `NodeStore` and `LinkStore` have shown whole
at its end, and `QueryService` has it as one entry of what is stored, that may
be cut short. `CrashStore` is the list of the two former modules again, one write at a time. `Conversation`
and `QueryPath` share the conversions: the former has all of them and whole objects, the latter
has those of conditions and properties with the comparison behind them.

**State and code.**

* `BlockStore`: `live` are the blocks handed out and not freed since (no variable
  of the program: its callers hold their pointers); `pool` is
  `buffer_manager->free_blocks`; `eof` what `database_get_end_pointer` returns.
  `OccupySplit` and `OccupyWhole` are the two cases of `block_heap_occupy_max`,
  `Append` the rest of `database_get_insertion_block`, `FreeBlocks` is
  `database_free_blocks`. Amounts are taken modulo `M` (2^32 in the program):
  the subtraction from `size` may wrap.
* `HeapFile`: `heap` is the vector of the heap, in its order; `file` says, for every
  address behind the database header, whether a header was written there and
  which; `owned` are the pointers that callers hold. `WriteBlock` is the end of
  every insert function. `Reopen` is `database_close` and `database_open`: `Scans`
  follows the loop of `database_init` over whatever it takes for headers.
* `NodeStore`, `SchemaStore`, `LinkStore`: `first` and `last` are fields of the
  database header; `node`, `schema` and `link` map the address of a block to its
  content; `used` are the blocks that are not free. `todo` is what is left of the
  running query: the vector it fetched, one element per step. Its elements carry
  the copies that the vector holds, so that a code that trusted them could be told
  apart from one that reads again (`Reread`).
* `GraphStore`: `schemas` are those that an iteration reaches, `reaches` whether
  `schema_last` is their end; `file` is what was last written at an address, which
  stays there when the block is freed, and is what `link_next` reads at the address
  of a node. `born` numbers the entities. The program has no such number; the properties need
  it to tell a node from a later one at its address. `Pointers` is the pointer
  that `schema_show` leaves, any address if the schema does not exist. `DropSchema` is
  `execute_schema_delete`, `Members` is `update_node_condition`; conditions on values
  choose any subset of the members when nodes are deleted.
* `CrashStore`: `writes` holds the writes left of the running query, in the order of
  the code (`Inserting`, `Deleting`, `Updating`); two of them are loops, and stay at the head of `writes` for
  as many steps as there are blocks. Each step is an `fwrite` behind an
  `fseek`, which sends what was buffered before, so that the file always holds a prefix of the writes. The
  `parts` of a node are the blocks that `create_node` inserts before it: for each attribute a value, and before the value
  of a text the string it leads to (`Layouts`; `WritePart` writes one). `Free` gives back one block at a time,
  in the order of the array that `delete_nodes` fills (`BlocksToFree`), and `nth` is where it is. `disk` and `mem` are the
  header in the file and `buffer_manager`'s. `Cut` ends the process and opens the
  database again.
* `Conversation`: `typed` is the tree of the parser, `wire` the message, `executed` the
  `Query` of `db_lib`, `found` its result, `result` the client's object for the
  answer, `shown` what it prints. An object of a generated class is its members and
  those that were set. `ThriftTypes` has of each class what `instance_init`, `write` and
  `read` say of each member (its value at first; the number and type it is sent with, always or if it was set; the
  number and type that are read into it). On the wire an object stands for the struct that is written of it:
  `Sent` are the members that `write` sends, `Fields` those of them that `read` takes for a
  member, and `Read` goes through an object with the `read` function of what each member is, into
  what is there: a struct is filled, a list is appended to. `IsQuery` in `ClientConvert`
  and `IsSchema`, `IsNode`, `IsLink` in `ServerConvert` are the structures that the conversions are given. Predicates
  nest as deeply as the functions of each layer are stacked: an `and` or an `or` may be in a `has`, and in
  it once more. A conversion of the server is a set of outcomes, since it
  meets memory nobody wrote; the empty set is the end of the server.
* `QueryPath` and `LinkPath` have no state. `QueryMeaning` chooses a schema, a node and a
  query (for a match also a link and its second node), and makes the one step
  that answers it; beside that it has what queries mean, in its own words (`Meant`, `MeantBetween`, `LastFor`). `link_next` decides on each link by itself, and goes on in the list
  whether it returns or skips one, so that one link stands for all.
* `QueryService`: `pc` is where a client is in its loop (`client.c:57-81`), `sock` what
  became of its connection, `srv` where the server is: it accepts, reads a query, and
  then makes the calls of `example_query_svc_handler_execute` one by one. `request`
  and `reply` are bytes on their way. A query is its type; what it does to the
  contents is in the modules above, here it is an element of `stored` once the
  database is closed. `file` tells the states of the database file apart that the
  order of calls depends on: `absent`, `bare` (created, no header yet), `sound`,
  and `damaged` (a part of a query, or a first block where the header goes).
  `Crash` are the ends that the server brings about itself: it uses a connection
  that was never opened, reads a schema that does not exist, or writes to a client
  that has gone. `Kill` ends it from outside. Both leave every client's connection
  dead. A text that is no query ends the client, since the query is then a
  SCHEMA_CREATE without a schema.

An operator whose name extends the name of the next one (`CanSplitNoHeader`
before `CanSplit`) is that operator with a slip in it. No action uses it. Each
property of a passing run is broken by one of them, as `PROJECT.json` lists under
"mutants".

## 3. The runs

### Passing

| run | bounds | what it shows |
|---|---|---|
| `block_store` | header of 2 addresses, file of 22, requests 1, 2, 4, amounts mod 64 | `TypeOK`, `NoOverlap`, `Covered`, `WasteBounded`, `LiveStable`, `GrowsOnlyIfFull` |
| `heap_file` | header of 1 address, file of 13, requests 1, 2, 4, ≤ 2 blocks freed at once | `HeapOrdered`, `FileAgrees`, `ReopenRestores`, refinement of `BlockStore` (`StoreSpec`) |
| `node_store` | 6 blocks, ≤ 2 attributes | `ListSound`, `OwnedOnce`, refinement of `EntitySeq` (`EntitiesSpec`) |
| `schema_store` | 7 blocks, ≤ 1 attribute, names of which one begins the other | `ListEnds`, `OwnedOnce`, `OnlyTailDropLosesEnd` |
| `link_store` | 7 blocks, ≤ 2 nodes at a time, 2 names | `ListSound`, `OwnedOnce`, refinement of `EntitySeq` (`EntitiesSpec`) |
| `graph_store` | 3 addresses, 6 entities, names of which one begins the other | `MembersMatched`, `LinkedAsCreated` |
| `crash_store` | 7 blocks, ≤ 2 attributes of a node, ≤ 2 entities deleted by a query, ≤ 3 ends | `Recoverable`, `CompletedReachable`, `LeakBounded` |
| `query_path` | 2 attributes, ≤ 3 terms of an and or or, 8 values, floats of 3 digits | `NothingElseFound`, `NothingMissed`, `PairExact`, `LinksNotMissed`, `LinksExact`, `ValuesAsWritten` |
| `query_service` | 2 clients, 2 queries each of 3 types, the server ends ≤ 2 times | `TypeOK`, `InFlight`, `AnsweredIsStored`, `StoredAsTyped`, `OnlyEndsDamage`, `NobodyWaitsForever` |
| `conversation` | queries of all types, values and texts of each kind and without letters, results of ≤ 2 elements | `QueryArrives`, `MessagesSurvive`, `ResultShown`, `EndsOnlyOnBlank` |

*What the properties say.* Each is stated in words above its definition. In short:

* Allocator: no two blocks share an address, every address belongs to a block, padding
  stays below a header, blocks in use do not move, and the file grows only when no free block fits.
  The array in memory stays a heap, agrees with the headers in the file, and is the
  same after reopening.
* Lists: whole from either end at every step of a query that works on several
  entities, every block in use with one owner, and to an observer a sequence
  that grows at its end. Schemas are less: their list ends and holds each once, and
  only the drop of the last of several makes the header lose its end.
* Graph: whatever was dropped and put in its place, a match on a schema finds all nodes
  created in it, and no node of another schema that is there; a match on links shows the
  two nodes of each link, unless they were deleted.
* Crashes: wherever a process ends, the next one meets every entity that was completed and is not
  to be deleted (`CompletedReachable`). One that ends outside of the windows that `Window` names leaves a
  file whose list holds nothing but whole entities of its kind. It costs the blocks of one entity at most: for a
  node with *n* attributes up to 2*n* + 1 (a value and a text for each, and the node), two for a link. A creation that is
  cut short before its pointer was written loses those that it had inserted.
* Queries: what a condition, a pattern or a list of properties means is what is found
  and stored; a query, through all layers, is executed as it was typed and its result printed as it was found.
* Processes: see the end of section 1.

*Why the bounds are enough.* `block_store`: with a header of 2 the free block may
be smaller than, equal to or larger than a request plus a header, and the file
has room for four blocks of the smallest size and more, so that whole blocks come back with a size below their capacity and are split
again, which is when `size` wraps. `heap_file` uses a header of 1 address, since
an address there is a cell that holds a header or something else, and the
interesting cases are the same; it has no two-address header to be cut in half.
Seven nodes in `HeapOperations` make three full levels, each with a left and a right child,
and three sizes make equal and unequal neighbours. The lists need three elements:
one at either end and one in the middle. Seven blocks hold one node and three links, or
two nodes and two links. `graph_store`: a schema, a node and a link take all three
addresses, and three more entities are enough to put another kind of entity at the
address of each one that is dropped; two schemas at a time leave room for a node of either.
`crash_store`: seven blocks are three nodes of a number each and one block over, three links and one over,
or a node of two texts and one of a number beside it. Two attributes make every order of texts and numbers, and a node that
has blocks before and behind the one that is replaced or given back;
deletions of two meet neighbours; after three ends there may be half-created entities from two
ends when the third one comes. More attributes are left to the proof. Addresses are interchangeable (these modules compare
them for equality only), so their permutations are a symmetry; none of these runs
has a liveness property (`query_service` has one and uses no symmetry). `query_path`: three terms are the first
number for which the middle of a list differs from its ends. Links are joined with
the patterns `V`, `V` and `V`, `V`, `where`, each with conditions of one or two terms, for
every outcome of the four unset flags. `query_service`: two
clients are one that is served and one that waits in the backlog; two queries
make an order, and let the second one meet the file that the first one left; two
ends of the server reach a restart and an end after it. The three types are
one that changes the database and gives a bare file its first block, one that may
end the server while it is converted, and one that changes, may end the server,
and writes the header of a bare file. `LINK_DELETE` is also the first type
behind the entry that is commented out of the table of executors. `conversation`: a function of the conversions treats
each member by itself, so that one query for each value of a member (every comparison, every
kind of value, every direction, each flag, a text with and without letters) is enough, and lists need two elements
for their order. The client goes round its loop, so an answer follows any other.

The bounds by name: `Limit` (length of the file), `MaxFreed`, `MaxValues`,
`MaxAttrs`, `MaxNodes`, `MaxBorn`, `MaxAttributes`, `MaxGone`, `MaxCuts`, `MaxFound`, `MaxTerms`, `MaxLines`, `MaxEnds`, the set `Ptr`, and `Room`, which keeps a query
from starting if its links would not fit into `Ptr`.

*Garbage.* What a stale header looks like is a parameter of `HeapFile`. In
`heap_file` it is empty: the database is then opened again only when each header
that the scan meets was written (`Reopen` is disabled otherwise), and what is shown is
that the file then holds all there is to know. The properties of `heap_file` say nothing of
a database that is closed while a remainder has no header, which the server does after any query that splits a block: that
history is the one of `heap_misread`, which has the text `aaaa…` and zeros.

### Violations

Each is a statement of the repository that the code does not keep, found by TLC.

| run | property | what happens |
|---|---|---|
| `heap_misread` | `HeapHoldsFreeBlocks` | a remainder has no header in the file; after reopening the heap covers blocks in use |
| `drops_only_matched` | `DropsOnlyMatched` | `dropE` ignores the conditions on nodes |

The models contain more of what a reader may not expect, and the properties of
the passing runs are worded around it:

* `BlockStore`: the recorded size of a remainder wraps around below zero when the
  split block held less than its capacity (`block_heap.c:136`): a block of 4 is given back, handed out for 2,
  given back, and split for 1. `WasteBounded` says that no such size gets to a block in use. The heap is ordered by
  size while the capacity of its top decides (`block_heap.c:25` and `112`), so the
  file grows although a free block fits, which `db_lib/README.md:360-361` excludes: a block of 2 that was handed out
  for 1 is not looked at while one of 1 is the top, and 2 are asked for.
  `GrowsOnlyIfFull` is for free blocks whose size is their capacity. No run has the statements without these
  conditions.
* `SchemaStore`: dropping the last schema of several clears `schema_last`; the next one
  created is in no list (`OnlyTailDropLosesEnd` says that nothing else does this).
  Asked for `ab`, `schema_show` returns the schema `a` if it comes first.
* `LinkStore`: a deleted node leaves its links, and the address of it is reused;
  the theorem `OnlyDropsDangle` says that nothing else does that.
* `GraphStore`: nodes of a dropped schema become nodes of the schema that gets its
  address. A node that is created in a schema that does not exist gets whatever pointer
  was in memory, and such a name in a condition can name any schema. A match on links shows at
  the place of a deleted node what was written there since. `MembersMatched` and `LinkedAsCreated` are worded for the
  nodes and schemas that are there.
* `CrashStore`: `delete_nodes` gives back a node before it closes the list around it,
  and `value_update` gives back a text before the pointer to it is changed: an end
  in between leaves a file that leads to free blocks. Between the writes of `CloseAround` the two
  neighbours disagree, and until the header is written it may name a deleted entity. These are the windows. A link or node whose
  creation was cut short behind the last one is overwritten by the next creation, unless the
  last one is deleted first: then the header takes a wrong end (`hurt`). `Recoverable` and `LeakBounded` are about
  files that are not hurt; of the windows and of the wrong end it is `CompletedReachable` that says what is left, and of
  what a later query makes of such a file nothing is said.
* `QueryPath`: of three terms of an `and` the second is lost (`parser.y:424`;
  `PairExact` is about two). `ge` and `le` are strict (`server_convert.c:178`; `NothingMissed` and
  `PairExact` are about `gt`, `lt`, `eq`); an `or` finds every node of the schema
  (`server_convert.c:230`; `NothingElseFound` is about a `has` alone); an update of an integer
  with a value whose bytes are the float 2.0 stores 2 (`value_crud.c:75`;
  `ValuesAsWritten` is about every other integer, and about floats that hold the value).
* `LinkPath`: a match may ignore the condition on its second node, its where, its name and its
  direction, because nobody sets their `is_null` (`parser_lib/query.c:110-132`);
  `LinksExact` is about memory that held zeros, `LinksNotMissed` about any. A where
  has one term that counts, on the first node, and `V()` without a schema drops the
  predicates behind it.
* `Conversation`: a text without letters that is given (the name of a schema, an attribute or a link, a value)
  arrives as null, and its `strlen` ends the server for all clients; so does a
  schema that does not exist. A name without letters in a condition becomes no name, and every node
  is accepted. `QueryArrives` leaves out such names, and conditions that are an `or`, or nested.
* `QueryService`: a query whose client was told that it failed may be in the file; a
  file that was created without a header is damaged by the first query that puts
  a block into it, so `AnsweredIsStored` is about files that are not damaged.

### What the models leave out

* `GraphStore`: the order of nodes and links (they are sets here; a vector of links to
  create can come in any order). Conditions on the name and the type of a link
  accept all in `MatchLinks`, and any in `DeleteLinks`. Where a block that is not a node's is
  read as one, its schema may be any, or none; a read that ends the server is no step. Updates change
  neither schemas nor addresses and are in `NodeStore`.
* `CrashStore`: the text that a value leads to is the part before the value. A file that is hurt, by an end in a window, is not followed. Free blocks are forgotten at the end of a query, so that
  an insertion takes any address that is free in the file. The list of schemas is
  left out: it has the same kind of writes.
* `Conversation`: what a query finds is any result of its type; numbers of calls and the types of fields are compared where the
  generated code compares them.

### Memory that was never written

The code reads such memory in several places. It is a choice over the outcomes:
`strcmp` behind the end of a stored name (`SchemaStore!Drop`), `strncmp` behind
the end of a text, the three bytes beside a boolean, a value pointer behind the
last attribute (`QueryPath`), `is_null` of the conditions of a `dropE`
(`LinkStore!StartDelete`) and of a match (`LinkPath!IsNull`), bytes taken for a header (`HeapFile!HeadersAt`). What
follows once memory outside of an object was *written* is not modelled. Assumed
are null pointers in the fields `next` of fresh predicates, attributes and
properties, in `node_second_condition` of a fresh match condition and in `schema` of a fresh node condition
(`parser_lib/query.c:110-125`), which the parser leaves unset (anything else ends the client before a query is
sent), and that the write through `schema_last = nullptr` hits the database
header, which is written anew at once (`change_pointer` takes the first addresses
of the file for a block there; the first schema lies below address 10240, the
second byte of its pointer being read as part of a size).

### Fairness

Only `QueryService` has a liveness property, `NobodyWaitsForever`, and only it
assumes fairness. The server's loop is weakly fair (`Work`): it is a process with
nothing to wait for but sockets. So are connecting and the return of the call
that a client waits in. That users go on typing and end their clients at last
(`ReadOther`) is an assumption about users, not about the code: the simple server
does serve nobody else while a client is connected and idle, so that without it
the property does not hold. Nobody has to start a server again, no client has to be
aborted, and no query has to be typed. The execution of a query is one step that
ends; on a damaged file it need not (`Circling`), and the property promises
nothing then.

## 4. The proofs

Every theorem holds for all values of the constants, bounds included, under the named
assumptions of the module it is about:

| theorem | statement |
|---|---|
| `BlockStore_proofs` | `StoreAssumption`: a header has at least one byte, requests are positive, a request plus a header is an amount |
| `TypeCorrect`, `BlocksDisjoint`, `NoByteLost`, `PaddingBounded` | `Spec => []TypeOK`, `[](Within /\ NoOverlap)`, `[]Covered`, `[]WasteBounded` |
| `LiveBlocksStable`, `GrowthJustified` | `Spec => LiveStable`, `Spec => GrowsOnlyIfFull` |
| `HeapFile_proofs` | `HeapFileAssumption`: that of `BlockStore`, and amounts have a bound |
| `HeapOperations` | for arrays of any length: `Build`, `Insert`, `ReplaceTop` and `RemoveTop` leave a heap of the nodes they should, whose top is the largest |
| `HeapStaysOrdered`, `FileStaysTrue` | `Spec /\ [][ReadsHeaders]_vars =>` `[]HeapOrdered`, `[]FileAgrees` |
| `ImplementsStore`, `ReopenFindsFreeBlocks` | `Spec /\ [][ReadsHeaders]_vars =>` `StoreSpec`, `ReopenRestores`: refinement of `BlockStore` |
| `NodeStore_proofs` | `EntityListAssumption`: nullptr is no address; `NodeStoreAssumption` |
| `NodesAreWhole`, `NodeBlocksOwned` | `Spec => []ListSound`, `Spec => []OwnedOnce` |
| `NodesAreASequence` | `Spec => EntitiesSpec`: refinement of `EntitySeq` |
| `CrashKept`, `AlwaysRecoverable`, `AlwaysLeakBounded` | with `CrashStoreAssumption`: `CrashSpec => []CrashInvariant`, `[]Recoverable`, `[]LeakBounded` |
| `LinkStore_proofs` | `EntityListAssumption`, `LinkStoreAssumption` |
| `LinksAreWhole`, `LinkBlocksOwned` | `Spec => []ListSound`, `Spec => []OwnedOnce` |
| `OnlyDropsDangle` | `Spec => OnlyNodeDropDangles` |
| `LinksAreASequence` | `Spec => EntitiesSpec`: refinement of `EntitySeq` |
| `SchemaStore_proofs` | `EntityListAssumption`, `SchemaStoreAssumption` |
| `SchemasEnd`, `SchemaBlocksOwned` | `Spec => []ListEnds`, `Spec => []OwnedOnce` |
| `OnlyTailDrop` | `Spec => OnlyTailDropLosesEnd` |
| `GraphStore_proofs` | `GraphStoreAssumption`: nullptr, names and "no name" are different things |
| `MembersAreMatched`, `LinksAreAsCreated` | `Spec => []MembersMatched`, `Spec => []LinkedAsCreated` |
| `QueryService_proofs` | `QueryServiceAssumption`: "nobody" is no client; `TypesAssumption`: the types are those of the table |
| `TypeCorrect`, `QueryInOnePlace` | `Spec => []TypeOK`, `Spec => []InFlight` |
| `DamageByEndsOnly`, `ChangesInOrder`, `AnswersHold` | `Spec => []OnlyEndsDamage`, `[]StoredAsTyped`, `[]AnsweredIsStored` |
| | `QueryPathAssumption`, `QueryMeaningAssumption`: names are sequences, a value has a type and a content, a comparison is one of the seven, and a query has the form that the grammar gives it |
| `ConditionsMeant` | `QuerySpec => []NothingElseFound`, `[]NothingMissed`, `[]PairExact` |
| `LinksMeant`, `ValuesArrive` | `QuerySpec => []LinksNotMissed`, `[]LinksExact`; `QuerySpec => []ValuesAsWritten` |
| | `ConversationAssumption`: no text is not a text without letters; queries, schemas, nodes and links are structures that the parser and the database build (`IsQuery`, `IsSchema`, `IsNode`, `IsLink`) |
| `QueryArrivesHolds`, `MessagesSurviveHolds` | `ConversationSpec => []QueryArrives`, `[]MessagesSurvive` |
| `ResultShownHolds`, `EndsOnlyOnBlankHolds` | `ConversationSpec => []ResultShown`, `[]EndsOnlyOnBlank` |

### Along which argument

*`BlockStore`.* The inductive invariant is `IInv`, the conjunction of `TypeOK`, `Within`,
`NoOverlap`, `Covered` and `WasteBounded`. `NoOverlap` is not inductive by itself:
a block appended at the end of the file is disjoint from the others only because
none reaches beyond it (`Within`), and a remainder is well formed only because
its capacity is a number (`TypeOK`) larger than the request plus a header
(`CanSplit`). Three lemmas say what the operators do to a block, one lemma per action shows
that it keeps `IInv`, and the theorems follow. The two action properties follow
from one step and, for `GrowthJustified`, from `TypeOK`.

*`BlockHeap`.* A sift is a loop that moves a cursor. `DownInv` says that the order holds everywhere but at
the cursor, and that the children of the node there are no larger than its parent; each turn
(`Down`) keeps it and moves the cursor down or stops, so that after as many turns as there are nodes
the order holds. `Build` then needs, for k from the last inner node to the first, that the
nodes whose parents are at k or behind are in order. That the nodes stay the same, and are apart if they were,
is said of the exchange of two and carried through.

*`HeapFile`.* `Inv` has `HeapOrdered`, the invariant of `BlockStore` for the nodes of the heap and
the blocks that the file describes, and `FileInv`: the first byte of every block is its header (or,
for a free one that no header was written for, content) and *all bytes behind it are content*. `FileAgrees`
is not inductive without the last: a split makes a block begin at one of those bytes. Each step keeps
`Inv` and is a step of `BlockStore`. For a scan, `Between`
says that the position is between two blocks and what was found is the free blocks
before it; `ReadFacts` shows that a turn of the loop keeps it and goes forward. It needs that
blocks lie side by side (`Covered`), that no content is larger than its block and so no padding wraps
around, and that the header it reads is the one of the block. The last is the hypothesis `ReadsHeaders`, that the file is
opened only when the header of every free block was written (or content never looks like a
header): the code does not provide for it, and `heap_misread` shows what follows.

*Lists as sequences.* `DoublyLinked` is about what an iteration meets, which is a recursive
function of the file. `EntityList_proofs` replaces it once and for all by a statement
without recursion: `Chain(list, first, s)`, each block of the sequence `s` points to the next one and
the last one nowhere, and `Whole`, in which the pointers back agree and no block is left over. `WalkIsChain`
shows that an iteration over a chain is that sequence, `WholeIsLinked` that a whole list is doubly linked;
`AppendWhole` and `RemoveWhole` say what a creation and a deletion make of the sequence, and
`FetchedFacts` what a vector of matches holds. The theorems of the library on
induction and recursion have operators as parameters, which the provers cannot
instantiate. `EntityList_proofs` has them with sets and functions instead (`SetInduction`, `RecursionOnNat`),
proved from the existence of minimal elements. Vectors are fetched with `Fetched`, a
recursive function, because the provers cannot expand the `SelectSeq` of the standard module.

*`NodeStore` and `LinkStore`.* The invariants are `Linked` (the list is whole), ownership
(`OwnedOnce`; `Apart` in `LinkStore`) and `Planned`. Neither of the two former is inductive: a deletion
leaves the list whole only if its node is in the list, and that depends on what the query still has to do,
since the vector was fetched steps ago. `Planned` says that a query deletes no entity twice,
and only those that are there, that the nodes of links to be created exist (no query deletes nodes meanwhile), and that
an updated attribute exists. Ownership is what makes the blocks that a deletion gives
back not those of an entity that stays in the list.

*`CrashStore`.* `Recoverable` says what an iteration finds between two queries; nothing of it is inductive,
since in between blocks are in use that the list does not lead to, or the list leads to blocks that
are free. `CrashInvariant` says that, as long as the file is not hurt, there are a sequence `s`,
the list from the first block in memory on, and a number `m`, such that (`ListKept`):

* the pointers lead along `s`, each block with parts that are nobody else's and that are laid out as an entity of its
  kind has them (`Forwards`), and back (`Backwards`), but for the one block around which the list is being closed;
* the header knows the first `m` blocks, and `m` is the length of `s` or one less (`MemoryEnds`): behind
  them there is at most one whose creation was cut short, which the next creation overwrites;
* the header in the file is that in memory except between the changes of a query and its end (`FileEnds`);
* the blocks of `s` and their parts are in use, except those that the running query has given back (`UsedBy`, `GivenBack`):
  of a node that is deleted the first `nth - 1` of `BlocksToFree`;
* what the query has written is not in the list yet (`Fresh`): the parts that it has inserted are apart from each other
  and hold what `layout` says so far, and of a link that was taken out the blocks are given back in order;
* what is left of the query is the end of an insertion, an update or a deletion, which names blocks of the list
  and none of them twice (`Plan`);
* the completed creations are among the first `m`, in order (`Keeps`);
* the blocks in use that are neither in `s` nor in the hands of the query are, with those of a half-created
  one, at most `MostBlocks` for each cut (`Leaks`): those of an overwritten one move from one side of the sum to the other.

Each write keeps this, one lemma per action, with the sequence it makes: a creation replaces
what is behind the `m`th block by the new one (`ChainLastKept`), `ClosePrevKept` takes one block out. `BlocksToFree` is
shown to be the parts and the block in another order, none twice. `CutKept` is the heart of it: outside of `Window` the list survives the
loss of the memory, and what the query had in its hands becomes lost, which is no more than one entity since a layout has at
most two parts for each attribute. `KeptIsRecoverable` and
`KeptIsBounded` read the two properties off. All of this is for any number of attributes, of cuts
and of deleted entities, where the run has two, three and two.

*`SchemaStore`.* After the drop of the last of several schemas there are schemas that no iteration
reaches, so the list is not whole. `Listing` says what remains: the list is a chain, a
schema outside of it does not lead into it (else a drop would leave a pointer to a free block),
and the end that the header remembers leads nowhere, be it in the list or not, so that
a creation never cuts the list.

*`GraphStore`.* `Meant` relates addresses and numbers: a node whose schema is there has
its address, the block of a node is what the node wrote, and a link whose node is there
has its address. It needs that blocks of entities are apart (`Apart`: an address that a
creation takes is no schema, node or link) and that no number is given twice (`Numbered`).

*`QueryService`.* Six invariants, each proved from those before it: `Typed`; `Connected`,
each connection is in the queue, served or gone; `Placed`, a query that is waited for is in one
place; `Damage`, how the file may be while no process ended; `Ordered`, what is on its way is newer than what is stored, which gives the order of
a client's changes; and `Answered`, a change is in the file from the moment that the database is closed, which is before the reply.

*`QueryMeaning`.* The invariant `QueryInv` says no more than that the answer is what the operators make of the
query (the lemma `QueriesAnswered`); the work is in the lemmas on these. `ClearTerm`: a term on an attribute that cannot be taken for
another one (`IndexIs`, from `NamedByItself`: a name begins with its own first letters) has one outcome, the order of the two
numbers. `VerdictIs` carries that to a list of terms, whatever its length, and `PredMeans` to a predicate, of
which `KeptAreTerms` says what the parser keeps: some of its terms, all if there are two at most. So a condition may
lose terms and gains none, which is why `NothingMissed` holds for any number of them and
`PairExact` does not. `LinkMeans` has four checks one after the other, each of which is weaker than it should be if its flag is
not zero, and never stronger. For an update, `TurnedTwice` cancels the two reversals of the list and
`UpdatedIs` shows, by induction on the properties, that an attribute keeps its value or has the last one for it:
`StoredAgain` says that what `value_update` stores does not depend on the number that was there before. The recursion
on properties is one on functions from attributes to places in the list (`UpdatedDefined`).

*`Conversation`.* `ConversationInv` says at each stage where what is on its way comes from: the message is made
of what was typed, the answer of what the server executed and found, and that in turn of the object that it read
of the message; what is printed is made of the object that the client read of the answer, which was new. None of the four
properties is inductive without it, since they compare what was typed with what is there two steps later. They then follow
from four facts about the operators, each carried from the leaves of a structure up:

* *The generated code loses nothing.* A class is `Straight` if a field is read into a member exactly when it was sent
  of that member. `ClassesAreStraight` shows it of all thirty-three classes that have members; `FieldsOf` and the lemmas `Reads…` give
  each member of an object that was read, with what happens to one that was not sent, or to a text that is null.
* *An object holds what was typed* (`QueryIsHeld`): value, term, predicate on each level of nesting, condition, link, match and query,
  whose lists are of any length. It uses that enumerators have the same numbers on both sides
  (`ClientCodes`), and that the client reverses the properties once.
* *The server makes of it what it says, or nothing* (`ServerQuery`): a conversion of an object that holds a query `q`
  has the outcome `Says(q)` only, if its names have letters and its conditions are simple, and it has none
  only if a text in `Given(q)` has no letters. `AllOf` makes a list of outcomes of outcomes of its
  elements, so a list can be converted when each element can.
* *An answer holds what was found and is printed as such* (`AnswerGiven`, `AnswerArrives`, `ResultPrinted`): the same, back. Which
  member of a union is filled depends on the type of the query, and which is printed on the type of the result;
  `ResultsOf` relates the two.

The proofs are for any number of predicates, terms, properties, attributes and elements of a result, where the run
has at most two of each; the depth of predicates is that of the model.

### What is only model-checked

`NobodyWaitsForever`, since liveness under fairness and ENABLED are out of the provers' reach. `CompletedReachable`, which is about the
file in the middle of a window, where `CrashInvariant` has the list as the memory knows it and not yet as the header in the file
does. Every other property of a passing run is a theorem.

## 5. What is not modelled

* The lexer and the printer: no state that outlives a call. The rest of the grammar, whose
  rules build one structure each.
* The copying of structures to and from bytes, field by field, and the file as bytes: a
  block is its header and one content.
* The library of Thrift and glib under the generated code (binary protocol, transport, sockets): `ThriftObjects` has
  what they do with an object, and `QueryService` their failures. Specifications of properties, whose
  ranges all values are in.
* Drawing of the heap (`visualize.c`) and the measurements of `test.h`.
* Failures of `malloc` and of the file system, short reads and full disks: the code checks
  some of them, and none is recovered from.
* `link_update` and `block_heap_extract`: nothing reaches them. The executor of the
  first is commented out of the table.
* What follows once memory outside of an object was written: the update of an attribute that does
  not exist, a text of more than 1023 letters in the buffer of the client, terms of an `and` that are themselves an
  `and` or an `or` behind the conversion that reads one kind as another.
* A second server at the same port or on the same file: the program has one.
