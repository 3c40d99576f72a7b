------------------------------- MODULE Client -------------------------------
(***************************************************************************)
(* The pipelined calls of hive_client: async_put, async_get, vput, vget    *)
(* and their hdag_ forms, with the connections they use.                   *)
(*                                                                         *)
(* A client has one connection to the metadata server, on which requests   *)
(* and replies keep their order, and opens one per slice to the storage    *)
(* servers, which work in any order.  A vectored call sends its metadata   *)
(* requests together, then takes the replies one by one and sends slices   *)
(* for each, then collects the storage servers' replies.  Sending blocks   *)
(* while the connection is full, for the client as for the server.         *)
(***************************************************************************)
EXTENDS Naturals, Sequences, Functions

CONSTANTS
  Name,
  Batch,        \* the vectors of names a call may be made with
  MaxPieces,    \* bound on the slices of an object
  MaxCalls,     \* bound on the calls of a behaviour
  Window,       \* messages a direction of the metadata connection holds
  Reuse,        \* the client is used again after a call that threw, or not
  NoName

ASSUME BatchAssumption ==
  /\ Batch \subseteq Seq(Name) \ {<<>>}
  /\ NoName \notin Name

ASSUME BoundAssumption ==
  /\ MaxPieces \in Nat \ {0} /\ MaxCalls \in Nat /\ Window \in Nat \ {0}
  /\ Reuse \in BOOLEAN

VARIABLES
  requests, replies,   \* the metadata connection, one queue each way
  index,     \* how many slices the object has, 0 when it is not indexed
  mem,       \* what the slices of an object hold: <<object, piece>>
  late,      \* slices on their way to a storage server after their put threw
  phase, call, pos, seat,
  futures,   \* slice_futures_map; async_put and async_get have one vector
  calls,     \* calls made so far
  stored     \* history: the object whose put of the name was granted

metadata == <<requests, replies, index>>
storage == <<mem, late>>
vars == <<metadata, storage, phase, call, pos, seat, futures, calls, stored>>

Phase == {"idle", "send", "recv", "wait", "done", "crashed", "dead"}
NoObject == <<0, 0>>
NoPiece == <<NoObject, 0>>
NoCall == [op |-> "none", vector |-> FALSE, names |-> <<>>]

Init ==
  /\ requests = <<>> /\ replies = <<>>
  /\ index = [n \in Name |-> 0]
  /\ mem = [n \in Name |-> [j \in 1 .. MaxPieces |-> NoPiece]]
  /\ late = {}
  /\ phase = "idle" /\ call = NoCall /\ pos = 1 /\ seat = 1
  /\ futures = [n \in Name \cup {NoName} |-> <<>>]
  /\ calls = 0
  /\ stored = [n \in Name |-> NoObject]

-----------------------------------------------------------------------------
(* The client sends                                                        *)

ObjectAt(i) == <<calls, i>>
Pending == {requests[i] : i \in DOMAIN requests} \cup {replies[i] : i \in DOMAIN replies}

\* Callers put a name once.  What an earlier call left on the connection is of
\* the same function, else recv_ would not find its own name in the reply.
MayBegin(op, names) ==
  /\ \A m \in Pending : m.op = op
  /\ op = "put" => \A i \in DOMAIN names :
       index[names[i]] = 0 /\ \A m \in Pending : m.name # names[i]

Begin(op, vector, names) ==
  /\ phase = "idle" /\ calls < MaxCalls
  /\ MayBegin(op, names)
  /\ ~vector => Len(names) = 1
  /\ phase' = "send" /\ pos' = 1 /\ seat' = 1
  /\ call' = [op |-> op, vector |-> vector, names |-> names]
  /\ calls' = calls + 1
  /\ UNCHANGED <<metadata, storage, futures, stored>>

Last == pos = Len(call.names)

SendRequest ==
  /\ phase = "send"
  /\ Len(requests) < Window
  /\ requests' = Append(requests, [op |-> call.op, name |-> call.names[pos],
                                   object |-> ObjectAt(pos)])
  /\ IF Last THEN phase' = "recv" /\ pos' = 1
             ELSE pos' = pos + 1 /\ UNCHANGED phase
  /\ UNCHANGED <<replies, index, storage, call, seat, futures, calls, stored>>

-----------------------------------------------------------------------------
(* The metadata server, one request of the connection after the other      *)

Answer(name, pieces, kind) ==
  /\ requests # <<>>
  /\ Len(replies) < Window
  /\ requests' = Tail(requests)
  /\ replies' = Append(replies, [op |-> Head(requests).op, name |-> name,
                                 pieces |-> pieces, kind |-> kind])
  /\ UNCHANGED <<storage, phase, call, pos, seat, futures, calls>>

GrantPut(pieces) ==
  /\ requests # <<>> /\ Head(requests).op = "put"
  /\ index' = [index EXCEPT ![Head(requests).name] = pieces]
  /\ stored' = [stored EXCEPT ![Head(requests).name] = Head(requests).object]
  /\ Answer(Head(requests).name, pieces, "inode")

FindGet ==
  /\ requests # <<>> /\ Head(requests).op = "get" /\ index[Head(requests).name] # 0
  /\ Answer(Head(requests).name, index[Head(requests).name], "inode")
  /\ UNCHANGED <<index, stored>>

\* A refused put and a get of a missing object: an inode without a name.
NotInMemory ==
  /\ requests # <<>>
  /\ Head(requests).op = "get" => index[Head(requests).name] = 0
  /\ Answer(NoName, 0, "inode")
  /\ UNCHANGED <<index, stored>>

HookSwallowed ==
  /\ requests # <<>>
  /\ requests' = Tail(requests)
  /\ UNCHANGED <<replies, index, storage, phase, call, pos, seat, futures, calls, stored>>

\* The monitor's hooks threw.
HookThrows ==
  /\ requests # <<>>
  /\ Answer(NoName, 0, "exception")
  /\ UNCHANGED <<index, stored>>

-----------------------------------------------------------------------------
(* The client takes an inode and sends a request per slice                 *)

KeyOfFirst(reply) == call.names[1]

Key(reply) == IF call.vector THEN reply.name ELSE call.names[pos]

Slice(reply, place, part, seq) ==
  [place |-> <<reply.name, place>>, part |-> <<ObjectAt(pos), part>>, idx |-> seq,
   state |-> "sent", answer |-> NoPiece, content |-> NoPiece]

SlicesOfStart(reply) == [j \in 1 .. reply.pieces |-> Slice(reply, j, 1, j)]
SlicesFromZero(reply) == [j \in 1 .. reply.pieces |-> Slice(reply, j, j, j - 1)]
SlicesOfOneIdx(reply) == [j \in 1 .. reply.pieces |-> Slice(reply, j, j, 1)]

\* For each slice of the inode its part of the object and its number.
Slices(reply) == [j \in 1 .. reply.pieces |-> Slice(reply, j, j, j)]

RecvInode ==
  /\ phase = "recv" /\ replies # <<>>
  /\ Head(replies).kind = "inode"
  /\ replies' = Tail(replies)
  /\ futures' = [futures EXCEPT ![Key(Head(replies))] = @ \o Slices(Head(replies))]
  /\ IF Last THEN phase' = "wait" /\ pos' = 1
             ELSE pos' = pos + 1 /\ UNCHANGED phase
  /\ UNCHANGED <<requests, index, storage, call, seat, calls, stored>>

AfterThrow == IF Reuse THEN "idle" ELSE "dead"

SkipException ==
  /\ phase = "recv" /\ replies # <<>>
  /\ Head(replies).kind = "exception"
  /\ replies' = Tail(replies)
  /\ UNCHANGED <<requests, index, storage, phase, call, pos, seat, futures, calls, stored>>

\* async_puts that storage servers have not served yet: where and what.
SentPuts == IF call.op = "put"
  THEN UNION {{<<f.place, f.part>> : f \in {g \in Range(futures[k]) : g.state = "sent"}} :
                k \in DOMAIN futures}
  ELSE {}

\* TApplicationException: the call ends, the other replies stay where they are.
\* The slices' connections close; what was sent on them is served all the same.
RecvException ==
  /\ phase = "recv" /\ replies # <<>>
  /\ Head(replies).kind = "exception"
  /\ replies' = Tail(replies)
  /\ phase' = AfterThrow
  /\ call' = NoCall /\ pos' = 1
  /\ futures' = [k \in DOMAIN futures |-> <<>>]
  /\ late' = late \cup SentPuts
  /\ UNCHANGED <<requests, index, mem, seat, calls, stored>>

-----------------------------------------------------------------------------
(* The storage servers: async_put and async_get of one slice               *)

Serve(k, j) ==
  LET f == futures[k][j]
      n == f.place[1]
      i == f.place[2]
  IN  /\ f.state = "sent"
      /\ mem' = [mem EXCEPT ![n][i] = IF call.op = "put" THEN f.part ELSE @]
      /\ futures' = [futures EXCEPT ![k][j].state = "answered",
                        ![k][j].answer = IF call.op = "get" THEN mem[n][i] ELSE NoPiece]
      /\ UNCHANGED <<metadata, late, phase, call, pos, seat, calls, stored>>

ServeLate(w) ==
  /\ mem' = [mem EXCEPT ![w[1][1]][w[1][2]] = w[2]]
  /\ late' = late \ {w}
  /\ UNCHANGED <<metadata, phase, call, pos, seat, futures, calls, stored>>

-----------------------------------------------------------------------------
(* The client collects the replies, object after object                    *)

Awaited == futures[call.names[pos]]

\* async_put and async_get loop over no slices; vput and vget look for the
\* vector under the name they asked for and use what find() returned.
RecvNothing ==
  /\ phase = "wait" /\ Awaited = <<>>
  /\ phase' = IF call.vector THEN "crashed" ELSE "done"
  /\ UNCHANGED <<metadata, storage, call, pos, seat, futures, calls, stored>>

NextObject == IF Last THEN phase' = "done" /\ UNCHANGED pos
                      ELSE pos' = pos + 1 /\ UNCHANGED phase

AdvanceObject == seat' = 1 /\ NextObject

Advance ==
  IF seat = Len(Awaited)
    THEN seat' = 1 /\ NextObject
    ELSE seat' = seat + 1 /\ UNCHANGED <<phase, pos>>

\* A future whose reply was taken before has none to take again.
RecvAsync ==
  /\ phase = "wait" /\ Awaited # <<>>
  /\ Awaited[seat].state = "answered"
  /\ futures' = [futures EXCEPT
       ![call.names[pos]][seat].state = "taken",
       ![call.names[pos]][Awaited[seat].idx].content = Awaited[seat].answer]
  /\ Advance
  /\ UNCHANGED <<metadata, storage, call, calls, stored>>

Return ==
  /\ phase = "done"
  /\ phase' = "idle" /\ call' = NoCall /\ pos' = 1
  /\ futures' = [k \in DOMAIN futures |-> <<>>]
  /\ UNCHANGED <<metadata, storage, seat, calls, stored>>

-----------------------------------------------------------------------------

Call == \E op \in {"put", "get"}, vector \in BOOLEAN, names \in Batch :
          Begin(op, vector, names)

Client == \/ SendRequest \/ RecvInode \/ RecvException
          \/ RecvNothing \/ RecvAsync \/ Return

MetadataServer == \/ \E pieces \in 1 .. MaxPieces : GrantPut(pieces)
                  \/ FindGet \/ NotInMemory \/ HookThrows

StorageServers == \/ \E k \in DOMAIN futures : \E j \in DOMAIN futures[k] : Serve(k, j)
                  \/ \E w \in late : ServeLate(w)

Next == Call \/ Client \/ MetadataServer \/ StorageServers

Spec == Init /\ [][Next]_vars

FairSpec == /\ Spec
            /\ WF_vars(Client) /\ WF_vars(MetadataServer) /\ WF_vars(StorageServers)

-----------------------------------------------------------------------------
(* Properties                                                              *)

Piece == (((0 .. MaxCalls) \X Nat) \X (0 .. MaxPieces))

TypeOK ==
  /\ index \in [Name -> 0 .. MaxPieces]
  /\ mem \in [Name -> [1 .. MaxPieces -> Piece]]
  /\ late \subseteq ((Name \X (1 .. MaxPieces)) \X Piece)
  /\ phase \in Phase
  /\ (phase \in {"send", "recv", "wait", "done", "crashed"}) = (call # NoCall)
  /\ \A k \in DOMAIN futures : \A j \in DOMAIN futures[k] :
       /\ futures[k][j].state \in {"sent", "answered", "taken"}
       /\ futures[k][j].idx \in DOMAIN futures[k]
       /\ futures[k][j].content \in Piece

\* What the client is to find in the slices of a name.
Whole(n) == [j \in 1 .. index[n] |-> <<stored[n], j>>]

\* "Put objects" (hive_client.h:80): when a put returns, every slice of every
\* object of it that was granted space holds its own part of that object.
PutStored ==
  phase = "done" /\ call.op = "put" =>
    \A i \in DOMAIN call.names :
      LET n == call.names[i]
      IN  /\ index[n] # 0 => stored[n] = ObjectAt(i)
          /\ \A j \in 1 .. index[n] : mem[n][j] = Whole(n)[j]

\* A slice of an object holds the object's own part or was never written, and what
\* is on its way to it is that part: also while a vector is half way, after an
\* exception, when slices sent before it arrive late.
PartsInPlace ==
  /\ \A n \in Name : \A j \in 1 .. index[n] : mem[n][j] \in {NoPiece, Whole(n)[j]}
  /\ \A w \in late : w[2] = <<stored[w[1][1]], w[1][2]>>

Concatenated(n) == [j \in DOMAIN futures[n] |-> futures[n][j].content]

\* "Objects correspond to obj_names" (hive_client.h:89): a get returns, for each
\* name, the object put under it, in order, whichever storage server was first.
GetReturnsPut ==
  phase = "done" /\ call.op = "get" =>
    \A i \in DOMAIN call.names : Concatenated(call.names[i]) = Whole(call.names[i])

\* A call that returns leaves no reply behind, on the metadata connection or on
\* a slice's, for the next call to find.
NothingLeftBehind ==
  phase = "done" =>
    /\ requests = <<>> /\ replies = <<>>
    /\ \A k \in DOMAIN futures : \A j \in DOMAIN futures[k] : futures[k][j].state = "taken"

\* vput and vget use a vector that is not there only when the metadata server
\* refused one of their objects.
CrashNeedsRefusal ==
  phase = "crashed" => \E i \in DOMAIN call.names : index[call.names[i]] = 0

\* "assume recv metadata response sequence is the same as send request
\* sequence" (hive_client.cpp:226): the inode at the head of the connection
\* answers the request it is taken for.
RepliesMatch ==
  phase = "recv" /\ replies # <<>> => Head(replies).name \in {call.names[pos], NoName}

\* Sending its requests before it takes a reply, and awaiting its slices in a
\* fixed order, a call never stops for ever: there is room on the connection or
\* something to take from it, and the reply it awaits has not been taken.
NeverStuck ==
  /\ phase = "send" => Len(requests) < Window \/ Len(replies) < Window
  /\ phase = "recv" => requests # <<>> \/ replies # <<>>
  /\ phase = "wait" /\ Awaited # <<>> => Awaited[seat].state # "taken"

\* Every call returns, throws or crashes.
EveryCallEnds == phase \in {"send", "recv", "wait"} ~> phase \in {"done", "crashed", "dead"}
=============================================================================
