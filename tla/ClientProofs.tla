---------------------------- MODULE ClientProofs ----------------------------
(***************************************************************************)
(* Type correctness of Client and, for clients that are not used again     *)
(* after an exception and name no object twice in a call, that each answer *)
(* reaches its own place: for vectors of any length, any window, and any   *)
(* order in which the storage servers answer.  Replies come in the order   *)
(* of the requests, and a call whose vector the connection can hold never  *)
(* gets stuck.                                                             *)
(***************************************************************************)
EXTENDS Client, TLAPS

-----------------------------------------------------------------------------
(* Types                                                                   *)

Op == {"put", "get"}
Object == (0 .. MaxCalls) \X Nat
Request == [op : Op, name : Name, object : Object]
Reply == [op : Op, name : Name \cup {NoName}, pieces : 0 .. MaxPieces,
          kind : {"inode", "exception"}]
Future == [place : Name \X (1 .. MaxPieces), part : Piece, idx : Nat,
           state : {"sent", "answered", "taken"}, answer : Piece, content : Piece]
ACall == [op : Op, vector : BOOLEAN, names : Batch]

InCall == phase \in {"send", "recv", "wait", "done", "crashed"}

TypeInv ==
  /\ requests \in Seq(Request)
  /\ replies \in Seq(Reply)
  /\ \A i \in DOMAIN replies : replies[i].name = NoName => replies[i].pieces = 0
  /\ index \in [Name -> 0 .. MaxPieces]
  /\ mem \in [Name -> [1 .. MaxPieces -> Piece]]
  /\ late \subseteq ((Name \X (1 .. MaxPieces)) \X Piece)
  /\ phase \in Phase
  /\ call \in ACall \cup {NoCall}
  /\ InCall <=> call # NoCall
  /\ InCall => pos \in 1 .. Len(call.names)
  /\ InCall /\ ~call.vector => Len(call.names) = 1
  /\ seat \in Nat \ {0}
  /\ phase \in {"send", "recv"} => seat = 1
  /\ phase = "wait" => seat = 1 \/ seat <= Len(Awaited)
  /\ futures \in [Name \cup {NoName} -> Seq(Future)]
  /\ \A k \in Name \cup {NoName} : \A j \in DOMAIN futures[k] :
       futures[k][j].idx \in DOMAIN futures[k]
  /\ calls \in 0 .. MaxCalls
  /\ stored \in [Name -> Object]

-----------------------------------------------------------------------------
(* The invariant                                                           *)

\* No call names an object twice: vput and vget would append its slices twice
\* under one name.
Distinct == \A v \in Batch : \A i, j \in DOMAIN v : v[i] = v[j] => i = j

\* Requests sent, and replies taken off the connection.
Sent == IF phase = "send" THEN pos - 1 ELSE Len(call.names)
Received == IF phase = "send" THEN 0
            ELSE IF phase = "recv" THEN pos - 1 ELSE Len(call.names)
Answered == Received + Len(replies)

\* Requests and replies are on the connection in the order of the names.
QueueInv ==
  /\ ~(phase \in {"send", "recv", "dead"}) => requests = <<>> /\ replies = <<>>
  /\ phase \in {"send", "recv"} =>
       /\ Answered + Len(requests) = Sent
       /\ \A i \in 1 .. Len(requests) :
            /\ requests[i].op = call.op
            /\ requests[i].name = call.names[Answered + i]
            /\ requests[i].object = ObjectAt(Answered + i)
       /\ \A i \in 1 .. Len(replies) : replies[i].kind = "inode" =>
            /\ replies[i].pieces = index[call.names[Received + i]]
            /\ \/ replies[i].name = call.names[Received + i]
               \/ replies[i].name = NoName /\ replies[i].pieces = 0

\* What a put has been granted so far.
GrantInv ==
  InCall /\ call.op = "put" =>
    \A p \in 1 .. Len(call.names) :
      /\ phase \in {"send", "recv"} /\ p > Answered => index[call.names[p]] = 0
      /\ index[call.names[p]] # 0 => stored[call.names[p]] = ObjectAt(p)

\* Slice j of the object at position p.
SliceOK(f, p, j) ==
  /\ f.place = <<call.names[p], j>> /\ f.part = <<ObjectAt(p), j>> /\ f.idx = j
  /\ f.state # "sent" =>
       IF call.op = "put" THEN mem[call.names[p]][j] = f.part
                          ELSE f.answer = mem[call.names[p]][j]
  /\ f.state = "taken" => f.content = f.answer

\* One slice per piece of each object whose inode has been received.
FuturesInv ==
  /\ ~InCall => \A k \in Name \cup {NoName} : futures[k] = <<>>
  /\ InCall =>
       /\ \A k \in Name \cup {NoName} :
            (\A p \in 1 .. Received : call.names[p] # k) => futures[k] = <<>>
       /\ \A p \in 1 .. Received :
            /\ Len(futures[call.names[p]]) = index[call.names[p]]
            /\ \A j \in 1 .. Len(futures[call.names[p]]) :
                 SliceOK(futures[call.names[p]][j], p, j)

AllTaken(n) == \A j \in 1 .. Len(futures[n]) : futures[n][j].state = "taken"

\* The replies of the slices are taken in order.
TakenInv ==
  /\ phase = "wait" =>
       /\ \A p \in 1 .. pos - 1 : AllTaken(call.names[p])
       /\ \A j \in 1 .. seat - 1 : futures[call.names[pos]][j].state = "taken"
  /\ phase = "done" => \A p \in 1 .. Len(call.names) : AllTaken(call.names[p])
  /\ phase = "crashed" => index[call.names[pos]] = 0

\* The slices of an object hold it, apart from those being put.
MemInv ==
  \A n \in Name :
    \/ phase \in {"dead", "crashed"}
    \/ InCall /\ call.op = "put" /\ \E p \in 1 .. Len(call.names) : call.names[p] = n
    \/ \A j \in 1 .. index[n] : mem[n][j] = <<stored[n], j>>

\* A client that is not used again is dead when slices of it are on their way.
LateInv == late # {} => phase = "dead"

ClientInv == QueueInv /\ GrantInv /\ FuturesInv /\ TakenInv /\ MemInv

-----------------------------------------------------------------------------
(* Type correctness                                                        *)

LEMMA Constants ==
  /\ MaxPieces \in Nat /\ MaxCalls \in Nat
  /\ NoPiece \in Piece /\ NoObject \in Object
  /\ \A o \in Object, j \in 0 .. MaxPieces : <<o, j>> \in Piece
  BY BoundAssumption DEF NoPiece, NoObject, Piece, Object

\* The names of the call under way.
LEMMA NamesType ==
  ASSUME TypeInv, InCall
  PROVE  /\ call \in ACall /\ call.names \in Seq(Name) /\ call.names \in Batch
         /\ Len(call.names) \in Nat /\ Len(call.names) >= 1
         /\ pos \in 1 .. Len(call.names)
         /\ \A p \in 1 .. Len(call.names) : call.names[p] \in Name
<1>1. call \in ACall /\ pos \in 1 .. Len(call.names)
  BY DEF TypeInv
<1>2. call.names \in Batch /\ call.names \in Seq(Name) /\ call.names # <<>>
  BY <1>1, BatchAssumption DEF ACall
<1> QED
  BY <1>1, <1>2

\* The slices of an inode that was received.
LEMMA SlicesType ==
  ASSUME TypeInv, InCall, NEW r \in Reply, r.name = NoName => r.pieces = 0
  PROVE  /\ Slices(r) \in Seq(Future) /\ Len(Slices(r)) = r.pieces
         /\ \A j \in 1 .. r.pieces : Slices(r)[j] = Slice(r, j, j, j)
<1>1. r.pieces \in 0 .. MaxPieces /\ r.pieces \in Nat /\ MaxPieces \in Nat
  BY Constants DEF Reply
<1>2. ObjectAt(pos) \in Object
  BY NamesType DEF ObjectAt, Object, TypeInv
<1>3. \A j \in 1 .. r.pieces : Slice(r, j, j, j) \in Future
  <2> TAKE j \in 1 .. r.pieces
  <2>1. r.name \in Name /\ j \in 1 .. MaxPieces /\ j \in 0 .. MaxPieces /\ j \in Nat
    BY <1>1 DEF Reply
  <2>2. <<ObjectAt(pos), j>> \in Piece
    BY <1>2, <2>1, Constants
  <2> QED
    BY <2>1, <2>2, Constants DEF Slice, Future
<1>4. Slices(r) = [j \in 1 .. r.pieces |-> Slice(r, j, j, j)]
  BY DEF Slices
<1>5. Slices(r) \in [1 .. r.pieces -> Future]
  BY <1>3, <1>4
<1> QED
  BY <1>1, <1>4, <1>5

LEMMA ReplaceOne ==
  ASSUME NEW S, NEW f \in Seq(S), NEW j \in DOMAIN f, NEW x \in S, NEW g,
         g = [f EXCEPT ![j] = x]
  PROVE  /\ g \in Seq(S) /\ Len(g) = Len(f) /\ DOMAIN g = DOMAIN f
         /\ \A k \in DOMAIN f : g[k] = IF k = j THEN x ELSE f[k]
  OBVIOUS

WithAnswer(f, a) == [f EXCEPT !.state = "answered", !.answer = a]
WithReply(f) == [f EXCEPT !.state = "taken"]
WithContent(f, a) == [f EXCEPT !.content = a]

LEMMA FutureFields ==
  ASSUME NEW f \in Future, NEW a \in Piece
  PROVE  /\ WithAnswer(f, a) \in Future /\ WithReply(f) \in Future /\ WithContent(f, a) \in Future
         /\ LET x == WithAnswer(f, a)
            IN  /\ x.place = f.place /\ x.part = f.part /\ x.idx = f.idx
                /\ x.state = "answered" /\ x.answer = a /\ x.content = f.content
         /\ LET x == WithReply(f)
            IN  /\ x.place = f.place /\ x.part = f.part /\ x.idx = f.idx
                /\ x.state = "taken" /\ x.answer = f.answer /\ x.content = f.content
         /\ LET x == WithContent(f, a)
            IN  /\ x.place = f.place /\ x.part = f.part /\ x.idx = f.idx
                /\ x.state = f.state /\ x.answer = f.answer /\ x.content = a
  BY DEF Future, WithAnswer, WithReply, WithContent

\* A slice is served.
LEMMA ServeOne ==
  ASSUME NEW f \in Seq(Future), NEW j \in DOMAIN f, NEW a \in Piece, NEW g,
         g = [f EXCEPT ![j] = WithAnswer(f[j], a)]
  PROVE  /\ g \in Seq(Future) /\ Len(g) = Len(f) /\ DOMAIN g = DOMAIN f
         /\ \A i \in DOMAIN f \ {j} : g[i] = f[i]
         /\ g[j].place = f[j].place /\ g[j].part = f[j].part /\ g[j].idx = f[j].idx
         /\ g[j].state = "answered" /\ g[j].answer = a /\ g[j].content = f[j].content
<1>1. f[j] \in Future
  OBVIOUS
<1>2. PICK x \in Future : x = WithAnswer(f[j], a)
  BY <1>1, FutureFields
<1>3. g = [f EXCEPT ![j] = x]
  BY <1>2
<1>4. /\ g \in Seq(Future) /\ Len(g) = Len(f) /\ DOMAIN g = DOMAIN f
      /\ \A k \in DOMAIN f : g[k] = IF k = j THEN x ELSE f[k]
  BY <1>3, ReplaceOne
<1>5. /\ x.place = f[j].place /\ x.part = f[j].part /\ x.idx = f[j].idx
      /\ x.state = "answered" /\ x.answer = a /\ x.content = f[j].content
  BY <1>1, <1>2, FutureFields
<1>6. g[j] = x /\ \A i \in DOMAIN f \ {j} : g[i] = f[i]
  BY <1>4
<1> QED
  BY <1>4, <1>5, <1>6

\* The reply of a slice is taken.
LEMMA ReplyOne ==
  ASSUME NEW f \in Seq(Future), NEW j \in DOMAIN f, NEW g,
         g = [f EXCEPT ![j] = WithReply(f[j])]
  PROVE  /\ g \in Seq(Future) /\ Len(g) = Len(f) /\ DOMAIN g = DOMAIN f
         /\ \A k \in DOMAIN f :
              /\ g[k].place = f[k].place /\ g[k].part = f[k].part /\ g[k].idx = f[k].idx
              /\ g[k].answer = f[k].answer /\ g[k].content = f[k].content
              /\ g[k].state = IF k = j THEN "taken" ELSE f[k].state
<1>1. f[j] \in Future
  OBVIOUS
<1>2. WithReply(f[j]) \in Future
  BY <1>1, FutureFields, Constants
<1>3. /\ g \in Seq(Future) /\ Len(g) = Len(f) /\ DOMAIN g = DOMAIN f
      /\ \A k \in DOMAIN f : g[k] = IF k = j THEN WithReply(f[j]) ELSE f[k]
  BY <1>2, ReplaceOne
<1> QED
  BY <1>1, <1>3, FutureFields, Constants

\* What it carries goes to a slice's place in the object.
LEMMA ContentOne ==
  ASSUME NEW f \in Seq(Future), NEW j \in DOMAIN f, NEW a \in Piece, NEW g,
         g = [f EXCEPT ![j] = WithContent(f[j], a)]
  PROVE  /\ g \in Seq(Future) /\ Len(g) = Len(f) /\ DOMAIN g = DOMAIN f
         /\ \A k \in DOMAIN f :
              /\ g[k].place = f[k].place /\ g[k].part = f[k].part /\ g[k].idx = f[k].idx
              /\ g[k].answer = f[k].answer /\ g[k].state = f[k].state
              /\ g[k].content = IF k = j THEN a ELSE f[k].content
<1>1. f[j] \in Future
  OBVIOUS
<1>2. WithContent(f[j], a) \in Future
  BY <1>1, FutureFields
<1>3. /\ g \in Seq(Future) /\ Len(g) = Len(f) /\ DOMAIN g = DOMAIN f
      /\ \A k \in DOMAIN f : g[k] = IF k = j THEN WithContent(f[j], a) ELSE f[k]
  BY <1>2, ReplaceOne
<1>4. /\ g[j].place = f[j].place /\ g[j].part = f[j].part /\ g[j].idx = f[j].idx
      /\ g[j].answer = f[j].answer /\ g[j].state = f[j].state /\ g[j].content = a
  <2>1. PICK x \in Future : x = WithContent(f[j], a)
    BY <1>2
  <2>2. /\ x.place = f[j].place /\ x.part = f[j].part /\ x.idx = f[j].idx
        /\ x.answer = f[j].answer /\ x.state = f[j].state /\ x.content = a
    BY <1>1, <2>1, FutureFields
  <2>3. g[j] = x
    BY <1>3, <2>1
  <2> QED
    BY <2>2, <2>3
<1>5. \A k \in DOMAIN f \ {j} : g[k] = f[k]
  BY <1>3
<1> QED
  BY <1>3, <1>4, <1>5

LEMMA TypeInit == Init => TypeInv
<1> SUFFICES ASSUME Init PROVE TypeInv
  OBVIOUS
<1>1. NoPiece \in Piece /\ NoObject \in Object /\ MaxPieces \in Nat /\ MaxCalls \in Nat
  BY Constants
<1> QED
  BY <1>1 DEF Init, TypeInv, InCall, Phase

LEMMA TypeBegin ==
  ASSUME TypeInv, NEW op \in Op, NEW vector \in BOOLEAN, NEW names \in Batch,
         Begin(op, vector, names)
  PROVE  TypeInv'
<1>1. names \in Seq(Name) /\ names # <<>> /\ Len(names) \in Nat /\ Len(names) >= 1
  BY BatchAssumption
<1>2. call' = [op |-> op, vector |-> vector, names |-> names] /\ call' \in ACall
  BY DEF Begin, ACall
<1>3. call' # NoCall
  BY <1>2 DEF NoCall, Op
<1>4. calls' \in 0 .. MaxCalls
  BY Constants DEF TypeInv, Begin
<1>5. InCall' /\ phase' \in Phase /\ pos' \in 1 .. Len(call'.names) /\ seat' \in Nat \ {0}
  BY <1>1, <1>2 DEF Begin, InCall, Phase
<1>6. ~call'.vector => Len(call'.names) = 1
  BY <1>2 DEF Begin
<1> QED
  BY <1>2, <1>3, <1>4, <1>5, <1>6 DEF TypeInv, Begin, metadata, storage

LEMMA TypeSendRequest ==
  ASSUME TypeInv, SendRequest
  PROVE  TypeInv'
<1>1. InCall /\ InCall' /\ phase' \in Phase
  BY DEF SendRequest, InCall, Phase
<1>2. call.op \in Op /\ call.names[pos] \in Name /\ pos \in Nat
  BY <1>1, NamesType DEF ACall
<1>3. ObjectAt(pos) \in Object
  BY <1>2 DEF ObjectAt, Object, TypeInv
<1>4. requests' \in Seq(Request)
  BY <1>2, <1>3 DEF SendRequest, Request, TypeInv
<1>5. pos' \in 1 .. Len(call'.names)
  BY <1>1, NamesType DEF SendRequest, Last
<1> QED
  BY <1>1, <1>4, <1>5 DEF TypeInv, SendRequest, storage

LEMMA TypeAnswer ==
  ASSUME TypeInv, NEW name \in Name \cup {NoName}, NEW pieces \in 0 .. MaxPieces,
         NEW kind \in {"inode", "exception"}, Answer(name, pieces, kind),
         name = NoName => pieces = 0,
         index' \in [Name -> 0 .. MaxPieces], stored' \in [Name -> Object]
  PROVE  TypeInv'
<1>1. Head(requests) \in Request /\ Tail(requests) \in Seq(Request)
  BY DEF Answer, TypeInv
<1> DEFINE r == [op |-> Head(requests).op, name |-> name, pieces |-> pieces, kind |-> kind]
<1>2. r \in Reply
  BY <1>1 DEF Request, Reply
<1>3. r.name = name /\ r.pieces = pieces
  OBVIOUS
<1>4. replies' = Append(replies, r)
  BY DEF Answer
<1> HIDE DEF r
<1>5. replies' \in Seq(Reply)
  BY <1>2, <1>4 DEF TypeInv
<1>6. \A i \in DOMAIN replies' : replies'[i].name = NoName => replies'[i].pieces = 0
  <2>1. \A i \in DOMAIN replies' : replies'[i] = r \/ (i \in DOMAIN replies /\ replies'[i] = replies[i])
    BY <1>2, <1>4 DEF TypeInv
  <2> QED
    BY <1>3, <2>1 DEF TypeInv
<1>7. InCall' = InCall /\ Awaited' = Awaited
  BY DEF InCall, Awaited, Answer
<1> QED
  BY <1>1, <1>5, <1>6, <1>7 DEF TypeInv, Answer, storage

LEMMA TypeMetadataServer ==
  ASSUME TypeInv, MetadataServer
  PROVE  TypeInv'
<1>1. NoName \in Name \cup {NoName} /\ 0 \in 0 .. MaxPieces
  BY Constants
<1>2. ASSUME requests # <<>>
      PROVE  Head(requests).name \in Name /\ Head(requests).object \in Object
  <2>1. Head(requests) \in Request
    BY <1>2 DEF TypeInv
  <2> QED
    BY <2>1 DEF Request
<1>3. ASSUME NEW pieces \in 1 .. MaxPieces, GrantPut(pieces) PROVE TypeInv'
  <2>1. Head(requests).name \in Name /\ Head(requests).object \in Object /\ pieces \in 0 .. MaxPieces
    BY <1>2, <1>3, Constants DEF GrantPut
  <2>2. index' \in [Name -> 0 .. MaxPieces] /\ stored' \in [Name -> Object]
    BY <1>3, <2>1 DEF GrantPut, TypeInv
  <2>3. Head(requests).name # NoName
    BY <2>1, BatchAssumption
  <2> QED
    BY <1>3, <2>1, <2>2, <2>3, TypeAnswer DEF GrantPut
<1>4. CASE FindGet
  <2>1. Head(requests).name \in Name /\ Head(requests).name # NoName
    BY <1>2, <1>4, BatchAssumption DEF FindGet
  <2>2. index[Head(requests).name] \in 0 .. MaxPieces
    BY <2>1 DEF TypeInv
  <2>3. index' \in [Name -> 0 .. MaxPieces] /\ stored' \in [Name -> Object]
    BY <1>4 DEF FindGet, TypeInv
  <2> QED
    BY <1>4, <2>1, <2>2, <2>3, TypeAnswer DEF FindGet
<1>5. CASE NotInMemory
  <2>1. index' \in [Name -> 0 .. MaxPieces] /\ stored' \in [Name -> Object]
    BY <1>5 DEF NotInMemory, TypeInv
  <2> QED
    BY <1>1, <1>5, <2>1, TypeAnswer DEF NotInMemory
<1>6. CASE HookThrows
  <2>1. index' \in [Name -> 0 .. MaxPieces] /\ stored' \in [Name -> Object]
    BY <1>6 DEF HookThrows, TypeInv
  <2> QED
    BY <1>1, <1>6, <2>1, TypeAnswer DEF HookThrows
<1> QED
  BY <1>3, <1>4, <1>5, <1>6 DEF MetadataServer

\* The reply at the head of the connection.
LEMMA HeadOfReplies ==
  ASSUME TypeInv, replies # <<>>
  PROVE  /\ Head(replies) \in Reply /\ Tail(replies) \in Seq(Reply)
         /\ Head(replies) = replies[1]
         /\ Len(Tail(replies)) = Len(replies) - 1
         /\ \A i \in 1 .. Len(Tail(replies)) : Tail(replies)[i] = replies[i + 1]
         /\ Head(replies).name = NoName => Head(replies).pieces = 0
         /\ \A i \in DOMAIN Tail(replies) :
              Tail(replies)[i].name = NoName => Tail(replies)[i].pieces = 0
<1>1. replies \in Seq(Reply) /\ Len(replies) \in Nat /\ Len(replies) >= 1
  BY DEF TypeInv
<1>2. /\ Head(replies) \in Reply /\ Tail(replies) \in Seq(Reply)
      /\ Head(replies) = replies[1]
      /\ Len(Tail(replies)) = Len(replies) - 1
      /\ \A i \in 1 .. Len(Tail(replies)) : Tail(replies)[i] = replies[i + 1]
  BY <1>1
<1>3. \A i \in 1 .. Len(Tail(replies)) : i + 1 \in DOMAIN replies
  BY <1>1, <1>2
<1>4. 1 \in DOMAIN replies /\ DOMAIN Tail(replies) = 1 .. Len(Tail(replies))
  BY <1>1, <1>2
<1>5. \A i \in DOMAIN replies : replies[i].name = NoName => replies[i].pieces = 0
  BY DEF TypeInv
<1>6. \A i \in DOMAIN Tail(replies) :
        Tail(replies)[i].name = NoName => Tail(replies)[i].pieces = 0
  BY <1>2, <1>3, <1>4, <1>5
<1>7. Head(replies).name = NoName => Head(replies).pieces = 0
  BY <1>2, <1>4, <1>5
<1> QED
  BY <1>2, <1>6, <1>7

LEMMA KeyType ==
  ASSUME TypeInv, RecvInode
  PROVE  Key(Head(replies)) \in Name \cup {NoName}
<1>1. Head(replies).name \in Name \cup {NoName}
  BY HeadOfReplies DEF RecvInode, Reply
<1>2. call.names[pos] \in Name
  BY NamesType DEF RecvInode, InCall
<1> QED
  BY <1>1, <1>2 DEF Key

LEMMA TypeRecvInode ==
  ASSUME TypeInv, RecvInode
  PROVE  TypeInv'
<1> DEFINE r == Head(replies)  K == Key(r)  s == Slices(r)
<1>1. InCall /\ InCall' /\ phase' \in Phase
  BY DEF RecvInode, InCall, Phase
<1>2. /\ r \in Reply /\ Tail(replies) \in Seq(Reply)
      /\ r.name = NoName => r.pieces = 0
      /\ \A i \in DOMAIN Tail(replies) :
            Tail(replies)[i].name = NoName => Tail(replies)[i].pieces = 0
  BY HeadOfReplies DEF RecvInode
<1>3. pos' \in 1 .. Len(call'.names)
  BY <1>1, NamesType DEF RecvInode, Last
<1>4. K \in Name \cup {NoName}
  BY KeyType
<1>5. s \in Seq(Future) /\ Len(s) \in Nat /\ \A j \in 1 .. Len(s) : s[j].idx = j
  <2>1. s \in Seq(Future) /\ Len(s) = r.pieces /\ \A j \in 1 .. r.pieces : s[j] = Slice(r, j, j, j)
    BY <1>1, <1>2, SlicesType
  <2>2. \A j \in 1 .. r.pieces : Slice(r, j, j, j).idx = j
    BY DEF Slice
  <2> QED
    BY <2>1, <2>2
<1>6. futures[K] \in Seq(Future) /\ Len(futures[K]) \in Nat
  BY <1>4 DEF TypeInv
<1>7. futures' = [futures EXCEPT ![K] = futures[K] \o s]
  BY DEF RecvInode
<1> HIDE DEF r, K, s
<1>8. /\ futures[K] \o s \in Seq(Future)
      /\ Len(futures[K] \o s) = Len(futures[K]) + Len(s)
      /\ \A j \in 1 .. Len(futures[K]) : (futures[K] \o s)[j] = futures[K][j]
      /\ \A j \in Len(futures[K]) + 1 .. Len(futures[K]) + Len(s) :
            (futures[K] \o s)[j] = s[j - Len(futures[K])]
  BY <1>5, <1>6
<1>9. futures' \in [Name \cup {NoName} -> Seq(Future)]
  BY <1>4, <1>7, <1>8 DEF TypeInv
<1>10. \A j \in DOMAIN (futures[K] \o s) : (futures[K] \o s)[j].idx \in DOMAIN (futures[K] \o s)
  <2>1. \A j \in 1 .. Len(futures[K]) : futures[K][j].idx \in 1 .. Len(futures[K])
    BY <1>4, <1>6 DEF TypeInv
  <2>2. DOMAIN (futures[K] \o s) = 1 .. (Len(futures[K]) + Len(s))
    BY <1>8
  <2>3. \A j \in 1 .. Len(futures[K]) : (futures[K] \o s)[j].idx \in DOMAIN (futures[K] \o s)
    BY <1>5, <1>6, <1>8, <2>1, <2>2
  <2>4. ASSUME NEW j \in Len(futures[K]) + 1 .. Len(futures[K]) + Len(s)
        PROVE  (futures[K] \o s)[j].idx \in DOMAIN (futures[K] \o s)
    <3>1. j - Len(futures[K]) \in 1 .. Len(s)
      BY <1>5, <1>6
    <3>2. (futures[K] \o s)[j].idx = j - Len(futures[K])
      BY <1>5, <1>8, <3>1
    <3> QED
      BY <1>5, <1>6, <2>2, <3>1, <3>2
  <2> QED
    BY <1>5, <1>6, <2>2, <2>3, <2>4
<1>11. \A k \in Name \cup {NoName} : \A j \in DOMAIN futures'[k] :
         futures'[k][j].idx \in DOMAIN futures'[k]
  BY <1>4, <1>7, <1>10 DEF TypeInv
<1> QED
  BY <1>1, <1>2, <1>3, <1>9, <1>11 DEF TypeInv, RecvInode, storage, r

\* A call has ended, by a return or an exception.
LEMMA TypeEnd ==
  ASSUME TypeInv, phase' \in {"idle", "dead"}, call' = NoCall,
         requests' = requests, replies' = replies \/ (replies # <<>> /\ replies' = Tail(replies)),
         futures' = [k \in DOMAIN futures |-> <<>>],
         late' \subseteq ((Name \X (1 .. MaxPieces)) \X Piece),
         UNCHANGED <<index, mem, seat, calls, stored>>
  PROVE  TypeInv'
<1>1. replies' \in Seq(Reply) /\ \A i \in DOMAIN replies' :
        replies'[i].name = NoName => replies'[i].pieces = 0
  <2>1. CASE replies' = replies
    BY <2>1 DEF TypeInv
  <2>2. CASE replies # <<>> /\ replies' = Tail(replies)
    BY <2>2, HeadOfReplies
  <2> QED
    BY <2>1, <2>2
<1>2. ~InCall' /\ phase' \in Phase
  BY DEF InCall, Phase
<1>3. DOMAIN futures = Name \cup {NoName}
  BY DEF TypeInv
<1>4. /\ futures' \in [Name \cup {NoName} -> Seq(Future)]
      /\ \A k \in Name \cup {NoName} : futures'[k] = <<>>
  BY <1>3
<1> QED
  BY <1>1, <1>2, <1>4 DEF TypeInv

\* The slices a call has sent that were not served are among its futures.
LEMMA SentPutsFacts ==
  ASSUME TypeInv, NEW w \in SentPuts
  PROVE  /\ call.op = "put"
         /\ \E k \in Name \cup {NoName} : \E j \in DOMAIN futures[k] :
              /\ futures[k][j] \in Future
              /\ w = <<futures[k][j].place, futures[k][j].part>>
<1>1. call.op = "put"
  BY DEF SentPuts
<1>2. PICK k \in DOMAIN futures : \E f \in Range(futures[k]) : w = <<f.place, f.part>>
  BY <1>1 DEF SentPuts
<1>3. k \in Name \cup {NoName} /\ futures[k] \in Seq(Future)
  BY DEF TypeInv
<1>4. PICK j \in DOMAIN futures[k] : w = <<futures[k][j].place, futures[k][j].part>>
  BY <1>2 DEF Range
<1>5. futures[k][j] \in Future
  BY <1>3
<1> QED
  BY <1>1, <1>3, <1>4, <1>5

LEMMA TypeRecvException ==
  ASSUME TypeInv, RecvException
  PROVE  TypeInv'
<1>1. SentPuts \subseteq ((Name \X (1 .. MaxPieces)) \X Piece)
  BY SentPutsFacts DEF Future
<1>2. late' \subseteq ((Name \X (1 .. MaxPieces)) \X Piece)
  BY <1>1 DEF RecvException, TypeInv
<1> QED
  BY <1>2, TypeEnd DEF RecvException, AfterThrow

LEMMA TypeReturn ==
  ASSUME TypeInv, Return
  PROVE  TypeInv'
  BY TypeEnd DEF Return, TypeInv, metadata, storage

LEMMA TypeRecvNothing ==
  ASSUME TypeInv, RecvNothing
  PROVE  TypeInv'
<1>1. InCall /\ InCall' /\ phase' \in Phase
  BY DEF RecvNothing, InCall, Phase
<1> QED
  BY <1>1 DEF TypeInv, RecvNothing, metadata, storage

\* A slice is served: its future is answered, and a put stores its part.
LEMMA ServeFacts ==
  ASSUME TypeInv, NEW k \in Name \cup {NoName}, NEW j \in DOMAIN futures[k], Serve(k, j)
  PROVE  LET f == futures[k][j]
             a == IF call.op = "get" THEN mem[f.place[1]][f.place[2]] ELSE NoPiece
         IN  /\ f \in Future /\ f.state = "sent" /\ a \in Piece
             /\ f.place[1] \in Name /\ f.place[2] \in 1 .. MaxPieces
             /\ futures' \in [Name \cup {NoName} -> Seq(Future)]
             /\ \A l \in Name \cup {NoName} : l # k => futures'[l] = futures[l]
             /\ Len(futures'[k]) = Len(futures[k]) /\ DOMAIN futures'[k] = DOMAIN futures[k]
             /\ \A i \in DOMAIN futures[k] \ {j} : futures'[k][i] = futures[k][i]
             /\ futures'[k][j].place = f.place /\ futures'[k][j].part = f.part
             /\ futures'[k][j].idx = f.idx /\ futures'[k][j].state = "answered"
             /\ futures'[k][j].answer = a /\ futures'[k][j].content = f.content
<1> DEFINE f == futures[k][j]
           a == IF call.op = "get" THEN mem[f.place[1]][f.place[2]] ELSE NoPiece
           g == [futures[k] EXCEPT ![j] = WithAnswer(f, a)]
<1>1. futures[k] \in Seq(Future) /\ f \in Future
  BY DEF TypeInv
<1>2. f.place[1] \in Name /\ f.place[2] \in 1 .. MaxPieces
  BY <1>1 DEF Future
<1>3. a \in Piece
  BY <1>2, Constants DEF TypeInv
<1>4. f.state = "sent"
  BY DEF Serve
<1>5. futures' = [futures EXCEPT ![k] = g]
  BY DEF Serve, WithAnswer
<1> HIDE DEF a
<1>11. j \in DOMAIN futures[k] /\ g = [futures[k] EXCEPT ![j] = WithAnswer(futures[k][j], a)]
  OBVIOUS
<1> HIDE DEF g
<1>6. /\ g \in Seq(Future) /\ Len(g) = Len(futures[k]) /\ DOMAIN g = DOMAIN futures[k]
      /\ \A i \in DOMAIN futures[k] \ {j} : g[i] = futures[k][i]
      /\ g[j].place = f.place /\ g[j].part = f.part /\ g[j].idx = f.idx
      /\ g[j].state = "answered" /\ g[j].answer = a /\ g[j].content = f.content
  BY <1>1, <1>3, <1>11, ServeOne
<1>7. /\ futures' \in [Name \cup {NoName} -> Seq(Future)]
      /\ futures'[k] = g
      /\ \A l \in Name \cup {NoName} : l # k => futures'[l] = futures[l]
  BY <1>5, <1>6 DEF TypeInv
<1> USE DEF a
<1> QED
  BY <1>1, <1>2, <1>3, <1>4, <1>6, <1>7

\* The other slices stay as they are.
LEMMA ServeOthers ==
  ASSUME TypeInv, NEW k \in Name \cup {NoName}, NEW j \in DOMAIN futures[k], Serve(k, j)
  PROVE  /\ futures' \in [Name \cup {NoName} -> Seq(Future)]
         /\ \A l \in Name \cup {NoName} : l # k => futures'[l] = futures[l]
         /\ Len(futures'[k]) = Len(futures[k]) /\ DOMAIN futures'[k] = DOMAIN futures[k]
         /\ \A i \in DOMAIN futures[k] \ {j} : futures'[k][i] = futures[k][i]
<1>1. futures' \in [Name \cup {NoName} -> Seq(Future)]
  BY ServeFacts
<1>2. \A l \in Name \cup {NoName} : l # k => futures'[l] = futures[l]
  BY ServeFacts
<1>3. Len(futures'[k]) = Len(futures[k]) /\ DOMAIN futures'[k] = DOMAIN futures[k]
  BY ServeFacts
<1>4. \A i \in DOMAIN futures[k] \ {j} : futures'[k][i] = futures[k][i]
  BY ServeFacts
<1> QED
  BY <1>1, <1>2, <1>3, <1>4

LEMMA TypeServe ==
  ASSUME TypeInv, NEW k \in Name \cup {NoName}, NEW j \in DOMAIN futures[k], Serve(k, j)
  PROVE  TypeInv'
<1> DEFINE f == futures[k][j]
<1>1. /\ futures' \in [Name \cup {NoName} -> Seq(Future)]
      /\ \A l \in Name \cup {NoName} : l # k => futures'[l] = futures[l]
      /\ DOMAIN futures'[k] = DOMAIN futures[k]
      /\ \A i \in DOMAIN futures[k] : futures'[k][i].idx = futures[k][i].idx
  <2>1. /\ futures' \in [Name \cup {NoName} -> Seq(Future)]
        /\ \A l \in Name \cup {NoName} : l # k => futures'[l] = futures[l]
        /\ DOMAIN futures'[k] = DOMAIN futures[k]
    BY ServeOthers
  <2>2. futures'[k][j].idx = futures[k][j].idx
    BY ServeFacts
  <2>3. \A i \in DOMAIN futures[k] \ {j} : futures'[k][i] = futures[k][i]
    BY ServeOthers
  <2> QED
    BY <2>1, <2>2, <2>3
<1>2. \A l \in Name \cup {NoName} : \A i \in DOMAIN futures'[l] :
        futures'[l][i].idx \in DOMAIN futures'[l]
  BY <1>1 DEF TypeInv
<1>3. f.place[1] \in Name /\ f.place[2] \in 1 .. MaxPieces /\ f.part \in Piece
  BY ServeFacts DEF Future
<1>4. mem' \in [Name -> [1 .. MaxPieces -> Piece]]
  BY <1>3 DEF Serve, TypeInv
<1>5. InCall' = InCall
  BY DEF Serve, InCall
<1>6. InCall => Len(Awaited') = Len(Awaited)
  <2> SUFFICES ASSUME InCall PROVE Len(Awaited') = Len(Awaited)
    OBVIOUS
  <2>1. call.names[pos] \in Name /\ Awaited' = futures'[call.names[pos]]
    BY NamesType DEF Awaited, Serve
  <2>2. Len(futures'[k]) = Len(futures[k])
    BY ServeFacts
  <2> QED
    BY <1>1, <2>1, <2>2 DEF Awaited
<1>7. phase' = "wait" => seat' = 1 \/ seat' <= Len(Awaited')
  BY <1>6 DEF TypeInv, Serve, InCall
<1> QED
  BY <1>1, <1>2, <1>4, <1>5, <1>7 DEF TypeInv, Serve, metadata, storage

\* The reply of a slice is taken.
LEMMA RecvAsyncFacts ==
  ASSUME TypeInv, RecvAsync
  PROVE  LET k == call.names[pos]
             e == futures[k][seat].idx
         IN  /\ InCall /\ k \in Name /\ seat \in DOMAIN futures[k] /\ e \in DOMAIN futures[k]
             /\ futures[k][seat].state = "answered"
             /\ futures' \in [Name \cup {NoName} -> Seq(Future)]
             /\ \A l \in Name \cup {NoName} : l # k => futures'[l] = futures[l]
             /\ Len(futures'[k]) = Len(futures[k]) /\ DOMAIN futures'[k] = DOMAIN futures[k]
             /\ \A i \in DOMAIN futures[k] :
                  /\ futures'[k][i].place = futures[k][i].place
                  /\ futures'[k][i].part = futures[k][i].part
                  /\ futures'[k][i].idx = futures[k][i].idx
                  /\ futures'[k][i].answer = futures[k][i].answer
                  /\ futures'[k][i].state = IF i = seat THEN "taken" ELSE futures[k][i].state
                  /\ futures'[k][i].content =
                       IF i = e THEN futures[k][seat].answer ELSE futures[k][i].content
<1> DEFINE k == call.names[pos]
           e == futures[k][seat].idx
           a == futures[k][seat].answer
           h == [futures[k] EXCEPT ![seat] = WithReply(futures[k][seat])]
           g == [h EXCEPT ![e] = WithContent(h[e], a)]
<1>1. InCall /\ k \in Name
  BY NamesType DEF RecvAsync, InCall
<1>2. futures[k] \in Seq(Future) /\ seat \in DOMAIN futures[k] /\ futures[k][seat] \in Future
  <2>1. futures[k] \in Seq(Future) /\ futures[k] # <<>>
    BY <1>1 DEF TypeInv, RecvAsync, Awaited
  <2>2. seat \in Nat \ {0} /\ (seat = 1 \/ seat <= Len(futures[k]))
    BY DEF TypeInv, RecvAsync, Awaited
  <2>3. seat \in DOMAIN futures[k]
    BY <2>1, <2>2
  <2> QED
    BY <2>1, <2>3
<1>3. e \in DOMAIN futures[k] /\ a \in Piece
  BY <1>1, <1>2 DEF TypeInv, Future
<1>4. futures[k][seat].state = "answered"
  BY DEF RecvAsync, Awaited
<1>5. futures' = [futures EXCEPT ![k] = g]
  <2>1. futures' = [futures EXCEPT ![k][seat].state = "taken", ![k][e].content = a]
    BY DEF RecvAsync, Awaited
  <2> DEFINE F1 == [futures EXCEPT ![k][seat].state = "taken"]
  <2>2. futures' = [F1 EXCEPT ![k][e].content = a]
    BY <2>1
  <2>3. F1 = [futures EXCEPT ![k] = h]
    BY DEF WithReply
  <2>4. k \in DOMAIN futures
    BY <1>1 DEF TypeInv
  <2> HIDE DEF F1, h, a, e, k
  <2>5. F1[k] = h
    BY <2>3, <2>4
  <2>6. futures' = [F1 EXCEPT ![k] = g]
    BY <2>2, <2>5 DEF WithContent
  <2> HIDE DEF g
  <2> QED
    BY <2>3, <2>4, <2>6
<1> HIDE DEF a, e
<1>8. seat \in DOMAIN futures[k] /\ h = [futures[k] EXCEPT ![seat] = WithReply(futures[k][seat])]
  BY <1>2
<1>9. g = [h EXCEPT ![e] = WithContent(h[e], a)]
  OBVIOUS
<1> HIDE DEF g, h, k
<1>11. futures[k] \in Seq(Future)
  BY <1>2
<1>12. /\ h \in Seq(Future) /\ Len(h) = Len(futures[k]) /\ DOMAIN h = DOMAIN futures[k]
       /\ \A i \in DOMAIN futures[k] :
            /\ h[i].place = futures[k][i].place /\ h[i].part = futures[k][i].part
            /\ h[i].idx = futures[k][i].idx /\ h[i].answer = futures[k][i].answer
            /\ h[i].content = futures[k][i].content
            /\ h[i].state = IF i = seat THEN "taken" ELSE futures[k][i].state
  BY <1>8, <1>11, ReplyOne
<1>13. h \in Seq(Future) /\ e \in DOMAIN h /\ a \in Piece
  BY <1>3, <1>12
<1>14. /\ g \in Seq(Future) /\ Len(g) = Len(h) /\ DOMAIN g = DOMAIN h
       /\ \A i \in DOMAIN h :
            /\ g[i].place = h[i].place /\ g[i].part = h[i].part /\ g[i].idx = h[i].idx
            /\ g[i].answer = h[i].answer /\ g[i].state = h[i].state
            /\ g[i].content = IF i = e THEN a ELSE h[i].content
  BY <1>9, <1>13, ContentOne
<1>6. /\ g \in Seq(Future) /\ Len(g) = Len(futures[k]) /\ DOMAIN g = DOMAIN futures[k]
      /\ \A i \in DOMAIN futures[k] :
           /\ g[i].place = futures[k][i].place /\ g[i].part = futures[k][i].part
           /\ g[i].idx = futures[k][i].idx /\ g[i].answer = futures[k][i].answer
           /\ g[i].state = IF i = seat THEN "taken" ELSE futures[k][i].state
           /\ g[i].content = IF i = e THEN a ELSE futures[k][i].content
  BY <1>12, <1>14
<1>7. /\ futures' \in [Name \cup {NoName} -> Seq(Future)]
      /\ futures'[k] = g
      /\ \A l \in Name \cup {NoName} : l # k => futures'[l] = futures[l]
  BY <1>1, <1>5, <1>6 DEF TypeInv
<1> USE DEF k, e, a
<1> QED
  BY <1>1, <1>2, <1>3, <1>4, <1>6, <1>7

LEMMA TypeRecvAsync ==
  ASSUME TypeInv, RecvAsync
  PROVE  TypeInv'
<1> DEFINE k == call.names[pos]
<1>1. /\ InCall /\ k \in Name
      /\ futures' \in [Name \cup {NoName} -> Seq(Future)]
      /\ \A l \in Name \cup {NoName} : l # k => futures'[l] = futures[l]
      /\ Len(futures'[k]) = Len(futures[k]) /\ DOMAIN futures'[k] = DOMAIN futures[k]
      /\ seat \in DOMAIN futures[k]
  BY RecvAsyncFacts
<1>2. \A i \in DOMAIN futures[k] : futures'[k][i].idx = futures[k][i].idx
  BY RecvAsyncFacts
<1>3. \A l \in Name \cup {NoName} : \A i \in DOMAIN futures'[l] :
        futures'[l][i].idx \in DOMAIN futures'[l]
  BY <1>1, <1>2 DEF TypeInv
<1>4. futures[k] \in Seq(Future) /\ Len(futures[k]) \in Nat
  BY <1>1 DEF TypeInv
<1>5. /\ phase' \in {"wait", "done"} /\ pos' \in 1 .. Len(call.names) /\ seat' \in Nat \ {0}
      /\ phase' = "wait" => seat' = 1 \/ (seat' <= Len(futures[k]) /\ pos' = pos)
  <2>1. pos \in 1 .. Len(call.names) /\ seat \in Nat \ {0} /\ seat <= Len(futures[k])
    <3>1. pos \in 1 .. Len(call.names) /\ seat \in Nat \ {0}
      BY <1>1 DEF TypeInv
    <3>2. seat \in DOMAIN futures[k] /\ futures[k] \in Seq(Future)
      BY <1>1, <1>4
    <3> QED
      BY <3>1, <3>2
  <2>2. phase = "wait" /\ Awaited = futures[k]
    BY DEF RecvAsync, Awaited
  <2>3. CASE seat = Len(Awaited)
    <3>1. seat' = 1 /\ NextObject
      BY <2>3 DEF RecvAsync, Advance
    <3>2. Len(call.names) \in Nat
      BY <1>1, NamesType
    <3> QED
      BY <2>1, <2>2, <3>1, <3>2 DEF NextObject, Last
  <2>4. CASE seat # Len(Awaited)
    <3>1. seat' = seat + 1 /\ UNCHANGED <<phase, pos>>
      BY <2>4 DEF RecvAsync, Advance
    <3>2. seat # Len(futures[k]) /\ Len(futures[k]) \in Nat
      BY <1>4, <2>2, <2>4
    <3> QED
      BY <2>1, <2>2, <3>1, <3>2
  <2> QED
    BY <2>3, <2>4
<1>6. phase' = "wait" => seat' = 1 \/ seat' <= Len(Awaited')
  BY <1>1, <1>5 DEF Awaited, RecvAsync
<1>7. InCall' /\ phase' \in Phase
  BY <1>5 DEF InCall, Phase
<1> QED
  BY <1>1, <1>3, <1>5, <1>6, <1>7 DEF TypeInv, RecvAsync, metadata, storage

\* A slice whose put threw is served.
LEMMA ServeLateFacts ==
  ASSUME TypeInv, NEW w \in late, ServeLate(w)
  PROVE  /\ w \in (Name \X (1 .. MaxPieces)) \X Piece
         /\ w[1][1] \in Name /\ w[1][2] \in 1 .. MaxPieces /\ w[2] \in Piece
         /\ mem' \in [Name -> [1 .. MaxPieces -> Piece]]
         /\ \A n \in Name, j \in 1 .. MaxPieces :
              mem'[n][j] = IF n = w[1][1] /\ j = w[1][2] THEN w[2] ELSE mem[n][j]
         /\ late' \subseteq late
         /\ UNCHANGED <<requests, replies, index, phase, call, pos, seat, futures, calls, stored>>
<1>1. w \in (Name \X (1 .. MaxPieces)) \X Piece
  BY DEF TypeInv
<1>2. w[1][1] \in Name /\ w[1][2] \in 1 .. MaxPieces /\ w[2] \in Piece
  BY <1>1
<1> DEFINE n0 == w[1][1]  j0 == w[1][2]  x == w[2]
<1>3. mem' = [mem EXCEPT ![n0][j0] = x]
  BY DEF ServeLate
<1>4. n0 \in Name /\ j0 \in 1 .. MaxPieces /\ x \in Piece
  BY <1>2
<1>5. late' \subseteq late
      /\ UNCHANGED <<requests, replies, index, phase, call, pos, seat, futures, calls, stored>>
  BY DEF ServeLate, metadata
<1> HIDE DEF n0, j0, x
<1>6. /\ mem' \in [Name -> [1 .. MaxPieces -> Piece]]
      /\ \A n \in Name, j \in 1 .. MaxPieces :
           mem'[n][j] = IF n = n0 /\ j = j0 THEN x ELSE mem[n][j]
  BY <1>3, <1>4 DEF TypeInv
<1> QED
  BY <1>1, <1>2, <1>5, <1>6 DEF n0, j0, x

LEMMA TypeServeLate ==
  ASSUME TypeInv, NEW w \in late, ServeLate(w)
  PROVE  TypeInv'
  BY ServeLateFacts DEF TypeInv, InCall, Awaited

LEMMA TypeStep ==
  ASSUME TypeInv, [Next]_vars
  PROVE  TypeInv'
<1>1. CASE Call
  BY <1>1, TypeBegin DEF Call, Op
<1>2. CASE Client
  BY <1>2, TypeSendRequest, TypeRecvInode, TypeRecvException, TypeRecvNothing,
     TypeRecvAsync, TypeReturn DEF Client
<1>3. CASE MetadataServer
  BY <1>3, TypeMetadataServer
<1>4. CASE StorageServers
  <2>1. DOMAIN futures = Name \cup {NoName}
    BY DEF TypeInv
  <2> QED
    BY <1>4, <2>1, TypeServe, TypeServeLate DEF StorageServers
<1>5. CASE UNCHANGED vars
  BY <1>5 DEF TypeInv, InCall, Awaited, vars, metadata, storage
<1> QED
  BY <1>1, <1>2, <1>3, <1>4, <1>5 DEF Next

\* The types of Client's state, TypeOK's among them.
THEOREM ClientTypeCorrect == Spec => []TypeInv
<1> QED
  BY TypeInit, TypeStep, PTL DEF Spec

-----------------------------------------------------------------------------
(* The invariant, action by action                                         *)

LEMMA DistinctNames ==
  ASSUME TypeInv, InCall, Distinct, NEW p \in 1 .. Len(call.names),
         NEW q \in 1 .. Len(call.names), call.names[p] = call.names[q]
  PROVE  p = q
<1>1. call.names \in Batch /\ DOMAIN call.names = 1 .. Len(call.names)
  BY NamesType
<1> QED
  BY <1>1 DEF Distinct

LEMMA Counts ==
  ASSUME TypeInv
  PROVE  /\ Len(requests) \in Nat /\ Len(replies) \in Nat
         /\ InCall => /\ Sent \in 0 .. Len(call.names) /\ Received \in 0 .. Len(call.names)
                      /\ Answered \in Nat /\ Received <= Answered
         /\ \A k \in Name \cup {NoName} : Len(futures[k]) \in Nat
<1>1. /\ Len(requests) \in Nat /\ Len(replies) \in Nat
      /\ \A k \in Name \cup {NoName} : Len(futures[k]) \in Nat
  BY DEF TypeInv
<1>2. ASSUME InCall
      PROVE  Sent \in 0 .. Len(call.names) /\ Received \in 0 .. Len(call.names)
  BY <1>2, NamesType DEF Sent, Received
<1> QED
  BY <1>1, <1>2 DEF Answered

\* A step that touches neither the slices nor the replies received.
LEMMA FuturesKept ==
  ASSUME FuturesInv, UNCHANGED <<index, mem, call, calls, futures>>,
         InCall' = InCall, Received' = Received
  PROVE  FuturesInv'
<1>1. \A p, j : SliceOK(futures[call.names[p]][j], p, j)' = SliceOK(futures[call.names[p]][j], p, j)
  BY DEF SliceOK, ObjectAt
<1>2. ~InCall' => \A k \in Name \cup {NoName} : futures'[k] = <<>>
  BY DEF FuturesInv
<1>3. InCall' => \A k \in Name \cup {NoName} :
        (\A p \in 1 .. Received' : call'.names[p] # k) => futures'[k] = <<>>
  BY DEF FuturesInv
<1>4. ASSUME InCall', NEW p \in 1 .. Received'
      PROVE  /\ Len(futures'[call'.names[p]]) = index'[call'.names[p]]
             /\ \A j \in 1 .. Len(futures'[call'.names[p]]) :
                  SliceOK(futures[call.names[p]][j], p, j)'
  BY <1>1, <1>4 DEF FuturesInv
<1> QED
  BY <1>2, <1>3, <1>4 DEF FuturesInv

LEMMA InvInit == Init => ClientInv
<1> SUFFICES ASSUME Init PROVE ClientInv
  OBVIOUS
<1>1. ~InCall /\ phase = "idle"
  BY DEF Init, InCall
<1>2. MaxPieces \in Nat
  BY Constants
<1> QED
  BY <1>1, <1>2 DEF Init, ClientInv, QueueInv, GrantInv, FuturesInv, TakenInv, MemInv

LEMMA InvBegin ==
  ASSUME TypeInv, ClientInv, NEW op \in Op, NEW vector \in BOOLEAN, NEW names \in Batch,
         Begin(op, vector, names)
  PROVE  ClientInv'
<1>1. names \in Seq(Name) /\ Len(names) \in Nat /\ DOMAIN names = 1 .. Len(names)
  BY BatchAssumption
<1>2. /\ phase = "idle" /\ ~InCall /\ phase' = "send" /\ pos' = 1 /\ InCall'
      /\ call' = [op |-> op, vector |-> vector, names |-> names]
      /\ UNCHANGED <<requests, replies, index, mem, futures, stored>>
  BY DEF Begin, InCall, metadata, storage
<1>3. call'.op = op /\ call'.names = names
  BY <1>2
<1>4. requests = <<>> /\ replies = <<>>
  BY <1>2 DEF ClientInv, QueueInv
<1>5. Received' = 0 /\ Sent' = 0
  BY <1>2 DEF Received, Sent
<1>6. Answered' = 0
  BY <1>2, <1>4, <1>5 DEF Answered
<1>7. QueueInv'
  BY <1>2, <1>4, <1>5, <1>6 DEF QueueInv
<1>8. GrantInv'
  BY <1>1, <1>2, <1>3, <1>6 DEF GrantInv, Begin, MayBegin
<1>9. FuturesInv'
  BY <1>2, <1>5 DEF FuturesInv, ClientInv
<1>10. TakenInv'
  BY <1>2 DEF TakenInv
<1>11. MemInv'
  BY <1>2 DEF MemInv, ClientInv
<1> QED
  BY <1>7, <1>8, <1>9, <1>10, <1>11 DEF ClientInv

LEMMA InvSendRequest ==
  ASSUME TypeInv, ClientInv, SendRequest
  PROVE  ClientInv'
<1> DEFINE r == [op |-> call.op, name |-> call.names[pos], object |-> ObjectAt(pos)]
<1>1. /\ phase = "send" /\ InCall /\ InCall' /\ phase' \in {"send", "recv"}
      /\ requests' = Append(requests, r)
      /\ UNCHANGED <<replies, index, mem, call, futures, calls, stored>>
  BY DEF SendRequest, InCall, storage
<1>2. pos \in 1 .. Len(call.names) /\ Len(call.names) \in Nat
  BY <1>1, NamesType
<1>3. Received = 0 /\ Received' = 0 /\ Sent = pos - 1 /\ Sent' = pos
  BY <1>1, <1>2 DEF Received, Sent, SendRequest, Last
<1>4. Answered' = Answered /\ Answered = Len(replies) /\ Len(replies) \in Nat
  BY <1>1, <1>3, Counts DEF Answered
<1>5. Answered + Len(requests) = pos - 1 /\ Len(requests) \in Nat
  BY <1>1, <1>3, Counts DEF ClientInv, QueueInv
<1>6. r.op = call.op /\ r.name = call.names[pos] /\ r.object = ObjectAt(pos)
  OBVIOUS
<1> HIDE DEF r
<1>7. /\ Len(requests') = Len(requests) + 1
      /\ \A i \in 1 .. Len(requests) : requests'[i] = requests[i]
      /\ requests'[Len(requests) + 1] = r
  BY <1>1 DEF TypeInv
<1>8. \A i \in 1 .. Len(requests') :
        /\ requests'[i].op = call.op
        /\ requests'[i].name = call.names[Answered + i]
        /\ requests'[i].object = ObjectAt(Answered + i)
  <2>1. \A i \in 1 .. Len(requests) :
          /\ requests[i].op = call.op
          /\ requests[i].name = call.names[Answered + i]
          /\ requests[i].object = ObjectAt(Answered + i)
    BY <1>1 DEF ClientInv, QueueInv
  <2>2. Answered + (Len(requests) + 1) = pos
    BY <1>2, <1>4, <1>5
  <2> TAKE i \in 1 .. Len(requests')
  <2>3. CASE i \in 1 .. Len(requests)
    BY <1>7, <2>1, <2>3
  <2>4. CASE i = Len(requests) + 1
    BY <1>6, <1>7, <2>2, <2>4
  <2> QED
    BY <1>5, <1>7, <2>3, <2>4
<1>9. QueueInv'
  <2>1. Answered' + Len(requests') = Sent'
    BY <1>2, <1>3, <1>4, <1>5, <1>7
  <2>2. \A i \in 1 .. Len(replies') : replies'[i].kind = "inode" =>
            /\ replies'[i].pieces = index'[call'.names[Received' + i]]
            /\ \/ replies'[i].name = call'.names[Received' + i]
               \/ replies'[i].name = NoName /\ replies'[i].pieces = 0
    BY <1>1, <1>3 DEF ClientInv, QueueInv
  <2> QED
    BY <1>1, <1>4, <1>8, <2>1, <2>2 DEF QueueInv, ObjectAt
<1>10. GrantInv'
  BY <1>1, <1>4 DEF ClientInv, GrantInv, ObjectAt
<1>11. FuturesInv'
  BY <1>1, <1>3 DEF ClientInv, FuturesInv
<1>12. TakenInv'
  BY <1>1 DEF TakenInv
<1>13. MemInv'
  BY <1>1 DEF ClientInv, MemInv
<1> QED
  BY <1>9, <1>10, <1>11, <1>12, <1>13 DEF ClientInv

LEMMA InvRecvException ==
  ASSUME TypeInv, ClientInv, Reuse = FALSE, RecvException
  PROVE  ClientInv'
<1>1. /\ phase' = "dead" /\ ~InCall' /\ DOMAIN futures = Name \cup {NoName}
      /\ futures' = [k \in DOMAIN futures |-> <<>>]
      /\ UNCHANGED <<requests, mem, index, stored>>
  BY DEF RecvException, AfterThrow, InCall, TypeInv
<1> QED
  BY <1>1 DEF ClientInv, QueueInv, GrantInv, FuturesInv, TakenInv, MemInv

LEMMA InvRecvNothing ==
  ASSUME TypeInv, ClientInv, RecvNothing
  PROVE  ClientInv'
<1>1. /\ phase = "wait" /\ InCall /\ InCall'
      /\ phase' = (IF call.vector THEN "crashed" ELSE "done")
      /\ UNCHANGED <<requests, replies, index, mem, call, pos, seat, futures, calls, stored>>
  BY DEF RecvNothing, InCall, metadata, storage
<1>2. Received' = Received /\ Received = Len(call.names) /\ Answered' = Answered
  BY <1>1 DEF Received, Answered
<1>3. /\ pos \in 1 .. Len(call.names) /\ Len(call.names) \in Nat /\ call.names[pos] \in Name
      /\ Len(futures[call.names[pos]]) = 0
  BY <1>1, NamesType DEF RecvNothing, Awaited
<1>4. index[call.names[pos]] = 0
  BY <1>1, <1>2, <1>3 DEF ClientInv, FuturesInv
<1>5. QueueInv'
  BY <1>1 DEF ClientInv, QueueInv
<1>6. GrantInv'
  BY <1>1, <1>2 DEF ClientInv, GrantInv, ObjectAt
<1>7. FuturesInv'
  BY <1>1, <1>2, FuturesKept DEF ClientInv
<1>8. TakenInv'
  <2>1. phase' = "done" => Len(call.names) = 1 /\ pos = 1
    BY <1>1, <1>3 DEF TypeInv
  <2>2. phase' = "done" => \A p \in 1 .. Len(call.names) : AllTaken(call.names[p])'
    BY <1>1, <1>3, <2>1 DEF AllTaken
  <2> QED
    BY <1>1, <1>4, <2>2 DEF TakenInv
<1>9. MemInv'
  BY <1>1 DEF ClientInv, MemInv
<1> QED
  BY <1>5, <1>6, <1>7, <1>8, <1>9 DEF ClientInv

\* A put that returns has stored what it was granted space for.
LEMMA PutDone ==
  ASSUME TypeInv, ClientInv, phase = "done", call.op = "put",
         NEW p \in 1 .. Len(call.names)
  PROVE  /\ index[call.names[p]] # 0 => stored[call.names[p]] = ObjectAt(p)
         /\ \A j \in 1 .. index[call.names[p]] :
              mem[call.names[p]][j] = <<stored[call.names[p]], j>>
<1> DEFINE n == call.names[p]
<1>1. InCall /\ Received = Len(call.names)
  BY DEF InCall, Received
<1>2. n \in Name /\ index[n] \in Nat
  BY <1>1, NamesType, Constants DEF TypeInv
<1>3. index[n] # 0 => stored[n] = ObjectAt(p)
  BY <1>1 DEF ClientInv, GrantInv
<1>4. Len(futures[n]) = index[n] /\ \A j \in 1 .. Len(futures[n]) : SliceOK(futures[n][j], p, j)
  BY <1>1 DEF ClientInv, FuturesInv
<1>5. AllTaken(n)
  BY DEF ClientInv, TakenInv
<1>6. \A j \in 1 .. index[n] : mem[n][j] = <<ObjectAt(p), j>>
  BY <1>4, <1>5 DEF SliceOK, AllTaken
<1> QED
  BY <1>2, <1>3, <1>6

LEMMA InvReturn ==
  ASSUME TypeInv, ClientInv, Return
  PROVE  ClientInv'
<1>1. /\ phase = "done" /\ InCall /\ phase' = "idle" /\ ~InCall'
      /\ DOMAIN futures = Name \cup {NoName}
      /\ futures' = [k \in DOMAIN futures |-> <<>>]
      /\ UNCHANGED <<requests, replies, mem, index, stored>>
  BY DEF Return, InCall, TypeInv, metadata, storage
<1>2. QueueInv' /\ GrantInv' /\ FuturesInv' /\ TakenInv'
  BY <1>1 DEF ClientInv, QueueInv, GrantInv, FuturesInv, TakenInv
<1>3. ASSUME NEW n \in Name PROVE \A j \in 1 .. index[n] : mem[n][j] = <<stored[n], j>>
  <2>1. CASE call.op = "put" /\ \E p \in 1 .. Len(call.names) : call.names[p] = n
    BY <1>1, <2>1, PutDone
  <2>2. CASE ~(call.op = "put" /\ \E p \in 1 .. Len(call.names) : call.names[p] = n)
    BY <1>1, <2>2 DEF ClientInv, MemInv
  <2> QED
    BY <2>1, <2>2
<1>4. MemInv'
  BY <1>1, <1>3 DEF MemInv
<1> QED
  BY <1>2, <1>4 DEF ClientInv

\* The request at the head of the connection.
LEMMA HeadOfRequests ==
  ASSUME TypeInv, ClientInv, requests # <<>>
  PROVE  /\ phase \in {"send", "recv", "dead"}
         /\ Len(Tail(requests)) = Len(requests) - 1 /\ Len(requests) >= 1
         /\ \A i \in 1 .. Len(Tail(requests)) : Tail(requests)[i] = requests[i + 1]
         /\ phase \in {"send", "recv"} =>
              /\ Answered + 1 \in 1 .. Len(call.names)
              /\ Head(requests).op = call.op
              /\ Head(requests).name = call.names[Answered + 1]
              /\ Head(requests).object = ObjectAt(Answered + 1)
<1>1. requests \in Seq(Request) /\ Len(requests) \in Nat /\ Len(requests) >= 1
  BY DEF TypeInv
<1>2. /\ Head(requests) = requests[1]
      /\ Len(Tail(requests)) = Len(requests) - 1
      /\ \A i \in 1 .. Len(Tail(requests)) : Tail(requests)[i] = requests[i + 1]
  BY <1>1
<1>3. phase \in {"send", "recv", "dead"}
  BY DEF ClientInv, QueueInv
<1>4. ASSUME phase \in {"send", "recv"}
      PROVE  /\ Answered + 1 \in 1 .. Len(call.names)
             /\ Head(requests).op = call.op
             /\ Head(requests).name = call.names[Answered + 1]
             /\ Head(requests).object = ObjectAt(Answered + 1)
  <2>1. InCall
    BY <1>4 DEF InCall
  <2>2. Answered + Len(requests) = Sent /\ Sent \in 0 .. Len(call.names) /\ Answered \in Nat
    BY <1>4, <2>1, Counts DEF ClientInv, QueueInv
  <2>3. Len(call.names) \in Nat
    BY <2>1, NamesType
  <2>4. Answered + 1 \in 1 .. Len(call.names)
    BY <1>1, <2>2, <2>3
  <2>5. 1 \in 1 .. Len(requests)
    BY <1>1
  <2> QED
    BY <1>2, <1>4, <2>4, <2>5 DEF ClientInv, QueueInv
<1> QED
  BY <1>1, <1>2, <1>3, <1>4

\* The request of position p is answered.
LEMMA InvAnswer ==
  ASSUME TypeInv, ClientInv, Distinct, phase \in {"send", "recv"},
         NEW name, NEW pieces, NEW kind, Answer(name, pieces, kind),
         NEW p, p = Answered + 1,
         \A q \in 1 .. Len(call.names) : q # p =>
            /\ index'[call.names[q]] = index[call.names[q]]
            /\ stored'[call.names[q]] = stored[call.names[q]],
         kind = "inode" => /\ pieces = index'[call.names[p]]
                           /\ name = call.names[p] \/ (name = NoName /\ pieces = 0),
         call.op = "put" /\ index'[call.names[p]] # 0 => stored'[call.names[p]] = ObjectAt(p),
         \A n \in Name : (call.op # "put" \/ \A q \in 1 .. Len(call.names) : call.names[q] # n) =>
            index'[n] = index[n] /\ stored'[n] = stored[n]
  PROVE  ClientInv'
<1> DEFINE r == [op |-> Head(requests).op, name |-> name, pieces |-> pieces, kind |-> kind]
<1>1. /\ InCall /\ InCall' /\ requests # <<>> /\ requests' = Tail(requests)
      /\ replies' = Append(replies, r)
      /\ UNCHANGED <<mem, phase, call, pos, seat, futures, calls>>
  BY DEF Answer, InCall, storage
<1>2. /\ p \in 1 .. Len(call.names) /\ Len(call.names) \in Nat
      /\ Received \in Nat /\ Answered \in Nat /\ Received <= Answered
      /\ Len(replies) \in Nat /\ Len(requests) \in Nat /\ Sent \in Nat
      /\ Answered = Received + Len(replies)
  BY <1>1, HeadOfRequests, NamesType, Counts DEF Answered
<1>3. Received' = Received /\ Sent' = Sent
  BY <1>1 DEF Received, Sent
<1>4. r.name = name /\ r.pieces = pieces /\ r.kind = kind
  OBVIOUS
<1> HIDE DEF r
<1>5. /\ Len(replies') = Len(replies) + 1 /\ replies'[Len(replies) + 1] = r
      /\ \A i \in 1 .. Len(replies) : replies'[i] = replies[i]
  BY <1>1 DEF TypeInv
<1>6. Answered' = Answered + 1
  BY <1>2, <1>3, <1>5 DEF Answered
<1>7. QueueInv'
  <2>1. Answered' + Len(requests') = Sent'
    <3>1. Answered + Len(requests) = Sent
      BY DEF ClientInv, QueueInv
    <3>2. Len(requests') = Len(requests) - 1
      BY <1>1, HeadOfRequests
    <3> QED
      BY <1>2, <1>3, <1>6, <3>1, <3>2
  <2>2. ASSUME NEW i \in 1 .. Len(requests')
        PROVE  /\ requests'[i].op = call.op
               /\ requests'[i].name = call.names[Answered' + i]
               /\ requests'[i].object = <<calls, Answered' + i>>
    <3>1. i + 1 \in 1 .. Len(requests) /\ requests'[i] = requests[i + 1]
      BY <1>1, <1>2, HeadOfRequests
    <3>2. Answered + (i + 1) = Answered' + i
      BY <1>2, <1>6
    <3>3. /\ requests[i + 1].op = call.op
          /\ requests[i + 1].name = call.names[Answered + (i + 1)]
          /\ requests[i + 1].object = <<calls, Answered + (i + 1)>>
      BY <3>1 DEF ClientInv, QueueInv, ObjectAt
    <3> QED
      BY <3>1, <3>2, <3>3
  <2>3. ASSUME NEW i \in 1 .. Len(replies'), replies'[i].kind = "inode"
        PROVE  /\ replies'[i].pieces = index'[call.names[Received + i]]
               /\ \/ replies'[i].name = call.names[Received + i]
                  \/ replies'[i].name = NoName /\ replies'[i].pieces = 0
    <3>1. CASE i \in 1 .. Len(replies)
      <4>1. Received + i \in 1 .. Len(call.names) /\ Received + i # p
        BY <1>2, <3>1
      <4>2. /\ replies[i].pieces = index[call.names[Received + i]]
            /\ \/ replies[i].name = call.names[Received + i]
               \/ replies[i].name = NoName /\ replies[i].pieces = 0
        BY <1>5, <2>3, <3>1 DEF ClientInv, QueueInv
      <4> QED
        BY <1>5, <3>1, <4>1, <4>2
    <3>2. CASE i = Len(replies) + 1
      <4>1. Received + i = p /\ replies'[i] = r
        BY <1>2, <1>5, <3>2
      <4> QED
        BY <1>4, <2>3, <4>1
    <3> QED
      BY <1>2, <1>5, <3>1, <3>2
  <2> QED
    BY <1>1, <1>3, <2>1, <2>2, <2>3 DEF QueueInv, ObjectAt
<1>8. GrantInv'
  <2> SUFFICES ASSUME call.op = "put", NEW q \in 1 .. Len(call.names)
               PROVE  /\ q > Answered + 1 => index'[call.names[q]] = 0
                      /\ index'[call.names[q]] # 0 => stored'[call.names[q]] = <<calls, q>>
    BY <1>1, <1>6 DEF GrantInv, ObjectAt
  <2>1. /\ q > Answered => index[call.names[q]] = 0
        /\ index[call.names[q]] # 0 => stored[call.names[q]] = <<calls, q>>
    BY <1>1 DEF ClientInv, GrantInv, ObjectAt
  <2>2. CASE q = p
    BY <1>2, <2>2 DEF ObjectAt
  <2>3. CASE q # p
    BY <1>2, <2>1, <2>3
  <2> QED
    BY <2>2, <2>3
<1>9. FuturesInv'
  <2>1. \A k \in Name \cup {NoName} :
          (\A q \in 1 .. Received : call.names[q] # k) => futures[k] = <<>>
    BY <1>1 DEF ClientInv, FuturesInv
  <2>2. ASSUME NEW q \in 1 .. Received
        PROVE  /\ Len(futures[call.names[q]]) = index'[call.names[q]]
               /\ \A j \in 1 .. Len(futures[call.names[q]]) :
                    SliceOK(futures[call.names[q]][j], q, j)
    <3>1. q \in 1 .. Len(call.names) /\ q # p
      BY <1>2
    <3> QED
      BY <1>1, <3>1 DEF ClientInv, FuturesInv
  <2>3. UNCHANGED <<mem, call, calls, futures>> /\ Received' = Received /\ InCall'
    BY <1>1, <1>3
  <2>4. \A k \in Name \cup {NoName} :
          (\A q \in 1 .. Received' : call'.names[q] # k) => futures'[k] = <<>>
    BY <2>1, <2>3
  <2>5. ASSUME NEW q \in 1 .. Received'
        PROVE  /\ Len(futures'[call'.names[q]]) = index'[call'.names[q]]
               /\ \A j \in 1 .. Len(futures'[call'.names[q]]) :
                    SliceOK(futures[call.names[q]][j], q, j)'
    BY <2>2, <2>3 DEF SliceOK, ObjectAt
  <2> QED
    BY <2>3, <2>4, <2>5 DEF FuturesInv
<1>10. TakenInv'
  BY <1>1 DEF TakenInv
<1>11. MemInv'
  <2> SUFFICES ASSUME NEW n \in Name,
                      call.op # "put" \/ \A q \in 1 .. Len(call.names) : call.names[q] # n
               PROVE  \A j \in 1 .. index'[n] : mem[n][j] = <<stored'[n], j>>
    BY <1>1 DEF MemInv
  <2>1. \A j \in 1 .. index[n] : mem[n][j] = <<stored[n], j>>
    BY DEF ClientInv, MemInv
  <2> QED
    BY <2>1
<1> QED
  BY <1>7, <1>8, <1>9, <1>10, <1>11 DEF ClientInv

LEMMA InvMetadataServer ==
  ASSUME TypeInv, ClientInv, Distinct, MetadataServer
  PROVE  ClientInv'
<1> DEFINE p == Answered + 1
           N == Head(requests).name
<1>1. requests # <<>> /\ UNCHANGED <<mem, phase, call, pos, seat, futures, calls>>
  BY DEF MetadataServer, GrantPut, FindGet, NotInMemory, HookThrows, Answer, storage
<1>2. CASE phase = "dead"
  <2>1. ~InCall /\ ~InCall'
    BY <1>1, <1>2 DEF InCall
  <2> QED
    BY <1>1, <1>2, <2>1 DEF ClientInv, QueueInv, GrantInv, FuturesInv, TakenInv, MemInv
<1>3. CASE phase \in {"send", "recv"}
  <2>1. /\ InCall /\ p \in 1 .. Len(call.names) /\ N = call.names[p] /\ N \in Name
        /\ Head(requests).op = call.op /\ Head(requests).object = ObjectAt(p)
        /\ call.op \in Op
    BY <1>1, <1>3, HeadOfRequests, NamesType DEF InCall, ACall
  <2>2. \A q \in 1 .. Len(call.names) : q # p => call.names[q] # N /\ call.names[q] \in Name
    BY <2>1, DistinctNames, NamesType
  <2>3. call.op = "put" /\ index[N] # 0 => stored[N] = ObjectAt(p)
    BY <2>1 DEF ClientInv, GrantInv
  <2>4. call.op = "put" => index[N] = 0
    <3>1. p > Answered
      BY <2>1, Counts
    <3> QED
      BY <1>3, <2>1, <3>1 DEF ClientInv, GrantInv
  <2> HIDE DEF p, N
  <2>5. ASSUME NEW pieces \in 1 .. MaxPieces, GrantPut(pieces) PROVE ClientInv'
    <3>1. /\ call.op = "put" /\ Answer(N, pieces, "inode")
          /\ index' = [index EXCEPT ![N] = pieces]
          /\ stored' = [stored EXCEPT ![N] = ObjectAt(p)]
      BY <2>1, <2>5 DEF GrantPut, N
    <3>2. /\ index'[N] = pieces /\ stored'[N] = ObjectAt(p)
          /\ \A n \in Name : n # N => index'[n] = index[n] /\ stored'[n] = stored[n]
      BY <2>1, <3>1 DEF TypeInv
    <3>3. \A q \in 1 .. Len(call.names) : q # p =>
            index'[call.names[q]] = index[call.names[q]]
            /\ stored'[call.names[q]] = stored[call.names[q]]
      BY <2>2, <3>2
    <3>4. \A n \in Name : (call.op # "put" \/ \A q \in 1 .. Len(call.names) : call.names[q] # n) =>
            index'[n] = index[n] /\ stored'[n] = stored[n]
      BY <2>1, <3>1, <3>2
    <3>5. p = Answered + 1
      BY DEF p
    <3> QED
      BY <1>3, <2>1, <3>1, <3>2, <3>3, <3>4, <3>5, InvAnswer
  <2>6. ASSUME NEW name, NEW pieces, NEW kind, Answer(name, pieces, kind),
               UNCHANGED <<index, stored>>,
               kind = "inode" => pieces = index[N] /\ (name = N \/ (name = NoName /\ pieces = 0))
        PROVE  ClientInv'
    BY <1>3, <2>1, <2>3, <2>6, InvAnswer DEF p
  <2>7. CASE FindGet
    <3>1. Answer(N, index[N], "inode") /\ UNCHANGED <<index, stored>>
      BY <2>7 DEF FindGet, N
    <3> QED
      BY <2>6, <3>1
  <2>8. CASE NotInMemory
    <3>1. Answer(NoName, 0, "inode") /\ UNCHANGED <<index, stored>>
      BY <2>8 DEF NotInMemory
    <3>2. index[N] = 0
      BY <2>1, <2>4, <2>8 DEF NotInMemory, N, Op
    <3> QED
      BY <2>6, <3>1, <3>2
  <2>9. CASE HookThrows
    <3>1. Answer(NoName, 0, "exception") /\ UNCHANGED <<index, stored>>
      BY <2>9 DEF HookThrows
    <3>2. "exception" # "inode"
      OBVIOUS
    <3> QED
      BY <2>6, <3>1, <3>2
  <2> QED
    BY <2>5, <2>7, <2>8, <2>9 DEF MetadataServer
<1> QED
  BY <1>1, <1>2, <1>3, HeadOfRequests

LEMMA InvRecvInode ==
  ASSUME TypeInv, ClientInv, Distinct, RecvInode
  PROVE  ClientInv'
<1> DEFINE r == Head(replies)
           n == call.names[pos]
<1>1. /\ phase = "recv" /\ InCall /\ InCall' /\ replies # <<>> /\ replies' = Tail(replies)
      /\ r.kind = "inode"
      /\ UNCHANGED <<requests, index, mem, call, seat, calls, stored>>
  BY DEF RecvInode, InCall, storage
<1>2. /\ pos \in 1 .. Len(call.names) /\ Len(call.names) \in Nat /\ n \in Name
      /\ Len(replies) \in Nat /\ Len(requests) \in Nat
      /\ Received = pos - 1 /\ Sent = Len(call.names)
  BY <1>1, NamesType, Counts DEF Received, Sent
<1>3. /\ Received' = pos /\ Sent' = Len(call.names)
      /\ \/ pos = Len(call.names) /\ phase' = "wait" /\ pos' = 1
         \/ pos # Len(call.names) /\ phase' = "recv" /\ pos' = pos + 1
  BY <1>1, <1>2 DEF Received, Sent, RecvInode, Last
<1>4. /\ r \in Reply /\ r = replies[1] /\ Len(replies') = Len(replies) - 1
      /\ \A i \in 1 .. Len(replies') : replies'[i] = replies[i + 1]
  BY <1>1, HeadOfReplies
<1>5. Len(replies) >= 1
  BY <1>1, <1>2 DEF TypeInv
<1>6. Answered' = Answered /\ Answered = pos - 1 + Len(replies)
  BY <1>2, <1>3, <1>4, <1>5 DEF Answered
<1>7. Answered + Len(requests) = Len(call.names)
  BY <1>1, <1>2 DEF ClientInv, QueueInv
<1>8. r.pieces = index[n] /\ (r.name = n \/ (r.name = NoName /\ r.pieces = 0))
  <2>1. 1 \in 1 .. Len(replies) /\ Received + 1 = pos
    BY <1>2, <1>5
  <2> QED
    BY <1>1, <1>4, <2>1 DEF ClientInv, QueueInv
<1>9. QueueInv'
  <2>1. CASE phase' = "wait"
    <3>1. Len(replies) = 1 /\ Len(requests) = 0
      <4>1. pos = Len(call.names)
        BY <1>3, <2>1
      <4> HIDE DEF r, n
      <4>2. pos - 1 + Len(replies) + Len(requests) = pos
        BY <1>6, <1>7, <4>1
      <4>3. \A x, y, z \in Nat : x >= 1 /\ y >= 1 /\ x - 1 + y + z = x => y = 1 /\ z = 0
        OBVIOUS
      <4>4. pos \in Nat /\ pos >= 1 /\ Len(replies) \in Nat /\ Len(requests) \in Nat
        BY <1>2
      <4> QED
        BY <1>5, <4>2, <4>3, <4>4
    <3>2. requests' = <<>> /\ replies' = <<>>
      BY <1>1, <1>4, <3>1, HeadOfReplies DEF TypeInv
    <3> QED
      BY <2>1, <3>2 DEF QueueInv
  <2>2. CASE phase' = "recv"
    <3>1. ASSUME NEW i \in 1 .. Len(replies'), replies'[i].kind = "inode"
          PROVE  /\ replies'[i].pieces = index[call.names[pos + i]]
                 /\ \/ replies'[i].name = call.names[pos + i]
                    \/ replies'[i].name = NoName /\ replies'[i].pieces = 0
      <4>1. i + 1 \in 1 .. Len(replies) /\ Received + (i + 1) = pos + i
        BY <1>2, <1>4
      <4> QED
        BY <1>1, <1>4, <3>1, <4>1 DEF ClientInv, QueueInv
    <3>2. Answered' + Len(requests') = Sent'
      BY <1>1, <1>3, <1>6, <1>7
    <3>3. \A i \in 1 .. Len(requests) :
            /\ requests[i].op = call.op
            /\ requests[i].name = call.names[Answered + i]
            /\ requests[i].object = <<calls, Answered + i>>
      BY <1>1 DEF ClientInv, QueueInv, ObjectAt
    <3> QED
      BY <1>1, <1>3, <1>6, <2>2, <3>1, <3>2, <3>3 DEF QueueInv, ObjectAt
  <2> QED
    BY <1>3, <2>1, <2>2
<1>10. GrantInv'
  <2> SUFFICES ASSUME call.op = "put", NEW q \in 1 .. Len(call.names)
               PROVE  /\ phase' \in {"send", "recv"} /\ q > Answered => index[call.names[q]] = 0
                      /\ index[call.names[q]] # 0 => stored[call.names[q]] = <<calls, q>>
    BY <1>1, <1>6 DEF GrantInv, ObjectAt
  <2> QED
    BY <1>1 DEF ClientInv, GrantInv, ObjectAt
<1>11. \A q \in 1 .. pos - 1 : q \in 1 .. Len(call.names) /\ call.names[q] \in Name /\ call.names[q] # n
  <2> TAKE q \in 1 .. pos - 1
  <2>1. q \in 1 .. Len(call.names) /\ q # pos
    BY <1>2
  <2> QED
    BY <1>1, <1>2, <2>1, DistinctNames, NamesType
<1>12. futures[n] = <<>>
  BY <1>1, <1>2, <1>11 DEF ClientInv, FuturesInv
<1>13. /\ Slices(r) \in Seq(Future) /\ Len(Slices(r)) = r.pieces
       /\ \A j \in 1 .. r.pieces : Slices(r)[j] = Slice(r, j, j, j)
  BY <1>1, <1>4, SlicesType, HeadOfReplies
<1>14. futures'[n] = Slices(r) /\ \A k \in Name \cup {NoName} : k # n => futures'[k] = futures[k]
  <2> DEFINE K == Key(r)
  <2>1. K \in Name \cup {NoName} /\ futures' = [futures EXCEPT ![K] = futures[K] \o Slices(r)]
    BY KeyType DEF RecvInode
  <2>2. K = n \/ (K = NoName /\ r.pieces = 0)
    BY <1>8 DEF Key
  <2> HIDE DEF K, r
  <2>3. CASE K = n
    <3>1. futures[K] \o Slices(r) = Slices(r)
      <4>1. \A s \in Seq(Future) : <<>> \o s = s
        OBVIOUS
      <4> QED
        BY <1>12, <1>13, <2>3, <4>1
    <3> QED
      BY <1>2, <2>1, <2>3, <3>1 DEF TypeInv
  <2>4. CASE K = NoName /\ r.pieces = 0
    <3>1. Slices(r) = <<>>
      BY <1>13, <2>4
    <3>2. futures[K] \in Seq(Future)
      BY <2>1 DEF TypeInv
    <3>3. futures[K] \o Slices(r) = futures[K]
      BY <3>1, <3>2
    <3>4. \A k \in Name \cup {NoName} : futures'[k] = futures[k]
      BY <2>1, <3>3 DEF TypeInv
    <3> QED
      BY <1>2, <1>12, <3>1, <3>4
  <2> QED
    BY <2>2, <2>3, <2>4
<1>15. FuturesInv'
  <2>1. ASSUME NEW k \in Name \cup {NoName}, \A q \in 1 .. pos : call.names[q] # k
        PROVE  futures'[k] = <<>>
    <3>1. k # n /\ \A q \in 1 .. pos - 1 : call.names[q] # k
      BY <1>2, <2>1
    <3> QED
      BY <1>1, <1>2, <1>14, <3>1 DEF ClientInv, FuturesInv
  <2>2. ASSUME NEW q \in 1 .. pos
        PROVE  /\ Len(futures'[call.names[q]]) = index[call.names[q]]
               /\ \A j \in 1 .. Len(futures'[call.names[q]]) :
                    SliceOK(futures'[call.names[q]][j], q, j)
    <3>1. CASE q = pos
      <4>1. Len(futures'[n]) = r.pieces /\ \A j \in 1 .. r.pieces : futures'[n][j] = Slice(r, j, j, j)
        BY <1>13, <1>14
      <4>2. ASSUME NEW j \in 1 .. r.pieces PROVE SliceOK(Slice(r, j, j, j), q, j)
        <5>1. r.name = n
          BY <1>8, <4>2
        <5> QED
          BY <3>1, <5>1 DEF SliceOK, Slice
      <4> QED
        BY <1>8, <3>1, <4>1, <4>2
    <3>2. CASE q # pos
      <4>1. q \in 1 .. pos - 1
        BY <1>2, <3>2
      <4>2. futures'[call.names[q]] = futures[call.names[q]]
        BY <1>11, <1>14, <4>1
      <4> QED
        BY <1>1, <1>2, <4>1, <4>2 DEF ClientInv, FuturesInv
    <3> QED
      BY <3>1, <3>2
  <2> QED
    BY <1>1, <1>3, <2>1, <2>2 DEF FuturesInv, SliceOK, ObjectAt
<1>16. TakenInv'
  <2>1. phase' = "wait" => pos' = 1 /\ seat' = 1
    BY <1>1, <1>3 DEF TypeInv
  <2> QED
    BY <1>3, <2>1 DEF TakenInv
<1>17. MemInv'
  BY <1>1 DEF ClientInv, MemInv
<1> QED
  BY <1>9, <1>10, <1>15, <1>16, <1>17 DEF ClientInv

\* Whoever serves a slice, of the object at position p, touches no other.
LEMMA InvServe ==
  ASSUME TypeInv, ClientInv, Distinct,
         NEW k \in Name \cup {NoName}, NEW j \in DOMAIN futures[k], Serve(k, j)
  PROVE  ClientInv'
<1> DEFINE f == futures[k][j]
           OK(g, q, i) ==
             /\ g.place = <<call.names[q], i>> /\ g.part = <<ObjectAt(q), i>> /\ g.idx = i
             /\ g.state # "sent" =>
                  IF call.op = "put" THEN mem'[call.names[q]][i] = g.part
                                     ELSE g.answer = mem'[call.names[q]][i]
             /\ g.state = "taken" => g.content = g.answer
<1>1. /\ UNCHANGED <<requests, replies, index, phase, call, pos, seat, calls, stored>>
      /\ f.state = "sent"
  BY DEF Serve, metadata, storage
<1>2. futures[k] \in Seq(Future) /\ futures[k] # <<>>
  BY DEF TypeInv
<1>3. InCall
  BY <1>2 DEF ClientInv, FuturesInv
<1>4. PICK p \in 1 .. Received : call.names[p] = k
  BY <1>2, <1>3 DEF ClientInv, FuturesInv
<1>5. /\ p \in 1 .. Len(call.names) /\ k \in Name
      /\ \A q \in 1 .. Received : q \in 1 .. Len(call.names) /\ call.names[q] \in Name
      /\ \A q \in 1 .. Received : q # p => call.names[q] # k
  <2>1. Received \in 0 .. Len(call.names) /\ Len(call.names) \in Nat
    BY <1>3, Counts, NamesType
  <2>2. \A q \in 1 .. Received : q \in 1 .. Len(call.names)
    BY <2>1
  <2>3. \A q \in 1 .. Len(call.names) : call.names[q] \in Name
    BY <1>3, NamesType
  <2>4. \A q \in 1 .. Received : call.names[q] = k => q = p
    BY <1>3, <1>4, <2>2, DistinctNames
  <2> QED
    BY <1>4, <2>2, <2>3, <2>4
<1>6. j \in 1 .. Len(futures[k])
  BY <1>2
<1>7. f.place = <<k, j>> /\ f.part = <<ObjectAt(p), j>> /\ f.idx = j
  BY <1>3, <1>4, <1>6 DEF ClientInv, FuturesInv, SliceOK
<1>8. /\ j \in 1 .. MaxPieces
      /\ \A l \in Name \cup {NoName} : l # k => futures'[l] = futures[l]
      /\ Len(futures'[k]) = Len(futures[k])
      /\ \A i \in DOMAIN futures[k] \ {j} : futures'[k][i] = futures[k][i]
  <2>1. f.place[2] \in 1 .. MaxPieces
    BY ServeFacts
  <2>2. f.place[2] = j
    BY <1>7
  <2>3. /\ \A l \in Name \cup {NoName} : l # k => futures'[l] = futures[l]
        /\ Len(futures'[k]) = Len(futures[k])
        /\ \A i \in DOMAIN futures[k] \ {j} : futures'[k][i] = futures[k][i]
    BY ServeOthers
  <2> HIDE DEF f
  <2> QED
    BY <2>1, <2>2, <2>3
<1>9. /\ futures'[k][j].place = f.place /\ futures'[k][j].part = f.part
      /\ futures'[k][j].idx = f.idx /\ futures'[k][j].state = "answered"
      /\ call.op = "get" => futures'[k][j].answer = mem[k][j]
  <2>1. /\ futures'[k][j].place = f.place /\ futures'[k][j].part = f.part
        /\ futures'[k][j].idx = f.idx /\ futures'[k][j].state = "answered"
    BY ServeFacts
  <2>2. call.op = "get" => futures'[k][j].answer = mem[f.place[1]][f.place[2]]
    BY ServeFacts
  <2>3. f.place[1] = k /\ f.place[2] = j
    BY <1>7
  <2> HIDE DEF f
  <2> QED
    BY <2>1, <2>2, <2>3
<1> HIDE DEF f
<1>10. mem' = [mem EXCEPT ![k][j] = IF call.op = "put" THEN f.part ELSE @]
  BY <1>7 DEF Serve, f
<1>11. /\ \A m \in Name : \A i \in 1 .. MaxPieces : (m # k \/ i # j) => mem'[m][i] = mem[m][i]
       /\ mem'[k][j] = IF call.op = "put" THEN f.part ELSE mem[k][j]
  BY <1>5, <1>8, <1>10 DEF TypeInv
<1>12. Received' = Received
  BY <1>1 DEF Received
<1>13. QueueInv' /\ GrantInv'
  BY <1>1 DEF ClientInv, QueueInv, GrantInv, InCall, Answered, Received, Sent, ObjectAt
<1>14. FuturesInv'
  <2>1. ASSUME NEW l \in Name \cup {NoName}, \A q \in 1 .. Received : call.names[q] # l
        PROVE  futures'[l] = <<>>
    BY <1>3, <1>4, <1>8, <2>1 DEF ClientInv, FuturesInv
  <2>2. ASSUME NEW q \in 1 .. Received
        PROVE  /\ Len(futures'[call.names[q]]) = index[call.names[q]]
               /\ \A i \in 1 .. Len(futures'[call.names[q]]) :
                    SliceOK(futures[call.names[q]][i], q, i) /\ (q # p \/ i # j)
                      => OK(futures'[call.names[q]][i], q, i)
    <3> DEFINE m == call.names[q]
    <3>1. m \in Name /\ (q # p => m # k) /\ (q = p => m = k)
      BY <1>4, <1>5
    <3>2. Len(futures'[m]) = Len(futures[m]) /\ Len(futures[m]) = index[m] /\ futures[m] \in Seq(Future)
      BY <1>3, <1>8, <3>1 DEF ClientInv, FuturesInv, TypeInv
    <3>3. ASSUME NEW i \in 1 .. Len(futures'[m]), SliceOK(futures[m][i], q, i), q # p \/ i # j
          PROVE  OK(futures'[m][i], q, i)
      <4>1. futures'[m][i] = futures[m][i] /\ futures[m][i] \in Future
        BY <1>8, <3>1, <3>2, <3>3
      <4>2. i \in 1 .. MaxPieces
        <5>1. futures[m][i].place = <<m, i>>
          BY <3>3 DEF SliceOK
        <5>2. futures[m][i].place \in Name \X (1 .. MaxPieces)
          BY <4>1 DEF Future
        <5> QED
          BY <5>1, <5>2
      <4>3. mem'[m][i] = mem[m][i]
        BY <1>11, <3>1, <3>3, <4>2
      <4> QED
        BY <1>1, <3>3, <4>1, <4>3 DEF SliceOK, ObjectAt
    <3> QED
      BY <3>2, <3>3
  <2>3. OK(futures'[k][j], p, j)
    <3>1. call.op \in Op
      BY <1>3, NamesType DEF ACall
    <3> QED
      BY <1>1, <1>4, <1>7, <1>9, <1>11, <3>1 DEF SliceOK, ObjectAt, Op
  <2>4. \A q \in 1 .. Received : \A i \in 1 .. Len(futures'[call.names[q]]) :
           SliceOK(futures[call.names[q]][i], q, i)
    BY <1>3, <1>5, <1>8 DEF ClientInv, FuturesInv
  <2> HIDE DEF OK
  <2>5. \A q \in 1 .. Received : \A i \in 1 .. Len(futures'[call.names[q]]) :
           OK(futures'[call.names[q]][i], q, i)
    BY <1>4, <2>2, <2>3, <2>4
  <2> QED
    <3>1. InCall' /\ UNCHANGED <<call, calls, index>>
      BY <1>1, <1>3 DEF InCall
    <3>2. \A l \in Name \cup {NoName} :
            (\A q \in 1 .. Received' : call'.names[q] # l) => futures'[l] = <<>>
      BY <1>12, <2>1, <3>1
    <3>3. ASSUME NEW q \in 1 .. Received'
          PROVE  /\ Len(futures'[call'.names[q]]) = index'[call'.names[q]]
                 /\ \A i \in 1 .. Len(futures'[call'.names[q]]) :
                      SliceOK(futures[call.names[q]][i], q, i)'
      <4>1. q \in 1 .. Received
        BY <1>12, <3>3
      <4>2. Len(futures'[call'.names[q]]) = index'[call'.names[q]]
        BY <2>2, <3>1, <4>1
      <4>3. ASSUME NEW i \in 1 .. Len(futures'[call'.names[q]])
            PROVE  SliceOK(futures[call.names[q]][i], q, i)'
        <5>1. OK(futures'[call.names[q]][i], q, i)
          BY <2>5, <3>1, <4>1
        <5> QED
          BY <3>1, <5>1 DEF OK, SliceOK, ObjectAt
      <4> QED
        BY <4>2, <4>3
    <3> QED
      BY <3>1, <3>2, <3>3 DEF FuturesInv
<1>15. TakenInv'
  <2>1. \A l \in Name : /\ Len(futures'[l]) = Len(futures[l])
                        /\ \A i \in 1 .. Len(futures[l]) : futures[l][i].state = "taken" =>
                              futures'[l][i].state = "taken"
    BY <1>1, <1>2, <1>8 DEF f
  <2>2. \A q \in 1 .. Len(call.names) : call.names[q] \in Name
    BY <1>3, NamesType
  <2>3. \A q \in 1 .. Len(call.names) : AllTaken(call.names[q]) => AllTaken(call.names[q])'
    BY <1>1, <2>1, <2>2 DEF AllTaken
  <2>4. /\ pos \in 1 .. Len(call.names) /\ Len(call.names) \in Nat /\ seat \in Nat \ {0}
        /\ Len(futures[call.names[pos]]) \in Nat
    BY <1>3, NamesType, Counts DEF TypeInv
  <2>5. phase = "wait" =>
           /\ \A q \in 1 .. pos - 1 : AllTaken(call.names[q])'
           /\ \A i \in 1 .. seat - 1 : futures'[call.names[pos]][i].state = "taken"
    <3> SUFFICES ASSUME phase = "wait"
                 PROVE  /\ \A q \in 1 .. pos - 1 : AllTaken(call.names[q])'
                        /\ \A i \in 1 .. seat - 1 : futures'[call.names[pos]][i].state = "taken"
      OBVIOUS
    <3>1. \A q \in 1 .. pos - 1 : AllTaken(call.names[q]) /\ q \in 1 .. Len(call.names)
      BY <2>4 DEF ClientInv, TakenInv
    <3>2. ASSUME NEW i \in 1 .. seat - 1
          PROVE  futures[call.names[pos]][i].state = "taken" /\ i \in 1 .. Len(futures[call.names[pos]])
      <4>1. futures[call.names[pos]][i].state = "taken"
        BY DEF ClientInv, TakenInv
      <4>2. seat = 1 \/ seat <= Len(futures[call.names[pos]])
        BY DEF TypeInv, Awaited
      <4> QED
        BY <2>4, <4>1, <4>2
    <3> QED
      BY <2>1, <2>2, <2>3, <2>4, <3>1, <3>2
  <2>6. phase = "done" => \A q \in 1 .. Len(call.names) : AllTaken(call.names[q])'
    BY <2>3 DEF ClientInv, TakenInv
  <2>7. phase = "crashed" => index[call.names[pos]] = 0
    BY DEF ClientInv, TakenInv
  <2> QED
    BY <1>1, <2>5, <2>6, <2>7 DEF TakenInv, AllTaken
<1>16. MemInv'
  <2> SUFFICES ASSUME NEW n \in Name, phase \notin {"dead", "crashed"},
                      ~(call.op = "put" /\ \E q \in 1 .. Len(call.names) : call.names[q] = n)
               PROVE  \A i \in 1 .. index[n] : mem'[n][i] = <<stored[n], i>>
    BY <1>1, <1>3 DEF MemInv, InCall
  <2>1. \A i \in 1 .. index[n] : mem[n][i] = <<stored[n], i>> /\ i \in 1 .. MaxPieces
    <3>1. index[n] \in 0 .. MaxPieces /\ MaxPieces \in Nat
      BY Constants DEF TypeInv
    <3> QED
      BY <3>1 DEF ClientInv, MemInv
  <2>2. n # k \/ call.op # "put"
    BY <1>4, <1>5
  <2>3. \A i \in 1 .. MaxPieces : mem'[n][i] = mem[n][i]
    BY <1>11, <2>2
  <2> QED
    BY <2>1, <2>3
<1> QED
  BY <1>13, <1>14, <1>15, <1>16 DEF ClientInv

\* idx is the slice's own number, so what it carries becomes its own content.
LEMMA InvRecvAsync ==
  ASSUME TypeInv, ClientInv, Distinct, RecvAsync
  PROVE  ClientInv'
<1> DEFINE k == call.names[pos]
           f == futures[k]
           OK(g, q, i) ==
             /\ g.place = <<call.names[q], i>> /\ g.part = <<ObjectAt(q), i>> /\ g.idx = i
             /\ g.state # "sent" =>
                  IF call.op = "put" THEN mem[call.names[q]][i] = g.part
                                     ELSE g.answer = mem[call.names[q]][i]
             /\ g.state = "taken" => g.content = g.answer
<1>1. /\ phase = "wait" /\ InCall /\ Awaited = f /\ f # <<>>
      /\ UNCHANGED <<requests, replies, index, mem, call, calls, stored>>
  BY DEF RecvAsync, Awaited, InCall, metadata, storage
<1>2. /\ k \in Name /\ pos \in 1 .. Len(call.names) /\ Len(call.names) \in Nat
      /\ seat \in Nat \ {0} /\ seat \in DOMAIN f /\ f \in Seq(Future) /\ Len(f) \in Nat
      /\ Received = Len(call.names)
  <2>1. k \in Name /\ pos \in 1 .. Len(call.names) /\ Len(call.names) \in Nat
    BY <1>1, NamesType
  <2>2. seat \in DOMAIN f
    BY RecvAsyncFacts
  <2>3. seat \in Nat \ {0} /\ f \in Seq(Future) /\ Len(f) \in Nat
    BY <2>1 DEF TypeInv
  <2>4. Received = Len(call.names)
    BY <1>1 DEF Received
  <2> QED
    BY <2>1, <2>2, <2>3, <2>4
<1>3. \A q \in 1 .. Len(call.names) : call.names[q] \in Name /\ (q # pos => call.names[q] # k)
  BY <1>1, <1>2, NamesType, DistinctNames
<1>4. seat \in 1 .. Len(f) /\ DOMAIN f = 1 .. Len(f)
  BY <1>2
<1>5. \A q \in 1 .. Len(call.names) :
        /\ Len(futures[call.names[q]]) = index[call.names[q]]
        /\ \A i \in 1 .. Len(futures[call.names[q]]) : OK(futures[call.names[q]][i], q, i)
  BY <1>1, <1>2 DEF ClientInv, FuturesInv, SliceOK
<1>6. f[seat].idx = seat /\ f[seat].state = "answered"
  BY <1>2, <1>4, <1>5, RecvAsyncFacts
<1>7. /\ \A l \in Name \cup {NoName} : l # k => futures'[l] = futures[l]
      /\ Len(futures'[k]) = Len(f)
      /\ \A i \in 1 .. Len(f) :
           /\ futures'[k][i].place = f[i].place /\ futures'[k][i].part = f[i].part
           /\ futures'[k][i].idx = f[i].idx /\ futures'[k][i].answer = f[i].answer
           /\ futures'[k][i].state = IF i = seat THEN "taken" ELSE f[i].state
           /\ futures'[k][i].content = IF i = seat THEN f[seat].answer ELSE f[i].content
  BY <1>4, <1>6, RecvAsyncFacts
<1>8. /\ phase' \in {"wait", "done"} /\ InCall'
      /\ \/ /\ seat # Len(f) /\ seat' = seat + 1 /\ phase' = "wait" /\ pos' = pos
         \/ /\ seat = Len(f) /\ seat' = 1
            /\ \/ pos = Len(call.names) /\ phase' = "done"
               \/ pos # Len(call.names) /\ phase' = "wait" /\ pos' = pos + 1
  BY <1>1 DEF RecvAsync, Advance, NextObject, Last, InCall
<1>9. Received' = Len(call.names)
  BY <1>1, <1>8 DEF Received
<1>10. QueueInv'
  BY <1>1, <1>8 DEF ClientInv, QueueInv
<1>11. GrantInv'
  <2> SUFFICES ASSUME call.op = "put", NEW q \in 1 .. Len(call.names)
               PROVE  index[call.names[q]] # 0 => stored[call.names[q]] = <<calls, q>>
    BY <1>1, <1>8 DEF GrantInv, ObjectAt
  <2> QED
    BY <1>1 DEF ClientInv, GrantInv, ObjectAt
<1>12. FuturesInv'
  <2>1. ASSUME NEW l \in Name \cup {NoName}, \A q \in 1 .. Len(call.names) : call.names[q] # l
        PROVE  futures'[l] = <<>>
    BY <1>1, <1>2, <1>7, <2>1 DEF ClientInv, FuturesInv
  <2>2. ASSUME NEW q \in 1 .. Len(call.names)
        PROVE  /\ Len(futures'[call.names[q]]) = index[call.names[q]]
               /\ \A i \in 1 .. Len(futures'[call.names[q]]) : OK(futures'[call.names[q]][i], q, i)
    <3>1. CASE q # pos
      <4>1. futures'[call.names[q]] = futures[call.names[q]]
        BY <1>3, <1>7, <3>1
      <4>2. /\ Len(futures[call.names[q]]) = index[call.names[q]]
            /\ \A i \in 1 .. Len(futures[call.names[q]]) : OK(futures[call.names[q]][i], q, i)
        BY <1>5
      <4> HIDE DEF OK
      <4> QED
        BY <4>1, <4>2
    <3>2. CASE q = pos
      <4>1. Len(futures'[k]) = index[k]
        BY <1>2, <1>5, <1>7
      <4>2. ASSUME NEW i \in 1 .. Len(f) PROVE OK(futures'[k][i], pos, i)
        <5>1. OK(f[i], pos, i)
          BY <1>2, <1>5
        <5>2. CASE i # seat
          BY <1>7, <5>1, <5>2
        <5>3. CASE i = seat
          BY <1>6, <1>7, <5>1, <5>3
        <5> QED
          BY <5>2, <5>3
      <4> QED
        BY <1>7, <3>2, <4>1, <4>2
    <3> QED
      BY <3>1, <3>2
  <2> QED
    BY <1>1, <1>8, <1>9, <2>1, <2>2 DEF FuturesInv, SliceOK, ObjectAt
<1>13. TakenInv'
  <2>1. /\ \A q \in 1 .. pos - 1 : AllTaken(call.names[q])
        /\ \A i \in 1 .. seat - 1 : f[i].state = "taken"
    BY <1>1 DEF ClientInv, TakenInv
  <2>2. \A q \in 1 .. pos - 1 : AllTaken(call.names[q])'
    <3> TAKE q \in 1 .. pos - 1
    <3>1. q \in 1 .. Len(call.names) /\ q # pos
      BY <1>2
    <3>2. futures'[call.names[q]] = futures[call.names[q]]
      BY <1>3, <1>7, <3>1
    <3> QED
      BY <1>1, <2>1, <3>2 DEF AllTaken
  <2>3. \A i \in 1 .. seat : futures'[k][i].state = "taken"
    <3> TAKE i \in 1 .. seat
    <3>1. i \in 1 .. Len(f) /\ (i = seat \/ i \in 1 .. seat - 1)
      BY <1>2, <1>4
    <3> QED
      BY <1>7, <2>1, <3>1
  <2>4. CASE seat # Len(f) /\ seat' = seat + 1 /\ phase' = "wait" /\ pos' = pos
    <3>1. seat' - 1 = seat
      BY <1>2, <2>4
    <3> QED
      BY <1>1, <2>2, <2>3, <2>4, <3>1 DEF TakenInv, AllTaken
  <2>5. CASE seat = Len(f) /\ seat' = 1
    <3>1. \A i \in 1 .. Len(futures'[k]) : futures'[k][i].state = "taken"
      BY <1>7, <2>3, <2>5
    <3>2. \A q \in 1 .. pos : AllTaken(call.names[q])'
      <4> TAKE q \in 1 .. pos
      <4>1. q = pos \/ q \in 1 .. pos - 1
        BY <1>2
      <4>2. CASE q = pos
        BY <1>1, <3>1, <4>2 DEF AllTaken
      <4> QED
        BY <2>2, <4>1, <4>2
    <3>3. CASE pos = Len(call.names) /\ phase' = "done"
      BY <1>1, <3>2, <3>3 DEF TakenInv, AllTaken
    <3>4. CASE pos # Len(call.names) /\ phase' = "wait" /\ pos' = pos + 1
      <4>1. pos' - 1 = pos /\ 1 .. seat' - 1 = {}
        BY <1>2, <2>5, <3>4
      <4> QED
        BY <1>1, <3>2, <3>4, <4>1 DEF TakenInv, AllTaken
    <3> QED
      BY <1>8, <2>5, <3>3, <3>4
  <2> QED
    BY <1>8, <2>4, <2>5
<1>14. MemInv'
  BY <1>1, <1>8 DEF ClientInv, MemInv
<1> QED
  BY <1>10, <1>11, <1>12, <1>13, <1>14 DEF ClientInv

\* Nobody reads any more what arrives late.
LEMMA InvServeLate ==
  ASSUME TypeInv, ClientInv, LateInv, NEW w \in late, ServeLate(w)
  PROVE  ClientInv'
<1>1. /\ phase = "dead" /\ phase' = "dead" /\ ~InCall /\ ~InCall'
      /\ UNCHANGED <<requests, replies, futures>>
  BY ServeLateFacts DEF LateInv, InCall
<1> QED
  BY <1>1 DEF ClientInv, QueueInv, GrantInv, FuturesInv, TakenInv, MemInv

LEMMA LateStep ==
  ASSUME TypeInv, LateInv, Reuse = FALSE, [Next]_vars
  PROVE  LateInv'
<1>1. CASE Call
  BY <1>1 DEF Call, Begin, LateInv, storage
<1>2. CASE RecvException
  BY <1>2 DEF RecvException, AfterThrow, LateInv
<1>3. CASE SendRequest \/ RecvInode \/ RecvNothing \/ RecvAsync \/ Return
  BY <1>3 DEF SendRequest, RecvInode, RecvNothing, RecvAsync, Return, LateInv, storage
<1>4. CASE MetadataServer
  BY <1>4 DEF MetadataServer, GrantPut, FindGet, NotInMemory, HookThrows, Answer, LateInv, storage
<1>5. CASE StorageServers
  BY <1>5 DEF StorageServers, Serve, ServeLate, LateInv
<1>6. CASE UNCHANGED vars
  BY <1>6 DEF vars, storage, LateInv
<1> QED
  BY <1>1, <1>2, <1>3, <1>4, <1>5, <1>6 DEF Next, Client

LEMMA InvStep ==
  ASSUME TypeInv, ClientInv, LateInv, Distinct, Reuse = FALSE, [Next]_vars
  PROVE  ClientInv'
<1>1. CASE Call
  BY <1>1, InvBegin DEF Call, Op
<1>2. CASE Client
  BY <1>2, InvSendRequest, InvRecvInode, InvRecvException, InvRecvNothing,
     InvRecvAsync, InvReturn DEF Client
<1>3. CASE MetadataServer
  BY <1>3, InvMetadataServer
<1>4. CASE StorageServers
  <2>1. DOMAIN futures = Name \cup {NoName}
    BY DEF TypeInv
  <2> QED
    BY <1>4, <2>1, InvServe, InvServeLate DEF StorageServers
<1>5. CASE UNCHANGED vars
  <2>1. UNCHANGED <<requests, replies, index, mem, phase, call, pos, seat, futures, calls, stored>>
    BY <1>5 DEF vars, metadata, storage
  <2>2. QueueInv'
    BY <2>1 DEF ClientInv, QueueInv, Answered, Received, Sent, ObjectAt
  <2>3. GrantInv'
    BY <2>1 DEF ClientInv, GrantInv, InCall, Answered, Received, ObjectAt
  <2>4. FuturesInv'
    <3>1. InCall' = InCall /\ Received' = Received
      BY <2>1 DEF InCall, Received
    <3> QED
      BY <2>1, <3>1, FuturesKept DEF ClientInv
  <2>5. TakenInv' /\ MemInv'
    BY <2>1 DEF ClientInv, TakenInv, AllTaken, MemInv, InCall
  <2> QED
    BY <2>2, <2>3, <2>4, <2>5 DEF ClientInv
<1> QED
  BY <1>1, <1>2, <1>3, <1>4, <1>5 DEF Next

-----------------------------------------------------------------------------
(* Theorems                                                                *)

LEMMA TypeOKHolds == TypeInv => TypeOK
<1> SUFFICES ASSUME TypeInv PROVE TypeOK
  OBVIOUS
<1>1. DOMAIN futures = Name \cup {NoName}
  BY DEF TypeInv
<1>2. \A k \in DOMAIN futures : \A j \in DOMAIN futures[k] : futures[k][j] \in Future
  BY <1>1 DEF TypeInv
<1>3. \A k \in DOMAIN futures : \A j \in DOMAIN futures[k] :
        /\ futures[k][j].state \in {"sent", "answered", "taken"}
        /\ futures[k][j].content \in Piece
  BY <1>2 DEF Future
<1>4. \A k \in DOMAIN futures : \A j \in DOMAIN futures[k] : futures[k][j].idx \in DOMAIN futures[k]
  BY <1>1 DEF TypeInv
<1>5. (phase \in {"send", "recv", "wait", "done", "crashed"}) = (call # NoCall)
  BY DEF TypeInv, InCall
<1> QED
  BY <1>3, <1>4, <1>5 DEF TypeInv, TypeOK

LEMMA Invariant ==
  ASSUME Distinct, Reuse = FALSE
  PROVE  Spec => [](TypeInv /\ ClientInv /\ LateInv)
<1>1. Init => TypeInv /\ ClientInv /\ LateInv
  BY TypeInit, InvInit DEF Init, LateInv
<1>2. TypeInv /\ ClientInv /\ LateInv /\ [Next]_vars => (TypeInv /\ ClientInv /\ LateInv)'
  BY TypeStep, InvStep, LateStep
<1> QED
  BY <1>1, <1>2, PTL DEF Spec

\* What the places of an object hold when its get returns.
LEMMA GetDone ==
  ASSUME TypeInv, ClientInv, phase = "done", call.op = "get",
         NEW p \in 1 .. Len(call.names)
  PROVE  Concatenated(call.names[p]) = Whole(call.names[p])
<1> DEFINE n == call.names[p]
<1>1. InCall /\ Received = Len(call.names)
  BY DEF InCall, Received
<1>2. n \in Name /\ futures[n] \in Seq(Future)
  BY <1>1, NamesType DEF TypeInv
<1>3. Len(futures[n]) = index[n] /\ \A j \in 1 .. Len(futures[n]) : SliceOK(futures[n][j], p, j)
  BY <1>1 DEF ClientInv, FuturesInv
<1>4. AllTaken(n)
  BY DEF ClientInv, TakenInv
<1>5. \A j \in 1 .. index[n] : mem[n][j] = <<stored[n], j>>
  BY <1>2 DEF ClientInv, MemInv
<1>6. \A j \in 1 .. index[n] : futures[n][j].content = <<stored[n], j>>
  BY <1>3, <1>4, <1>5 DEF SliceOK, AllTaken
<1>7. DOMAIN futures[n] = 1 .. index[n]
  BY <1>2, <1>3
<1> QED
  BY <1>6, <1>7 DEF Concatenated, Whole

LEMMA AllDone ==
  ASSUME TypeInv, ClientInv
  PROVE  PutStored /\ GetReturnsPut /\ NothingLeftBehind /\ CrashNeedsRefusal
<1>1. InCall => DOMAIN call.names = 1 .. Len(call.names)
  BY NamesType
<1>2. PutStored
  <2> SUFFICES ASSUME phase = "done", call.op = "put", NEW i \in DOMAIN call.names
               PROVE  /\ index[call.names[i]] # 0 => stored[call.names[i]] = ObjectAt(i)
                      /\ \A j \in 1 .. index[call.names[i]] :
                           mem[call.names[i]][j] = <<stored[call.names[i]], j>>
    BY DEF PutStored, Whole
  <2> QED
    BY <1>1, PutDone DEF InCall
<1>3. GetReturnsPut
  BY <1>1, GetDone DEF GetReturnsPut, InCall
<1>4. NothingLeftBehind
  <2> SUFFICES ASSUME phase = "done"
               PROVE  /\ requests = <<>> /\ replies = <<>>
                      /\ \A k \in DOMAIN futures : \A j \in DOMAIN futures[k] :
                           futures[k][j].state = "taken"
    BY DEF NothingLeftBehind
  <2>1. requests = <<>> /\ replies = <<>>
    BY DEF ClientInv, QueueInv
  <2>2. ASSUME NEW k \in DOMAIN futures, NEW j \in DOMAIN futures[k]
        PROVE  futures[k][j].state = "taken"
    <3>1. k \in Name \cup {NoName} /\ futures[k] \in Seq(Future) /\ futures[k] # <<>>
      BY <2>2 DEF TypeInv
    <3>2. PICK p \in 1 .. Len(call.names) : call.names[p] = k
      BY <3>1 DEF ClientInv, FuturesInv, InCall, Received
    <3>3. AllTaken(k)
      BY <3>2 DEF ClientInv, TakenInv
    <3>4. j \in 1 .. Len(futures[k])
      BY <3>1
    <3> QED
      BY <3>3, <3>4 DEF AllTaken
  <2> QED
    BY <2>1, <2>2
<1>5. CrashNeedsRefusal
  <2> SUFFICES ASSUME phase = "crashed"
               PROVE  \E i \in DOMAIN call.names : index[call.names[i]] = 0
    BY DEF CrashNeedsRefusal
  <2>1. pos \in DOMAIN call.names
    BY <1>1, NamesType DEF InCall
  <2>2. index[call.names[pos]] = 0
    BY DEF ClientInv, TakenInv
  <2> QED
    BY <2>1, <2>2
<1> QED
  BY <1>2, <1>3, <1>4, <1>5

-----------------------------------------------------------------------------
(* Replies in the order of the requests, and no call stuck                 *)

Nameless == \A i \in DOMAIN replies : replies[i].kind = "exception" => replies[i].name = NoName

\* No slice's reply has been taken before its turn.
UntakenInv ==
  /\ phase \in {"send", "recv"} =>
       \A k \in Name \cup {NoName} : \A j \in DOMAIN futures[k] : futures[k][j].state # "taken"
  /\ phase = "wait" =>
       \A p \in pos .. Len(call.names) : \A j \in DOMAIN futures[call.names[p]] :
         (p = pos => j >= seat) => futures[call.names[p]][j].state # "taken"

LEMMA NamelessAnswer ==
  ASSUME TypeInv, Nameless, NEW name, NEW pieces, NEW kind, Answer(name, pieces, kind),
         kind = "exception" => name = NoName
  PROVE  Nameless'
<1> DEFINE r == [op |-> Head(requests).op, name |-> name, pieces |-> pieces, kind |-> kind]
<1>1. r.kind = "exception" => r.name = NoName
  OBVIOUS
<1>2. replies' = Append(replies, r) /\ replies \in Seq(Reply)
  BY DEF Answer, TypeInv
<1> HIDE DEF r
<1>3. \A i \in DOMAIN replies' : replies'[i] = r \/ (i \in DOMAIN replies /\ replies'[i] = replies[i])
  BY <1>2
<1> QED
  BY <1>1, <1>3 DEF Nameless

LEMMA NamelessTail ==
  ASSUME TypeInv, Nameless, replies # <<>>, replies' = Tail(replies)
  PROVE  Nameless'
<1>1. /\ Tail(replies) \in Seq(Reply) /\ Len(Tail(replies)) = Len(replies) - 1
      /\ \A i \in 1 .. Len(Tail(replies)) : Tail(replies)[i] = replies[i + 1]
  BY HeadOfReplies
<1>2. replies \in Seq(Reply) /\ Len(replies) \in Nat
  BY DEF TypeInv
<1>3. \A i \in 1 .. Len(Tail(replies)) : i + 1 \in DOMAIN replies
  BY <1>1, <1>2
<1>4. DOMAIN Tail(replies) = 1 .. Len(Tail(replies))
  BY <1>1
<1>5. \A i \in DOMAIN Tail(replies) : Tail(replies)[i].kind = "exception" => Tail(replies)[i].name = NoName
  BY <1>1, <1>3, <1>4 DEF Nameless
<1> QED
  BY <1>5 DEF Nameless

LEMMA NamelessStep ==
  ASSUME TypeInv, Nameless, [Next]_vars
  PROVE  Nameless'
<1>1. CASE replies' = replies
  BY <1>1 DEF Nameless
<1>2. CASE MetadataServer
  <2>1. ASSUME NEW pieces \in 1 .. MaxPieces, GrantPut(pieces) PROVE Nameless'
    BY <2>1, NamelessAnswer DEF GrantPut
  <2>2. CASE FindGet
    BY <2>2, NamelessAnswer DEF FindGet
  <2>3. CASE NotInMemory
    BY <2>3, NamelessAnswer DEF NotInMemory
  <2>4. CASE HookThrows
    BY <2>4, NamelessAnswer DEF HookThrows
  <2> QED
    BY <1>2, <2>1, <2>2, <2>3, <2>4 DEF MetadataServer
<1>3. CASE RecvInode
  BY <1>3, NamelessTail DEF RecvInode
<1>4. CASE RecvException
  BY <1>4, NamelessTail DEF RecvException
<1>5. CASE Call \/ SendRequest \/ RecvNothing \/ RecvAsync \/ Return \/ StorageServers
  BY <1>1, <1>5 DEF Call, Begin, SendRequest, RecvNothing, RecvAsync, Return,
     StorageServers, Serve, ServeLate, metadata, storage
<1>6. CASE UNCHANGED vars
  BY <1>1, <1>6 DEF vars, metadata, storage
<1> QED
  BY <1>2, <1>3, <1>4, <1>5, <1>6 DEF Next, Client

\* The slices a step leaves alone, in a call that stays where it was.
LEMMA UntakenKept ==
  ASSUME UntakenInv, UNCHANGED <<phase, call, pos, seat, futures>>
  PROVE  UntakenInv'
  BY DEF UntakenInv

LEMMA UntakenBegin ==
  ASSUME TypeInv, ClientInv, NEW op \in Op, NEW vector \in BOOLEAN, NEW names \in Batch,
         Begin(op, vector, names)
  PROVE  UntakenInv'
<1>1. phase' = "send" /\ futures' = futures /\ ~InCall
  BY DEF Begin, InCall
<1>2. \A k \in Name \cup {NoName} : futures[k] = <<>>
  BY <1>1 DEF ClientInv, FuturesInv
<1>3. \A k \in Name \cup {NoName} : DOMAIN futures[k] = {}
  BY <1>2
<1> QED
  BY <1>1, <1>3 DEF UntakenInv

LEMMA UntakenSendRequest ==
  ASSUME UntakenInv, SendRequest
  PROVE  UntakenInv'
<1>1. phase = "send" /\ phase' \in {"send", "recv"} /\ futures' = futures
  BY DEF SendRequest
<1> QED
  BY <1>1 DEF UntakenInv

\* The slices of the inode received have all been sent only.
LEMMA UntakenRecvInode ==
  ASSUME TypeInv, UntakenInv, RecvInode
  PROVE  UntakenInv'
<1> DEFINE r == Head(replies)  K == Key(r)  s == Slices(r)
<1>1. /\ InCall /\ phase = "recv" /\ phase' \in {"recv", "wait"}
      /\ call' = call /\ pos' \in Nat \ {0} /\ seat' = seat
  <2>1. InCall /\ phase = "recv" /\ call' = call /\ seat' = seat
    BY DEF RecvInode, InCall, storage
  <2>2. pos \in Nat \ {0}
    BY <2>1, NamesType
  <2>3. phase' \in {"recv", "wait"} /\ pos' \in Nat \ {0}
    BY <2>1, <2>2 DEF RecvInode
  <2> QED
    BY <2>1, <2>3
<1>2. r \in Reply /\ (r.name = NoName => r.pieces = 0)
  BY HeadOfReplies DEF RecvInode
<1>3. K \in Name \cup {NoName}
  BY KeyType
<1>4. s \in Seq(Future) /\ \A j \in 1 .. Len(s) : s[j].state # "taken"
  <2>1. s \in Seq(Future) /\ Len(s) = r.pieces /\ \A j \in 1 .. r.pieces : s[j] = Slice(r, j, j, j)
    BY <1>1, <1>2, SlicesType
  <2>2. \A j \in 1 .. r.pieces : Slice(r, j, j, j).state = "sent"
    BY DEF Slice
  <2> QED
    BY <2>1, <2>2
<1>5. futures[K] \in Seq(Future) /\ \A j \in 1 .. Len(futures[K]) : futures[K][j].state # "taken"
  BY <1>1, <1>3 DEF TypeInv, UntakenInv
<1>6. futures' = [futures EXCEPT ![K] = futures[K] \o s]
  BY DEF RecvInode
<1> HIDE DEF r, K, s
<1>7. \A j \in DOMAIN (futures[K] \o s) : (futures[K] \o s)[j].state # "taken"
  <2>1. /\ \A j \in 1 .. Len(futures[K]) : (futures[K] \o s)[j] = futures[K][j]
        /\ \A j \in Len(futures[K]) + 1 .. Len(futures[K]) + Len(s) :
             j - Len(futures[K]) \in 1 .. Len(s) /\ (futures[K] \o s)[j] = s[j - Len(futures[K])]
        /\ \A j \in DOMAIN (futures[K] \o s) :
             j \in 1 .. Len(futures[K]) \/ j \in Len(futures[K]) + 1 .. Len(futures[K]) + Len(s)
    BY <1>4, <1>5
  <2> QED
    BY <1>4, <1>5, <2>1
<1>8. DOMAIN futures = Name \cup {NoName}
  BY DEF TypeInv
<1>9. \A k \in Name \cup {NoName} : \A j \in DOMAIN futures'[k] : futures'[k][j].state # "taken"
  <2> TAKE k \in Name \cup {NoName}
  <2>1. CASE k = K
    BY <1>6, <1>7, <1>8, <2>1
  <2>2. CASE k # K
    BY <1>1, <1>6, <1>8, <2>2 DEF UntakenInv
  <2> QED
    BY <2>1, <2>2
<1>10. \A p \in pos' .. Len(call.names) : call.names[p] \in Name
  <2>1. Len(call.names) \in Nat /\ \A p \in 1 .. Len(call.names) : call.names[p] \in Name
    BY <1>1, NamesType
  <2> QED
    BY <1>1, <2>1
<1> QED
  BY <1>1, <1>9, <1>10 DEF UntakenInv

\* A slice that is served is answered.
LEMMA UntakenServe ==
  ASSUME TypeInv, UntakenInv, NEW k \in Name \cup {NoName}, NEW j \in DOMAIN futures[k],
         Serve(k, j)
  PROVE  UntakenInv'
<1>1. UNCHANGED <<phase, call, pos, seat>>
  BY DEF Serve
<1>2. \A l \in Name \cup {NoName} :
        /\ DOMAIN futures'[l] = DOMAIN futures[l]
        /\ \A i \in DOMAIN futures[l] :
             futures[l][i].state # "taken" => futures'[l][i].state # "taken"
  <2>1. /\ \A l \in Name \cup {NoName} : l # k => futures'[l] = futures[l]
        /\ DOMAIN futures'[k] = DOMAIN futures[k]
        /\ \A i \in DOMAIN futures[k] \ {j} : futures'[k][i] = futures[k][i]
    BY ServeOthers
  <2>2. futures'[k][j].state = "answered"
    BY ServeFacts
  <2> QED
    BY <2>1, <2>2
<1>3. CASE phase \in {"send", "recv"}
  BY <1>1, <1>2, <1>3 DEF UntakenInv
<1>4. CASE phase = "wait"
  <2>1. \A p \in pos .. Len(call.names) : call.names[p] \in Name
    <3>1. /\ Len(call.names) \in Nat /\ pos \in Nat \ {0}
          /\ \A p \in 1 .. Len(call.names) : call.names[p] \in Name
      BY <1>4, NamesType DEF InCall
    <3> QED
      BY <3>1
  <2> QED
    BY <1>1, <1>2, <1>4, <2>1 DEF UntakenInv
<1>5. CASE phase \notin {"send", "recv", "wait"}
  BY <1>1, <1>5 DEF UntakenInv
<1> QED
  BY <1>3, <1>4, <1>5

\* Only the reply whose turn it is is taken.
LEMMA UntakenRecvAsync ==
  ASSUME TypeInv, UntakenInv, Distinct, RecvAsync
  PROVE  UntakenInv'
<1> DEFINE k == call.names[pos]
<1>1. /\ phase = "wait" /\ InCall /\ call' = call /\ Awaited = futures[k]
      /\ pos \in 1 .. Len(call.names) /\ Len(call.names) \in Nat /\ seat \in Nat \ {0}
  <2>1. phase = "wait" /\ InCall /\ call' = call /\ Awaited = futures[k]
    BY DEF RecvAsync, InCall, Awaited
  <2> QED
    BY <2>1, NamesType DEF TypeInv
<1>2. /\ k \in Name
      /\ \A l \in Name \cup {NoName} : l # k => futures'[l] = futures[l]
      /\ DOMAIN futures'[k] = DOMAIN futures[k]
      /\ \A i \in DOMAIN futures[k] : i # seat => futures'[k][i].state = futures[k][i].state
  BY RecvAsyncFacts
<1>3. \A p \in pos + 1 .. Len(call.names) :
        \A j \in DOMAIN futures'[call.names[p]] : futures'[call.names[p]][j].state # "taken"
  <2> SUFFICES ASSUME NEW p \in pos + 1 .. Len(call.names)
               PROVE  \A j \in DOMAIN futures'[call.names[p]] :
                        futures'[call.names[p]][j].state # "taken"
    OBVIOUS
  <2>1. p \in 1 .. Len(call.names) /\ p # pos /\ p \in pos .. Len(call.names)
    BY <1>1
  <2>2. call.names[p] \in Name /\ call.names[p] # k
    BY <1>1, <2>1, NamesType, DistinctNames
  <2>3. futures'[call.names[p]] = futures[call.names[p]]
    BY <1>2, <2>2
  <2> QED
    BY <1>1, <2>1, <2>3 DEF UntakenInv
<1>4. \A j \in DOMAIN futures'[k] : j >= seat + 1 => futures'[k][j].state # "taken"
  <2> SUFFICES ASSUME NEW j \in DOMAIN futures[k], j >= seat + 1
               PROVE  futures'[k][j].state # "taken"
    BY <1>2
  <2>1. futures[k] \in Seq(Future)
    BY <1>2 DEF TypeInv
  <2>2. j \in Nat /\ j >= seat /\ j # seat
    BY <1>1, <2>1
  <2>3. pos \in pos .. Len(call.names)
    BY <1>1
  <2>4. futures[k][j].state # "taken"
    BY <1>1, <2>2, <2>3 DEF UntakenInv
  <2> QED
    BY <1>2, <2>2, <2>4
<1>5. \/ /\ seat' = seat + 1 /\ phase' = "wait" /\ pos' = pos
      \/ phase' = "done"
      \/ phase' = "wait" /\ pos' = pos + 1
  BY <1>1 DEF RecvAsync, Advance, NextObject
<1>6. CASE seat' = seat + 1 /\ phase' = "wait" /\ pos' = pos
  <2>1. \A p \in pos .. Len(call.names) : p = pos \/ p \in pos + 1 .. Len(call.names)
    BY <1>1
  <2> QED
    BY <1>1, <1>3, <1>4, <1>6, <2>1 DEF UntakenInv
<1>7. CASE phase' = "done"
  BY <1>7 DEF UntakenInv
<1>8. CASE phase' = "wait" /\ pos' = pos + 1
  BY <1>1, <1>3, <1>8 DEF UntakenInv
<1> QED
  BY <1>5, <1>6, <1>7, <1>8

LEMMA UntakenStep ==
  ASSUME TypeInv, ClientInv, UntakenInv, Distinct, Reuse = FALSE, [Next]_vars
  PROVE  UntakenInv'
<1>1. CASE Call
  BY <1>1, UntakenBegin DEF Call, Op
<1>2. CASE Client
  <2>1. CASE RecvException \/ RecvNothing \/ Return
    <3>1. phase' \in {"idle", "done", "crashed", "dead"}
      BY <2>1 DEF RecvException, AfterThrow, RecvNothing, Return
    <3> QED
      BY <3>1 DEF UntakenInv
  <2> QED
    BY <1>2, <2>1, UntakenSendRequest, UntakenRecvInode, UntakenRecvAsync DEF Client
<1>3. CASE MetadataServer
  BY <1>3, UntakenKept DEF MetadataServer, GrantPut, FindGet, NotInMemory, HookThrows, Answer
<1>4. CASE StorageServers
  <2>1. DOMAIN futures = Name \cup {NoName}
    BY DEF TypeInv
  <2> QED
    BY <1>4, <2>1, UntakenServe, UntakenKept DEF StorageServers, ServeLate
<1>5. CASE UNCHANGED vars
  BY <1>5, UntakenKept DEF vars
<1> QED
  BY <1>1, <1>2, <1>3, <1>4, <1>5 DEF Next

LEMMA OrderInvariant ==
  ASSUME Distinct, Reuse = FALSE
  PROVE  Spec => [](TypeInv /\ ClientInv /\ LateInv /\ Nameless /\ UntakenInv)
<1>1. Init => TypeInv /\ ClientInv /\ LateInv /\ Nameless /\ UntakenInv
  <2>1. Init => LateInv /\ Nameless /\ UntakenInv
    BY DEF Init, LateInv, Nameless, UntakenInv
  <2> QED
    BY <2>1, TypeInit, InvInit
<1>2. TypeInv /\ ClientInv /\ LateInv /\ Nameless /\ UntakenInv /\ [Next]_vars
        => (TypeInv /\ ClientInv /\ LateInv /\ Nameless /\ UntakenInv)'
  BY TypeStep, InvStep, LateStep, NamelessStep, UntakenStep
<1> QED
  BY <1>1, <1>2, PTL DEF Spec

-----------------------------------------------------------------------------
(* What an exception leaves behind                                         *)

\* Puts of a dead client that the metadata server has not granted yet.
UngrantedInv ==
  phase = "dead" =>
    \A i \in 1 .. Len(requests) : requests[i].op = "put" =>
      /\ index[requests[i].name] = 0
      /\ \A l \in 1 .. Len(requests) : requests[l].name = requests[i].name => l = i

\* Nothing but its own parts was written to an object, or is on its way.
PartsInv ==
  /\ \A n \in Name : \A j \in 1 .. MaxPieces :
       mem[n][j] = NoPiece \/ (index[n] # 0 /\ mem[n][j] = <<stored[n], j>>)
  /\ \A w \in late : index[w[1][1]] # 0 /\ w[2] = <<stored[w[1][1]], w[1][2]>>

\* A put takes place only when the name is free.
LEMMA GrantsAreNew ==
  ASSUME TypeInv, ClientInv, UngrantedInv, requests # <<>>, Head(requests).op = "put"
  PROVE  Head(requests).name \in Name /\ index[Head(requests).name] = 0
<1>1. /\ 1 \in 1 .. Len(requests) /\ Head(requests) = requests[1]
      /\ Head(requests) \in Request
  BY DEF TypeInv
<1>2. Head(requests).name \in Name
  BY <1>1 DEF Request
<1>3. CASE phase = "dead"
  BY <1>1, <1>2, <1>3 DEF UngrantedInv
<1>4. CASE phase \in {"send", "recv"}
  <2>1. /\ InCall /\ call.op = "put" /\ Answered + 1 \in 1 .. Len(call.names)
        /\ Head(requests).name = call.names[Answered + 1] /\ Answered \in Nat
    BY <1>4, HeadOfRequests, Counts DEF InCall
  <2>2. Answered + 1 > Answered
    BY <2>1
  <2> QED
    BY <1>2, <1>4, <2>1, <2>2 DEF ClientInv, GrantInv
<1> QED
  BY <1>2, <1>3, <1>4, HeadOfRequests

\* The slices of a put hold their own parts and their object has been granted.
LEMMA OwnParts ==
  ASSUME TypeInv, ClientInv, call.op = "put",
         NEW k \in Name \cup {NoName}, NEW j \in DOMAIN futures[k]
  PROVE  /\ k \in Name /\ futures[k][j].place = <<k, j>> /\ j \in 1 .. MaxPieces
         /\ index[k] # 0 /\ futures[k][j].part = <<stored[k], j>>
<1>1. futures[k] \in Seq(Future) /\ futures[k] # <<>> /\ futures[k][j] \in Future
  BY DEF TypeInv
<1>2. InCall
  BY <1>1 DEF ClientInv, FuturesInv
<1>3. PICK p \in 1 .. Received : call.names[p] = k
  BY <1>1, <1>2 DEF ClientInv, FuturesInv
<1>4. p \in 1 .. Len(call.names) /\ k \in Name
  BY <1>2, <1>3, Counts, NamesType
<1>5. Len(futures[k]) = index[k] /\ j \in 1 .. Len(futures[k]) /\ index[k] # 0
  BY <1>1, <1>2, <1>3 DEF ClientInv, FuturesInv
<1>6. futures[k][j].place = <<k, j>> /\ futures[k][j].part = <<ObjectAt(p), j>>
  BY <1>2, <1>3, <1>5 DEF ClientInv, FuturesInv, SliceOK
<1>7. stored[k] = ObjectAt(p)
  BY <1>2, <1>3, <1>4, <1>5 DEF ClientInv, GrantInv
<1>8. futures[k][j].place \in Name \X (1 .. MaxPieces)
  BY <1>1 DEF Future
<1> QED
  BY <1>4, <1>5, <1>6, <1>7, <1>8

LEMMA UngrantedStep ==
  ASSUME TypeInv, ClientInv, UngrantedInv, Distinct, [Next]_vars
  PROVE  UngrantedInv'
<1>1. CASE UNCHANGED <<requests, index, phase>>
  BY <1>1 DEF UngrantedInv
<1>2. CASE RecvException
  <2>1. phase = "recv" /\ InCall /\ UNCHANGED <<requests, index>>
    BY <1>2 DEF RecvException, InCall
  <2>2. ASSUME NEW i \in 1 .. Len(requests)
        PROVE  /\ requests[i].op = call.op /\ requests[i].name = call.names[Answered + i]
               /\ Answered + i \in 1 .. Len(call.names) /\ Answered + i > Answered
    <3>1. Answered + Len(requests) = Sent /\ Answered \in Nat
          /\ Len(requests) \in Nat /\ Sent = Len(call.names)
      BY <2>1, Counts DEF ClientInv, QueueInv, Sent
    <3>2. Answered + i \in 1 .. Len(call.names) /\ Answered + i > Answered
      BY <3>1
    <3> QED
      BY <2>1, <3>2 DEF ClientInv, QueueInv
  <2>3. \A i \in 1 .. Len(requests) : requests[i].op = "put" => index[requests[i].name] = 0
    BY <2>1, <2>2 DEF ClientInv, GrantInv
  <2>4. \A i, l \in 1 .. Len(requests) : requests[l].name = requests[i].name => l = i
    <3> SUFFICES ASSUME NEW i \in 1 .. Len(requests), NEW l \in 1 .. Len(requests),
                        requests[l].name = requests[i].name
                 PROVE  l = i
      OBVIOUS
    <3>1. Answered + l = Answered + i
      BY <2>1, <2>2, DistinctNames
    <3>2. Answered \in Nat /\ l \in Nat /\ i \in Nat
      BY <2>1, Counts
    <3> QED
      BY <3>1, <3>2
  <2> QED
    BY <2>1, <2>3, <2>4 DEF UngrantedInv
<1>3. CASE MetadataServer
  <2>1. requests # <<>> /\ requests' = Tail(requests) /\ phase' = phase
    BY <1>3 DEF MetadataServer, GrantPut, FindGet, NotInMemory, HookThrows, Answer
  <2>2. /\ Len(requests') = Len(requests) - 1 /\ Len(requests) \in Nat
        /\ \A i \in 1 .. Len(requests') : requests'[i] = requests[i + 1]
        /\ Head(requests) = requests[1] /\ requests \in Seq(Request)
    BY <2>1, HeadOfRequests DEF TypeInv
  <2>3. \/ index' = index
        \/ /\ Head(requests).op = "put"
           /\ \E pieces : index' = [index EXCEPT ![Head(requests).name] = pieces]
    BY <1>3 DEF MetadataServer, GrantPut, FindGet, NotInMemory, HookThrows
  <2>4. ASSUME phase = "dead", NEW i \in 1 .. Len(requests'), requests'[i].op = "put"
        PROVE  /\ index'[requests'[i].name] = 0
               /\ \A l \in 1 .. Len(requests') : requests'[l].name = requests'[i].name => l = i
    <3>1. i + 1 \in 1 .. Len(requests) /\ i + 1 # 1 /\ 1 \in 1 .. Len(requests)
          /\ i \in Nat /\ requests'[i] = requests[i + 1]
      BY <2>2
    <3>2. /\ index[requests[i + 1].name] = 0
          /\ \A l \in 1 .. Len(requests) : requests[l].name = requests[i + 1].name => l = i + 1
      BY <2>4, <3>1 DEF UngrantedInv
    <3>3. requests[1].name # requests[i + 1].name /\ requests[i + 1].name \in Name
      <4>1. requests[i + 1] \in Request
        BY <2>2, <3>1
      <4>2. requests[i + 1].name \in Name
        BY <4>1 DEF Request
      <4> QED
        BY <3>1, <3>2, <4>2
    <3>4. index'[requests'[i].name] = 0
      BY <2>2, <2>3, <3>1, <3>2, <3>3 DEF TypeInv
    <3>5. ASSUME NEW l \in 1 .. Len(requests'), requests'[l].name = requests'[i].name
          PROVE  l = i
      <4>1. l + 1 \in 1 .. Len(requests) /\ requests'[l] = requests[l + 1] /\ l \in Nat
        BY <2>2
      <4>2. l + 1 = i + 1
        BY <3>1, <3>2, <3>5, <4>1
      <4> QED
        BY <3>1, <4>1, <4>2
    <3> QED
      BY <3>4, <3>5
  <2> QED
    BY <2>1, <2>4 DEF UngrantedInv
<1>4. CASE Call \/ SendRequest \/ RecvInode \/ RecvNothing \/ RecvAsync \/ Return
  <2>1. phase' # "dead"
    BY <1>4 DEF Call, Begin, SendRequest, RecvInode, RecvNothing, RecvAsync, Advance,
       NextObject, Return
  <2> QED
    BY <2>1 DEF UngrantedInv
<1>5. CASE StorageServers
  BY <1>1, <1>5 DEF StorageServers, Serve, ServeLate, metadata
<1>6. CASE UNCHANGED vars
  BY <1>1, <1>6 DEF vars, metadata
<1> QED
  BY <1>2, <1>3, <1>4, <1>5, <1>6 DEF Next, Client

LEMMA PartsStep ==
  ASSUME TypeInv, ClientInv, UngrantedInv, PartsInv, [Next]_vars
  PROVE  PartsInv'
<1>1. ASSUME UNCHANGED <<mem, index, stored>>, late' \subseteq late
      PROVE  PartsInv'
  BY <1>1 DEF PartsInv
<1>2. CASE RecvException
  <2>1. UNCHANGED <<mem, index, stored>> /\ late' = late \cup SentPuts
    BY <1>2 DEF RecvException
  <2>2. ASSUME NEW w \in SentPuts
        PROVE  index[w[1][1]] # 0 /\ w[2] = <<stored[w[1][1]], w[1][2]>>
    <3>1. call.op = "put"
      BY SentPutsFacts
    <3>2. PICK k \in Name \cup {NoName} : \E j \in DOMAIN futures[k] :
            w = <<futures[k][j].place, futures[k][j].part>>
      BY SentPutsFacts
    <3>3. PICK j \in DOMAIN futures[k] : w = <<futures[k][j].place, futures[k][j].part>>
      BY <3>2
    <3>4. /\ futures[k][j].place = <<k, j>> /\ index[k] # 0
          /\ futures[k][j].part = <<stored[k], j>>
      BY <3>1, OwnParts
    <3> QED
      BY <3>3, <3>4
  <2> QED
    BY <2>1, <2>2 DEF PartsInv
<1>3. ASSUME NEW pieces \in 1 .. MaxPieces, GrantPut(pieces) PROVE PartsInv'
  <2> DEFINE N == Head(requests).name
  <2>1. N \in Name /\ index[N] = 0
    BY <1>3, GrantsAreNew DEF GrantPut
  <2>2. UNCHANGED <<mem, late>>
    BY <1>3 DEF GrantPut, Answer, storage
  <2>3. \A n \in Name : n # N => index'[n] = index[n] /\ stored'[n] = stored[n]
    BY <1>3 DEF GrantPut, TypeInv
  <2>4. \A j \in 1 .. MaxPieces : mem[N][j] = NoPiece
    BY <2>1 DEF PartsInv
  <2>5. \A w \in late : w[1][1] \in Name /\ w[1][1] # N
    BY <2>1 DEF PartsInv, TypeInv
  <2> HIDE DEF N
  <2> QED
    BY <2>2, <2>3, <2>4, <2>5 DEF PartsInv
<1>4. ASSUME NEW k \in Name \cup {NoName}, NEW j \in DOMAIN futures[k], Serve(k, j)
      PROVE  PartsInv'
  <2> DEFINE f == futures[k][j]
  <2>1. UNCHANGED <<index, stored>> /\ late' = late
    BY <1>4 DEF Serve, metadata
  <2>2. CASE call.op # "put"
    <3>1. f.place[1] \in Name /\ f.place[2] \in 1 .. MaxPieces
      BY <1>4, ServeFacts
    <3>2. mem' = [mem EXCEPT ![f.place[1]][f.place[2]] = @]
      BY <1>4, <2>2 DEF Serve
    <3>3. mem' = mem
      BY <3>1, <3>2 DEF TypeInv
    <3> QED
      BY <1>1, <2>1, <3>3
  <2>3. CASE call.op = "put"
    <3>1. /\ k \in Name /\ f.place = <<k, j>> /\ j \in 1 .. MaxPieces
          /\ index[k] # 0 /\ f.part = <<stored[k], j>>
      BY <2>3, OwnParts
    <3>2. mem' = [mem EXCEPT ![k][j] = <<stored[k], j>>]
      BY <1>4, <2>3, <3>1 DEF Serve
    <3>3. \A n \in Name, i \in 1 .. MaxPieces :
            mem'[n][i] = IF n = k /\ i = j THEN <<stored[k], j>> ELSE mem[n][i]
      BY <3>1, <3>2 DEF TypeInv
    <3> HIDE DEF f
    <3> QED
      BY <2>1, <3>1, <3>3 DEF PartsInv
  <2> QED
    BY <2>2, <2>3
<1>5. ASSUME NEW w \in late, ServeLate(w) PROVE PartsInv'
  <2>1. index[w[1][1]] # 0 /\ w[2] = <<stored[w[1][1]], w[1][2]>>
    BY DEF PartsInv
  <2> QED
    BY <1>5, <2>1, ServeLateFacts DEF PartsInv
<1>6. CASE StorageServers
  <2>1. DOMAIN futures = Name \cup {NoName}
    BY DEF TypeInv
  <2> QED
    BY <1>4, <1>5, <1>6, <2>1 DEF StorageServers
<1>7. CASE FindGet \/ NotInMemory \/ HookThrows
  BY <1>1, <1>7 DEF FindGet, NotInMemory, HookThrows, Answer, storage
<1>8. CASE Call \/ SendRequest \/ RecvInode \/ RecvNothing \/ RecvAsync \/ Return
  BY <1>1, <1>8 DEF Call, Begin, SendRequest, RecvInode, RecvNothing, RecvAsync, Return,
     metadata, storage
<1>9. CASE UNCHANGED vars
  BY <1>1, <1>9 DEF vars, metadata, storage
<1> QED
  BY <1>2, <1>3, <1>6, <1>7, <1>8, <1>9 DEF Next, Client, MetadataServer

\* Client's type invariant, whatever a call names and however it goes on after
\* an exception.
THEOREM ClientTypeOK == Spec => []TypeOK
<1> QED
  BY ClientTypeCorrect, TypeOKHolds, PTL

\* hive_client.h:80, "Put objects": when async_put or vput returns, every slice
\* of every object that was granted space holds its own part of that object.
THEOREM PutsStored ==
  ASSUME Distinct, Reuse = FALSE
  PROVE  Spec => []PutStored
<1>1. TypeInv /\ ClientInv => PutStored
  BY AllDone
<1> QED
  BY <1>1, Invariant, PTL

\* hive_client.h:89, "Objects correspond to obj_names": async_get and vget return
\* for each name the object put under it, for vectors of any length, any window
\* of the metadata connection and whichever storage server answers first.
THEOREM GetsReturnWhatWasPut ==
  ASSUME Distinct, Reuse = FALSE
  PROVE  Spec => []GetReturnsPut
<1>1. TypeInv /\ ClientInv => GetReturnsPut
  BY AllDone
<1> QED
  BY <1>1, Invariant, PTL

\* hive_client.cpp:225: a call that returns leaves no reply on any connection.
THEOREM NothingStays ==
  ASSUME Distinct, Reuse = FALSE
  PROVE  Spec => []NothingLeftBehind
<1>1. TypeInv /\ ClientInv => NothingLeftBehind
  BY AllDone
<1> QED
  BY <1>1, Invariant, PTL

\* vput and vget use the vector find() did not find only when the metadata
\* server refused an object.
THEOREM CrashesNeedRefusal ==
  ASSUME Distinct, Reuse = FALSE
  PROVE  Spec => []CrashNeedsRefusal
<1>1. TypeInv /\ ClientInv => CrashNeedsRefusal
  BY AllDone
<1> QED
  BY <1>1, Invariant, PTL

\* "assume recv metadata response sequence is the same as send request sequence"
\* (hive_client.cpp:226): it is, for vectors of any length and any window, the
\* replies without a name being the refusals and the exceptions.
THEOREM RepliesInOrder ==
  ASSUME Distinct, Reuse = FALSE
  PROVE  Spec => []RepliesMatch
<1>1. TypeInv /\ ClientInv /\ Nameless => RepliesMatch
  <2> SUFFICES ASSUME TypeInv, ClientInv, Nameless, phase = "recv", replies # <<>>
               PROVE  Head(replies).name \in {call.names[pos], NoName}
    BY DEF RepliesMatch
  <2>1. /\ Head(replies) = replies[1] /\ 1 \in 1 .. Len(replies) /\ 1 \in DOMAIN replies
        /\ replies[1] \in Reply
    BY HeadOfReplies DEF TypeInv
  <2>2. pos \in Nat /\ Received + 1 = pos
    BY NamesType DEF Received, InCall
  <2>3. CASE replies[1].kind = "inode"
    BY <2>1, <2>2, <2>3 DEF ClientInv, QueueInv
  <2>4. CASE replies[1].kind = "exception"
    BY <2>1, <2>4 DEF Nameless
  <2> QED
    BY <2>1, <2>3, <2>4 DEF Reply
<1> QED
  BY <1>1, OrderInvariant, PTL

\* hive_client.cpp:218: vput and vget send every request before they take a
\* reply, and still no call waits for ever as long as a vector has no more names
\* than the two directions of the metadata connection hold.
THEOREM CallsNeverStuck ==
  ASSUME Distinct, Reuse = FALSE, \A v \in Batch : Len(v) <= 2 * Window
  PROVE  Spec => []NeverStuck
<1>1. TypeInv /\ ClientInv /\ UntakenInv => NeverStuck
  <2> SUFFICES ASSUME TypeInv, ClientInv, UntakenInv
               PROVE  NeverStuck
    OBVIOUS
  <2>1. /\ Window \in Nat \ {0} /\ Len(requests) \in Nat /\ Len(replies) \in Nat
        /\ Len(requests) = 0 => requests = <<>>
        /\ Len(replies) = 0 => replies = <<>>
    BY BoundAssumption DEF TypeInv
  <2>2. InCall => /\ pos \in 1 .. Len(call.names) /\ Len(call.names) \in Nat
                  /\ Len(call.names) <= 2 * Window
    BY NamesType
  <2>3. ASSUME phase = "send"
        PROVE  Len(requests) < Window \/ Len(replies) < Window
    <3>1. Len(replies) + Len(requests) = pos - 1
      BY <2>1, <2>3 DEF ClientInv, QueueInv, Answered, Received, Sent
    <3> QED
      BY <2>1, <2>2, <2>3, <3>1 DEF InCall
  <2>4. ASSUME phase = "recv"
        PROVE  requests # <<>> \/ replies # <<>>
    <3>1. pos - 1 + Len(replies) + Len(requests) = Len(call.names)
      BY <2>1, <2>4 DEF ClientInv, QueueInv, Answered, Received, Sent
    <3>2. Len(replies) # 0 \/ Len(requests) # 0
      BY <2>1, <2>2, <2>4, <3>1 DEF InCall
    <3>3. Len(<<>>) = 0
      OBVIOUS
    <3> QED
      BY <3>2, <3>3
  <2>5. ASSUME phase = "wait", Awaited # <<>>
        PROVE  Awaited[seat].state # "taken"
    <3>1. pos \in pos .. Len(call.names) /\ Awaited = futures[call.names[pos]]
      BY <2>2, <2>5 DEF InCall, Awaited
    <3>2. call.names[pos] \in Name
      BY <2>5, NamesType DEF InCall
    <3>3. Awaited \in Seq(Future) /\ seat \in Nat \ {0} /\ (seat = 1 \/ seat <= Len(Awaited))
      BY <2>5, <3>1, <3>2 DEF TypeInv
    <3>4. seat \in DOMAIN Awaited /\ seat >= seat
      BY <2>5, <3>3
    <3> QED
      BY <2>5, <3>1, <3>4 DEF UntakenInv
  <2> QED
    BY <2>3, <2>4, <2>5 DEF NeverStuck
<1> QED
  BY <1>1, OrderInvariant, PTL

\* hive_client.cpp:543: an exception ends the vectored put while slices it sent
\* are on their way; they arrive, and its other requests are granted, when the
\* call is over, and still no slice ever holds another part or another object.
THEOREM PartsStayInPlace ==
  ASSUME Distinct, Reuse = FALSE
  PROVE  Spec => []PartsInPlace
<1> DEFINE Inv == TypeInv /\ ClientInv /\ LateInv /\ UngrantedInv /\ PartsInv
<1>1. Init => Inv
  <2>1. Init => UngrantedInv /\ PartsInv
    BY DEF Init, UngrantedInv, PartsInv
  <2> QED
    BY <2>1, TypeInit, InvInit DEF Init, LateInv
<1>2. Inv /\ [Next]_vars => Inv'
  BY TypeStep, InvStep, LateStep, UngrantedStep, PartsStep
<1>3. Inv => PartsInPlace
  <2> SUFFICES ASSUME Inv PROVE PartsInPlace
    OBVIOUS
  <2>1. \A n \in Name : index[n] \in 0 .. MaxPieces /\ MaxPieces \in Nat
    BY Constants DEF TypeInv
  <2>2. \A n \in Name : \A j \in 1 .. index[n] : j \in 1 .. MaxPieces /\ Whole(n)[j] = <<stored[n], j>>
    BY <2>1 DEF Whole
  <2> QED
    BY <2>2 DEF PartsInv, PartsInPlace
<1> QED
  BY <1>1, <1>2, <1>3, PTL DEF Spec
=============================================================================
