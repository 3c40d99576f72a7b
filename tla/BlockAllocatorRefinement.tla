---------------------- MODULE BlockAllocatorRefinement ----------------------
(***************************************************************************)
(* The map of allocated blocks is exact, nothing is lost, requests get     *)
(* what they asked for, and the unlocked calls implement BlockPool, for    *)
(* any servers, blocks, threads and requests.                              *)
(***************************************************************************)
EXTENDS BlockAllocatorProofs

\* What Append and Tail do to the set of a vector's blocks.
LEMMA RangeAppend ==
  ASSUME NEW S, NEW q \in Seq(S), NEW c \in S
  PROVE  Range(Append(q, c)) = Range(q) \cup {c}
<1>1. /\ DOMAIN Append(q, c) = 1 .. Len(q) + 1
      /\ DOMAIN q = 1 .. Len(q) /\ Len(q) \in Nat
      /\ Append(q, c)[Len(q) + 1] = c
      /\ \A i \in 1 .. Len(q) : Append(q, c)[i] = q[i]
  OBVIOUS
<1>2. \A i \in 1 .. Len(q) + 1 : i = Len(q) + 1 \/ i \in 1 .. Len(q)
  BY <1>1
<1>3. Range(Append(q, c)) \subseteq Range(q) \cup {c}
  BY <1>1, <1>2 DEF Range
<1>4. Len(q) + 1 \in 1 .. Len(q) + 1 /\ \A i \in 1 .. Len(q) : i \in 1 .. Len(q) + 1
  BY <1>1
<1>5. c \in Range(Append(q, c)) /\ Range(q) \subseteq Range(Append(q, c))
  BY <1>1, <1>4, Zenon DEF Range
<1> QED
  BY <1>3, <1>5

LEMMA RangeTail ==
  ASSUME NEW S, NEW q \in Seq(S), q # <<>>
  PROVE  Range(q) = Range(Tail(q)) \cup {Head(q)}
<1>1. /\ Len(q) \in Nat \ {0} /\ DOMAIN q = 1 .. Len(q)
      /\ DOMAIN Tail(q) = 1 .. Len(q) - 1
      /\ \A i \in 1 .. Len(q) - 1 : Tail(q)[i] = q[i+1]
      /\ Head(q) = q[1]
  BY EmptySeq, HeadTailProperties, LenProperties
<1>2. ASSUME NEW c \in Range(q) PROVE c \in Range(Tail(q)) \cup {Head(q)}
  <2>1. PICK i \in 1 .. Len(q) : c = q[i]
    BY <1>1, <1>2, Zenon DEF Range
  <2>2. CASE i = 1
    BY <1>1, <2>1, <2>2
  <2>3. CASE i # 1
    <3>1. i - 1 \in 1 .. Len(q) - 1 /\ (i - 1) + 1 = i
      BY <1>1, <2>1, <2>3
    <3>2. i - 1 \in DOMAIN Tail(q) /\ Tail(q)[i - 1] = c
      BY <1>1, <2>1, <3>1
    <3> QED
      BY <3>2, Zenon DEF Range
  <2> QED
    BY <2>2, <2>3
<1>3. ASSUME NEW c \in Range(Tail(q)) PROVE c \in Range(q)
  <2>1. PICK i \in DOMAIN Tail(q) : c = Tail(q)[i]
    BY <1>3, Zenon DEF Range
  <2>2. i + 1 \in 1 .. Len(q) /\ c = q[i+1]
    BY <1>1, <2>1
  <2> QED
    BY <1>1, <2>2, Zenon DEF Range
<1>4. 1 \in DOMAIN q
  BY <1>1
<1>5. Head(q) \in Range(q)
  BY <1>1, <1>4, Zenon DEF Range
<1> QED
  BY <1>2, <1>3, <1>5

\* Where a call is determines what its locals hold.
CallInv ==
  \A t \in Thread :
    /\ pc[t] \in {"dequeue", "insert"} =>
         /\ owner[t] \in Owner
         /\ grant[owner[t]] = <<>>
         /\ \A u \in Thread : owner[u] = owner[t] => u = t
    /\ pc[t] \notin {"dequeue", "insert"} => owner[t] = NoOwner
    /\ pc[t] \notin {"insert", "erase"} => idx[t] = 1
    /\ idx[t] <= Len(hand[t]) + 1
    /\ missed[t] => pc[t] = "erase"

LEMMA CallInit == Init => CallInv
<1> SUFFICES ASSUME Init, NEW t \in Thread PROVE idx[t] <= Len(hand[t]) + 1
  BY DEF Init, CallInv
<1> QED
  BY EmptySeq DEF Init

LEMMA CallStep == TypeInv /\ CallInv /\ [Next]_vars => CallInv'
<1> SUFFICES ASSUME TypeInv, CallInv, [Next]_vars PROVE CallInv'
  OBVIOUS
<1> USE CallerAssumption DEF TypeInv, TypeOK, CallInv
<1>1. ASSUME NEW t \in Thread, NEW o \in Owner, NEW n \in 1..MaxCount, Allocate(t, o, n)
      PROVE  CallInv'
  BY <1>1 DEF Allocate
<1>2. ASSUME NEW t \in Thread, Dequeue(t) PROVE CallInv'
  BY <1>2 DEF Dequeue
<1>3. ASSUME NEW t \in Thread, Miss(t) PROVE CallInv'
  BY <1>3 DEF Miss
<1>4. ASSUME NEW t \in Thread, EnqueueNext(t), pc[t] \in {"rollback", "enqueue"}
      PROVE  CallInv'
  BY <1>4, HeadTailProperties, LenProperties DEF EnqueueNext, BlockToEnqueue
<1>5. ASSUME NEW t \in Thread, Insert(t) PROVE CallInv'
  BY <1>5 DEF Insert, InLoop, BlockAt
<1>6. ASSUME NEW t \in Thread, Grant(t) PROVE CallInv'
  BY <1>6, EmptySeq DEF Grant
<1>7. ASSUME NEW t \in Thread, NEW o \in Owner, FreeBlocks(t, o) PROVE CallInv'
  BY <1>7 DEF FreeBlocks
<1>8. ASSUME NEW t \in Thread, Erase(t) PROVE CallInv'
  BY <1>8 DEF Erase, InLoop, BlockAt
<1>9. ASSUME NEW t \in Thread, FreeThrows(t) PROVE CallInv'
  BY <1>9, EmptySeq DEF FreeThrows
<1>10. ASSUME NEW t \in Thread, FreeErased(t) PROVE CallInv'
  BY <1>10 DEF FreeErased
<1>11. ASSUME NEW t \in Thread, NEW s \in Server, AddBlocks(t, s) PROVE CallInv'
  BY <1>11, ServerAssumption DEF AddBlocks
<1>12. CASE UNCHANGED vars
  BY <1>12 DEF vars
<1> QED
  BY <1>1, <1>2, <1>3, <1>4, <1>5, <1>6, <1>7, <1>8, <1>9, <1>10, <1>11, <1>12
     DEF Next, Call, AllocateThrows, Continue, Rollback, Enqueue

-----------------------------------------------------------------------------
(* The map                                                                 *)

MapInv == MapIsExact /\ FreeNeverRefused
CoreInv == SafeInv /\ CallInv

Granted == UNION {Range(grant[o]) : o \in Owner}
InCalls == UNION {MapOfThread(t) : t \in Thread}

\* No step brings a server's second advertisement undone.
LEMMA BootsGrow ==
  TypeInv /\ [Next]_vars /\ RegisteredOnce' => RegisteredOnce
<1> SUFFICES ASSUME TypeInv, [Next]_vars, RegisteredOnce', NEW s \in Server
             PROVE  boots[s] <= 1
  BY DEF RegisteredOnce
<1>1. boots[s] \in Nat /\ boots'[s] <= 1
  BY DEF RegisteredOnce, TypeInv, TypeOK
<1>2. boots'[s] = boots[s] \/ boots'[s] = boots[s] + 1
  BY DEF Next, Call, Continue, vars, AllocateThrows, Allocate, Dequeue, Miss, Rollback, Enqueue,
         EnqueueNext, Insert, Grant, FreeBlocks, Erase, FreeThrows, FreeErased,
         AddBlocks, TypeInv, TypeOK
<1> QED
  BY <1>1, <1>2

\* A step that changes neither the map, nor a request's vector, nor the part
\* of a call's vector that is in the map.
LEMMA MapStutter ==
  ASSUME allocated = Granted \cup InCalls, allocated' = allocated, grant' = grant,
         \A t \in Thread : MapOfThread(t)' = MapOfThread(t)
  PROVE  allocated' = (Granted \cup InCalls)'
BY DEF Granted, InCalls

LEMMA MapStep == CoreInv /\ MapInv /\ [Next]_vars => MapInv'
<1> SUFFICES ASSUME CoreInv, MapInv, [Next]_vars, RegisteredOnce'
             PROVE  /\ allocated' = (Granted \cup InCalls)'
                    /\ \A t \in Thread : ~missed'[t]
  BY DEF MapInv, MapIsExact, FreeNeverRefused, Granted, InCalls
<1>0. /\ TypeOK /\ TypeInv /\ OnePlace /\ CallInv
      /\ allocated = Granted \cup InCalls
      /\ \A t \in Thread : ~missed[t]
  BY BootsGrow DEF CoreInv, SafeInv, TypeInv, PlaceInv, ExclusiveUse, MapInv,
                   MapIsExact, FreeNeverRefused, Granted, InCalls
<1> DEFINE Goal == /\ allocated' = (Granted \cup InCalls)'
                   /\ \A t \in Thread : ~missed'[t]
<1>1. ASSUME allocated' = allocated, grant' = grant, missed' = missed,
             \A t \in Thread : MapOfThread(t)' = MapOfThread(t)
      PROVE  Goal
  BY <1>0, <1>1, MapStutter
<1>2. ASSUME UNCHANGED <<allocated, grant, missed>>,
             NEW t \in Thread,
             \A u \in Thread \ {t} : UNCHANGED <<pc[u], hand[u], idx[u]>>,
             MapOfThread(t) = {}, MapOfThread(t)' = {}
      PROVE  Goal
  <2>1. ASSUME NEW u \in Thread, u # t PROVE MapOfThread(u)' = MapOfThread(u)
    BY <1>2, <2>1 DEF MapOfThread, MapIndices
  <2> QED
    BY <1>1, <1>2, <2>1
<1> HIDE DEF Goal
<1>3. ASSUME NEW t \in Thread, NEW o \in Owner, NEW n \in 1..MaxCount, Allocate(t, o, n)
      PROVE  Goal
  <2>1. MapOfThread(t) = {} /\ MapOfThread(t)' = {}
    BY <1>0, <1>3 DEF Allocate, MapOfThread, MapIndices, TypeOK
  <2> QED
    BY <1>0, <1>2, <1>3, <2>1 DEF Allocate, TypeOK
<1>4. ASSUME NEW t \in Thread, Dequeue(t) PROVE Goal
  <2>1. MapOfThread(t) = {} /\ idx[t] = 1 /\ idx' = idx
    BY <1>0, <1>4 DEF Dequeue, MapOfThread, MapIndices, CallInv
  <2>2. pc'[t] \in {"insert", "dequeue"}
    BY <1>0, <1>4 DEF Dequeue, TypeOK
  <2>3. MapIndices(t)' = {}
    BY <2>1, <2>2 DEF MapIndices
  <2>4. MapOfThread(t)' = {}
    BY <2>3 DEF MapOfThread
  <2> QED
    BY <1>0, <1>2, <1>4, <2>1, <2>4 DEF Dequeue, TypeOK
<1>5. ASSUME NEW t \in Thread, Miss(t) PROVE Goal
  <2>1. MapOfThread(t) = {} /\ MapOfThread(t)' = {}
    BY <1>0, <1>5 DEF Miss, MapOfThread, MapIndices, TypeOK
  <2> QED
    BY <1>0, <1>2, <1>5, <2>1 DEF Miss, TypeOK
<1>6. ASSUME NEW t \in Thread, EnqueueNext(t), pc[t] \in {"rollback", "enqueue"}
      PROVE  Goal
  <2>1. pc'[t] \in {"idle", "rollback", "enqueue"}
    BY <1>0, <1>6 DEF EnqueueNext, TypeOK
  <2>2. MapOfThread(t) = {} /\ MapOfThread(t)' = {}
    BY <1>6, <2>1 DEF MapOfThread, MapIndices
  <2> QED
    BY <1>0, <1>2, <1>6, <2>2 DEF EnqueueNext, TypeOK
<1>7. ASSUME NEW t \in Thread, Insert(t) PROVE Goal
  <2> DEFINE b == hand[t][idx[t]]
  <2>1. MapIndices(t)' = MapIndices(t) \cup {idx[t]}
    BY <1>0, <1>7 DEF Insert, MapIndices, TypeOK
  <2>2. MapOfThread(t)' = MapOfThread(t) \cup {b}
    BY <1>7, <2>1 DEF Insert, MapOfThread
  <2>3. ASSUME NEW u \in Thread, u # t PROVE MapOfThread(u)' = MapOfThread(u)
    BY <1>0, <1>7, <2>3 DEF Insert, MapOfThread, MapIndices, TypeOK
  <2>4. InCalls' = InCalls \cup {b}
    BY <2>2, <2>3 DEF InCalls
  <2>5. Granted' = Granted
    BY <1>7 DEF Insert, Granted
  <2> QED
    BY <1>0, <1>7, <2>4, <2>5 DEF Goal, Insert, BlockAt
<1>8. ASSUME NEW t \in Thread, Grant(t) PROVE Goal
  <2> DEFINE o == owner[t]
  <2>1. o \in Owner /\ grant[o] = <<>> /\ DOMAIN grant[o] = {}
    BY <1>0, <1>8 DEF Grant, CallInv
  <2>2. MapIndices(t) = DOMAIN hand[t]
    BY <1>0, <1>8 DEF Grant, InLoop, CallInv, TypeOK, MapIndices
  <2>3. MapOfThread(t) = Range(hand[t])
    BY <2>2 DEF MapOfThread, Range
  <2>4. MapOfThread(t)' = {}
    BY <1>0, <1>8 DEF Grant, MapOfThread, MapIndices, TypeOK
  <2>5. ASSUME NEW u \in Thread, u # t PROVE MapOfThread(u)' = MapOfThread(u)
    BY <1>0, <1>8, <2>5 DEF Grant, MapOfThread, MapIndices, TypeOK
  <2>6. Granted' = Granted \cup Range(hand[t])
    <3>1. \A p \in Owner : Range(grant[p])' = IF p = o THEN Range(hand[t]) ELSE Range(grant[p])
      BY <1>0, <1>8, <2>1 DEF Grant, TypeOK
    <3>2. Range(grant[o]) = {}
      BY <2>1 DEF Range
    <3> QED
      BY <2>1, <3>1, <3>2 DEF Granted
  <2>7. InCalls = InCalls' \cup Range(hand[t])
    BY <2>3, <2>4, <2>5 DEF InCalls
  <2> QED
    BY <1>0, <1>8, <2>6, <2>7 DEF Goal, Grant
<1>9. ASSUME NEW t \in Thread, NEW o \in Owner, FreeBlocks(t, o) PROVE Goal
  <2>1. MapOfThread(t) = {}
    BY <1>9 DEF FreeBlocks, MapOfThread, MapIndices
  <2>2. pc'[t] = "erase" /\ idx'[t] = 1 /\ hand'[t] = grant[o]
    BY <1>0, <1>9 DEF FreeBlocks, CallInv, TypeOK
  <2>3. MapIndices(t)' = DOMAIN grant[o]
    BY <1>0, <2>2 DEF MapIndices, TypeOK
  <2>4. MapOfThread(t)' = Range(grant[o])
    BY <2>2, <2>3 DEF MapOfThread, Range
  <2>5. ASSUME NEW u \in Thread, u # t PROVE MapOfThread(u)' = MapOfThread(u)
    BY <1>0, <1>9, <2>5 DEF FreeBlocks, MapOfThread, MapIndices, TypeOK
  <2>6. Granted = Granted' \cup Range(grant[o])
    <3>1. \A p \in Owner : Range(grant[p])' = IF p = o THEN {} ELSE Range(grant[p])
      BY <1>0, <1>9 DEF FreeBlocks, TypeOK, Range
    <3> QED
      BY <3>1 DEF Granted
  <2>7. InCalls' = InCalls \cup Range(grant[o])
    BY <2>1, <2>4, <2>5 DEF InCalls
  <2> QED
    BY <1>0, <1>9, <2>6, <2>7 DEF Goal, FreeBlocks
<1>10. ASSUME NEW t \in Thread, Erase(t) PROVE Goal
  <2> DEFINE b == hand[t][idx[t]]
  <2>1. idx[t] \in DOMAIN hand[t] /\ idx[t] \in MapIndices(t)
    BY <1>0, <1>10 DEF Erase, InLoop, MapIndices, TypeOK
  <2>2. b \in MapOfThread(t) /\ b \in allocated
    BY <1>0, <2>1 DEF MapOfThread, InCalls
  <2>3. MapIndices(t)' = MapIndices(t) \ {idx[t]}
    BY <1>0, <1>10 DEF Erase, InLoop, MapIndices, TypeOK
  <2>4. \A u \in Thread : MapIndices(u) \subseteq DOMAIN hand[u]
    BY <1>0 DEF MapIndices, TypeOK, CallInv
  <2>5. \A x \in Holder : \A i \in DOMAIN Held(x) : Held(x)[i] = b => x = t /\ i = idx[t]
    BY <1>0, <2>1, HeldByThread DEF OnePlace
  <2>6. MapOfThread(t)' = MapOfThread(t) \ {b}
    BY <1>10, <2>3, <2>4, <2>5, HeldByThread DEF Erase, MapOfThread
  <2>7. ASSUME NEW u \in Thread, u # t
        PROVE  MapOfThread(u)' = MapOfThread(u) /\ b \notin MapOfThread(u)
    BY <1>0, <1>10, <2>4, <2>5, <2>7, HeldByThread DEF Erase, MapOfThread, MapIndices, TypeOK
  <2>8. InCalls' = InCalls \ {b}
    BY <2>2, <2>6, <2>7 DEF InCalls
  <2>9. Granted' = Granted /\ b \notin Granted
    BY <1>10, <2>5, HeldByOwner, CallerAssumption DEF Erase, Granted, Range
  <2> QED
    BY <1>0, <1>10, <2>2, <2>8, <2>9 DEF Goal, Erase, BlockAt, TypeOK
<1>11. ASSUME NEW t \in Thread, FreeErased(t) PROVE Goal
  <2>1. MapIndices(t) = {} /\ MapIndices(t)' = {}
    BY <1>0, <1>11 DEF FreeErased, InLoop, MapIndices, TypeOK
  <2>2. MapOfThread(t) = {} /\ MapOfThread(t)' = {}
    BY <2>1 DEF MapOfThread
  <2> QED
    BY <1>0, <1>2, <1>11, <2>2 DEF FreeErased, TypeOK
<1>12. ASSUME NEW t \in Thread, FreeThrows(t) PROVE Goal
  BY <1>0, <1>12 DEF FreeThrows
<1>13. ASSUME NEW t \in Thread, NEW s \in Server, AddBlocks(t, s) PROVE Goal
  <2>1. MapOfThread(t) = {} /\ MapOfThread(t)' = {}
    BY <1>0, <1>13 DEF AddBlocks, MapOfThread, MapIndices, TypeOK
  <2> QED
    BY <1>0, <1>2, <1>13, <2>1 DEF AddBlocks, TypeOK
<1>15. ASSUME UNCHANGED vars PROVE Goal
  <2>1. \A t \in Thread : MapOfThread(t)' = MapOfThread(t)
    BY <1>15 DEF vars, MapOfThread, MapIndices
  <2> QED
    BY <1>1, <1>15, <2>1 DEF vars
<1>16. ASSUME NEW t \in Thread, Call(t) PROVE Goal
  BY <1>3, <1>9, <1>13, <1>15, <1>16 DEF Call, AllocateThrows
<1>17. ASSUME NEW t \in Thread, Continue(t) PROVE Goal
  BY <1>4, <1>5, <1>6, <1>7, <1>8, <1>10, <1>11, <1>12, <1>17
     DEF Continue, Rollback, Enqueue
<1>18. Goal
  BY <1>15, <1>16, <1>17 DEF Next
<1> QED
  BY <1>18 DEF Goal

-----------------------------------------------------------------------------
(* Nothing is lost                                                         *)

\* A block has a place.
Placed(b) == free[b] > 0 \/ \E x \in Holder : b \in Range(Held(x))

LEMMA NothingLostStep == CoreInv /\ MapInv /\ NothingLost /\ [Next]_vars => NothingLost'
<1> SUFFICES ASSUME CoreInv, MapInv, NothingLost, [Next]_vars, RegisteredOnce',
                    NEW s \in Server, boots'[s] > 0, NEW b \in Range(BlocksOf[s])
             PROVE  Placed(b)'
  BY DEF NothingLost, Placed, Holder
<1>0. /\ TypeOK /\ TypeInv /\ CallInv /\ IdleHasNothing /\ b \in Block
      /\ \A t \in Thread : ~missed[t]
      /\ boots[s] > 0 => Placed(b)
  BY BootsGrow, ServerAssumption
     DEF CoreInv, SafeInv, TypeInv, MapInv, FreeNeverRefused, NothingLost, Placed, Range
<1> DEFINE Goal == Placed(b)'
<1> HIDE DEF Goal
<1> USE HeldByThread, HeldByOwner
<1>1. ASSUME boots' = boots,
             \A c \in Block : free[c] > 0 => free'[c] > 0,
             \A x \in Holder : \A c \in Range(Held(x)) :
               free'[c] > 0 \/ \E y \in Holder : c \in Range(Held(y)')
      PROVE  Goal
  BY <1>0, <1>1 DEF Goal, Placed, TypeOK, Holder
<1>2. ASSUME UNCHANGED <<boots, free, hand, grant>> PROVE Goal
  BY <1>0, <1>2 DEF Goal, Placed, Held
<1>3. ASSUME NEW t \in Thread, Dequeue(t) PROVE Goal
  <2>1. PICK c \in Block : /\ free[c] > 0
                           /\ free' = DequeuedFree(c)
                           /\ hand' = [hand EXCEPT ![t] = Append(@, c)]
    BY <1>3 DEF Dequeue
  <2>2. \A x \in Holder : Held(x)' = IF x = t THEN Append(Held(t), c) ELSE Held(x)
    BY <1>0, <1>3, <2>1 DEF Dequeue, Held, TypeOK
  <2>3. /\ c \in Range(Append(hand[t], c))
        /\ Range(hand[t]) \subseteq Range(Append(hand[t], c))
    <3>1. hand[t] \in Seq(Block)
      BY <1>0 DEF TypeOK
    <3> QED
      BY <3>1, RangeAppend
  <2>4. Placed(b) => Placed(b)'
    <3>1. CASE b = c
      BY <3>1, <2>2, <2>3 DEF Placed, Holder
    <3>2. CASE b # c
      BY <3>2, <1>0, <2>1, <2>2, <2>3 DEF Placed, Holder, DequeuedFree, TypeOK
    <3> QED
      BY <3>1, <3>2
  <2> QED
    BY <1>0, <1>3, <2>4 DEF Goal, Dequeue
<1>4. ASSUME NEW t \in Thread, EnqueueNext(t), hand[t] # <<>> PROVE Goal
  <2>1. \A x \in Holder : Held(x)' = IF x = t THEN Tail(Held(t)) ELSE Held(x)
    BY <1>0, <1>4 DEF EnqueueNext, Held, TypeOK
  <2>2. ASSUME NEW c \in Range(hand[t]) PROVE c = Head(hand[t]) \/ c \in Range(Tail(hand[t]))
    <3>1. hand[t] \in Seq(Block)
      BY <1>0 DEF TypeOK
    <3> QED
      BY <1>4, <2>2, <3>1, RangeTail
  <2>3. Head(hand[t]) \in Block
    BY <1>0, <1>4 DEF TypeOK
  <2>4. free'[Head(hand[t])] > 0 /\ \A c \in Block : free[c] > 0 => free'[c] > 0
    BY <1>0, <1>4, <2>3 DEF EnqueueNext, EnqueuedFree, NextInHand, TypeOK
  <2> QED
    BY <1>1, <1>4, <2>1, <2>2, <2>4 DEF EnqueueNext
<1>5. ASSUME NEW t \in Thread, Grant(t) PROVE Goal
  <2>1. owner[t] \in Owner /\ grant[owner[t]] = <<>>
    BY <1>0, <1>5 DEF Grant, CallInv
  <2>2. \A x \in Holder :
          Held(x)' = IF x = owner[t] THEN Held(t) ELSE IF x = t THEN <<>> ELSE Held(x)
    BY <1>0, <1>5, <2>1, CallerAssumption DEF Grant, Held, TypeOK, Holder
  <2>3. Range(Held(owner[t])) = {}
    BY <2>1 DEF Range
  <2> QED
    <3>1. ASSUME NEW x \in Holder, NEW c \in Range(Held(x))
          PROVE  \E y \in Holder : c \in Range(Held(y)')
      <4>1. x # owner[t]
        BY <2>3, <3>1
      <4>2. CASE x = t
        BY <2>1, <2>2, <3>1, <4>2
      <4>3. CASE x # t
        BY <2>2, <3>1, <4>1, <4>3
      <4> QED
        BY <4>2, <4>3
    <3> QED
      BY <1>1, <1>5, <3>1 DEF Grant
<1>6. ASSUME NEW t \in Thread, NEW o \in Owner, FreeBlocks(t, o) PROVE Goal
  <2>1. hand[t] = <<>>
    BY <1>0, <1>6 DEF FreeBlocks, IdleHasNothing
  <2>2. \A x \in Holder :
          Held(x)' = IF x = t THEN Held(o) ELSE IF x = o THEN <<>> ELSE Held(x)
    BY <1>0, <1>6, CallerAssumption DEF FreeBlocks, Held, TypeOK, Holder
  <2>3. Range(Held(t)) = {}
    BY <2>1 DEF Range
  <2> QED
    <3>1. ASSUME NEW x \in Holder, NEW c \in Range(Held(x))
          PROVE  \E y \in Holder : c \in Range(Held(y)')
      <4>1. x # t
        BY <2>3, <3>1
      <4>2. CASE x = o
        BY <2>2, <3>1, <4>2
      <4>3. CASE x # o
        BY <2>2, <3>1, <4>1, <4>3
      <4> QED
        BY <4>2, <4>3
    <3> QED
      BY <1>1, <1>6, <3>1 DEF FreeBlocks
<1>7. ASSUME NEW t \in Thread, NEW r \in Server, AddBlocks(t, r) PROVE Goal
  <2>1. Range(Held(t)) = {}
    BY <1>0, <1>7 DEF AddBlocks, IdleHasNothing, Range
  <2>2. \A x \in Holder : Held(x)' = IF x = t THEN BlocksOf[r] ELSE Held(x)
    BY <1>0, <1>7 DEF AddBlocks, Held, TypeOK, Holder
  <2>3. CASE r = s
    BY <2>2, <2>3 DEF Goal, Placed, Holder
  <2>4. CASE r # s
    <3>1. boots'[s] = boots[s] /\ free' = free
      BY <1>0, <1>7, <2>4 DEF AddBlocks, TypeOK
    <3>2. Placed(b)
      BY <1>0, <3>1
    <3> QED
      BY <2>1, <2>2, <3>1, <3>2 DEF Goal, Placed, Holder
  <2> QED
    BY <2>3, <2>4
<1>8. ASSUME NEW t \in Thread, Call(t) PROVE Goal
  <2>1. ASSUME NEW o \in Owner, NEW n \in 1..MaxCount, Allocate(t, o, n) PROVE Goal
    BY <1>2, <2>1 DEF Allocate
  <2>2. ASSUME NEW n \in 1..MaxCount, AllocateThrows(t, n) PROVE Goal
    BY <1>2, <2>2 DEF AllocateThrows, vars
  <2> QED
    BY <1>6, <1>7, <1>8, <2>1, <2>2 DEF Call
<1>9. ASSUME NEW t \in Thread, Continue(t) PROVE Goal
  <2>1. ASSUME Miss(t) \/ Insert(t) \/ Erase(t) \/ FreeErased(t) PROVE Goal
    BY <1>2, <2>1 DEF Miss, Insert, Erase, FreeErased
  <2>2. ASSUME Rollback(t) \/ Enqueue(t) PROVE Goal
    BY <1>0, <1>4, <2>2 DEF Rollback, Enqueue, TypeInv, BlockToEnqueue
  <2>3. ~FreeThrows(t)
    BY <1>0 DEF FreeThrows
  <2> QED
    BY <1>3, <1>5, <1>9, <2>1, <2>2, <2>3 DEF Continue
<1>10. ASSUME UNCHANGED vars PROVE Goal
  BY <1>2, <1>10 DEF vars
<1>11. Goal
  BY <1>8, <1>9, <1>10 DEF Next
<1> QED
  BY <1>11 DEF Goal

\* The inductive invariant of the allocator.
AllocatorInv == CoreInv /\ MapInv /\ NothingLost

LEMMA AllocatorInit == Init => AllocatorInv
<1> SUFFICES ASSUME Init PROVE AllocatorInv
  OBVIOUS
<1>1. CoreInv
  BY SafeInit, CallInit DEF CoreInv
<1>2. Granted = {}
  BY DEF Init, Granted, Range
<1>3. InCalls = {}
  BY DEF Init, InCalls, MapOfThread, MapIndices
<1>4. MapInv
  BY <1>2, <1>3 DEF Init, MapInv, MapIsExact, FreeNeverRefused, Granted, InCalls
<1>5. NothingLost
  BY DEF Init, NothingLost
<1> QED
  BY <1>1, <1>4, <1>5 DEF AllocatorInv

LEMMA AllocatorStep == AllocatorInv /\ [Next]_vars => AllocatorInv'
BY SafeStep, CallStep, MapStep, NothingLostStep DEF AllocatorInv, CoreInv, SafeInv

LEMMA AllocatorAlways == Spec => []AllocatorInv
BY AllocatorInit, AllocatorStep, PTL DEF Spec

\* allocated_blocks_ holds what requests hold, and what the loop of a running
\* call has inserted or not yet erased; nothing else, at any moment.
THEOREM MapExact == Spec => []MapIsExact
<1>1. AllocatorInv => MapIsExact
  BY DEF AllocatorInv, MapInv
<1> QED
  BY <1>1, AllocatorAlways, PTL

\* free() of what allocate() returned never takes the branch that throws and
\* drops the blocks it has erased.
THEOREM FreeSucceeds == Spec => []FreeNeverRefused
<1>1. AllocatorInv => FreeNeverRefused
  BY DEF AllocatorInv, MapInv
<1> QED
  BY <1>1, AllocatorAlways, PTL

\* A failed allocate, a free and a registration lose no block.
THEOREM BlocksKept == Spec => []NothingLost
<1>1. AllocatorInv => NothingLost
  BY DEF AllocatorInv
<1> QED
  BY <1>1, AllocatorAlways, PTL

-----------------------------------------------------------------------------
(* The map when servers restart                                            *)

\* Somebody uses the name: a request, or a call that has it in the map.
Used(b) == \/ \E o \in Owner : b \in Range(grant[o])
           \/ \E t \in Thread : \E i \in MapIndices(t) : hand[t][i] = b

LEMMA MapHeldStep == TypeInv /\ CallInv /\ MapIsHeld /\ [Next]_vars => MapIsHeld'
<1> SUFFICES ASSUME TypeInv, CallInv, MapIsHeld, [Next]_vars, NEW b \in allocated'
             PROVE  Used(b)'
  BY DEF MapIsHeld, MapOfThread, Used
<1>0. TypeOK /\ (b \in allocated => Used(b))
  BY DEF TypeInv, MapIsHeld, MapOfThread, Used
<1> DEFINE Goal == Used(b)'
<1> HIDE DEF Goal
<1>1. ASSUME allocated' \subseteq allocated, grant' = grant, NEW t \in Thread,
             \A u \in Thread \ {t} : UNCHANGED <<pc[u], hand[u], idx[u]>>,
             MapIndices(t) = {}
      PROVE  Goal
  <2>1. \A u \in Thread \ {t} : MapIndices(u)' = MapIndices(u)
    BY <1>1 DEF MapIndices
  <2> QED
    BY <1>0, <1>1, <2>1 DEF Goal, Used
<1>2. ASSUME NEW t \in Thread, NEW o \in Owner, NEW n \in 1..MaxCount, Allocate(t, o, n)
      PROVE  Goal
  BY <1>0, <1>1, <1>2 DEF Allocate, MapIndices, TypeOK
<1>3. ASSUME NEW t \in Thread, Dequeue(t) PROVE Goal
  BY <1>0, <1>1, <1>3 DEF Dequeue, MapIndices, TypeOK
<1>4. ASSUME NEW t \in Thread, Miss(t) PROVE Goal
  BY <1>0, <1>1, <1>4 DEF Miss, MapIndices, TypeOK
<1>5. ASSUME NEW t \in Thread, Rollback(t) \/ Enqueue(t) PROVE Goal
  BY <1>0, <1>1, <1>5 DEF Rollback, Enqueue, EnqueueNext, MapIndices, TypeOK
<1>6. ASSUME NEW t \in Thread, FreeThrows(t) \/ FreeErased(t) PROVE Goal
  <2>1. MapIndices(t) = {}
    BY <1>0, <1>6 DEF FreeThrows, FreeErased, InLoop, MapIndices, TypeOK
  <2> QED
    BY <1>0, <1>1, <1>6, <2>1 DEF FreeThrows, FreeErased, TypeOK
<1>7. ASSUME NEW t \in Thread, NEW s \in Server, AddBlocks(t, s) PROVE Goal
  BY <1>0, <1>1, <1>7 DEF AddBlocks, MapIndices, TypeOK
<1>8. ASSUME NEW t \in Thread, Insert(t) PROVE Goal
  <2>1. MapIndices(t)' = MapIndices(t) \cup {idx[t]}
    BY <1>0, <1>8 DEF Insert, MapIndices, TypeOK
  <2>2. \A u \in Thread \ {t} : MapIndices(u)' = MapIndices(u)
    BY <1>0, <1>8 DEF Insert, MapIndices, TypeOK
  <2>3. hand' = hand /\ grant' = grant /\ (b \in allocated \/ b = hand[t][idx[t]])
    BY <1>8 DEF Insert, BlockAt
  <2> QED
    BY <1>0, <2>1, <2>2, <2>3 DEF Goal, Used
<1>9. ASSUME NEW t \in Thread, Grant(t) PROVE Goal
  <2>1. owner[t] \in Owner /\ grant[owner[t]] = <<>> /\ Used(b)
    BY <1>0, <1>9 DEF Grant, CallInv
  <2>2. \A o \in Owner : grant'[o] = IF o = owner[t] THEN hand[t] ELSE grant[o]
    BY <1>0, <1>9 DEF Grant, TypeOK
  <2>3. MapIndices(t) \subseteq DOMAIN hand[t]
    BY <1>0, <1>9 DEF MapIndices, CallInv, TypeOK
  <2>4. \A u \in Thread \ {t} : MapIndices(u)' = MapIndices(u) /\ hand'[u] = hand[u]
    BY <1>0, <1>9 DEF Grant, MapIndices, TypeOK
  <2>5. CASE \E o \in Owner : b \in Range(grant[o])
    <3>1. PICK o \in Owner : b \in Range(grant[o])
      BY <2>5
    <3>2. o # owner[t]
      BY <2>1, <3>1 DEF Range
    <3> QED
      BY <2>2, <3>1, <3>2 DEF Goal, Used
  <2>6. ASSUME NEW u \in Thread, NEW i \in MapIndices(u), hand[u][i] = b PROVE Goal
    <3>1. CASE u = t
      <4>1. b \in Range(hand[t])
        BY <2>3, <2>6, <3>1 DEF Range
      <4> QED
        BY <2>1, <2>2, <4>1 DEF Goal, Used
    <3>2. CASE u # t
      BY <2>4, <2>6, <3>2 DEF Goal, Used
    <3> QED
      BY <3>1, <3>2
  <2> QED
    BY <2>1, <2>5, <2>6 DEF Used
<1>10. ASSUME NEW t \in Thread, NEW o \in Owner, FreeBlocks(t, o) PROVE Goal
  <2>1. MapIndices(t) = {} /\ Used(b)
    BY <1>0, <1>10 DEF FreeBlocks, MapIndices
  <2>2. \A p \in Owner \ {o} : grant'[p] = grant[p]
    BY <1>0, <1>10 DEF FreeBlocks, TypeOK
  <2>3. hand'[t] = grant[o] /\ MapIndices(t)' = DOMAIN grant[o]
    <3>1. pc'[t] = "erase" /\ idx'[t] = 1 /\ hand'[t] = grant[o]
      BY <1>0, <1>10 DEF FreeBlocks, CallInv, TypeOK
    <3>2. grant[o] \in Seq(Block)
      BY <1>0 DEF TypeOK
    <3> QED
      BY <3>1, <3>2 DEF MapIndices
  <2>4. \A u \in Thread \ {t} : MapIndices(u)' = MapIndices(u) /\ hand'[u] = hand[u]
    BY <1>0, <1>10 DEF FreeBlocks, MapIndices, TypeOK
  <2>5. CASE b \in Range(grant[o])
    BY <2>3, <2>5 DEF Goal, Used, Range
  <2>6. CASE b \notin Range(grant[o])
    BY <2>1, <2>2, <2>4, <2>6 DEF Goal, Used
  <2> QED
    BY <2>5, <2>6
<1>11. ASSUME NEW t \in Thread, Erase(t) PROVE Goal
  <2>1. Used(b) /\ b # hand[t][idx[t]] /\ hand' = hand /\ grant' = grant
    BY <1>0, <1>11 DEF Erase, BlockAt
  <2>2. MapIndices(t)' = MapIndices(t) \ {idx[t]}
    BY <1>0, <1>11 DEF Erase, MapIndices, TypeOK
  <2>3. \A u \in Thread \ {t} : MapIndices(u)' = MapIndices(u)
    BY <1>0, <1>11 DEF Erase, MapIndices, TypeOK
  <2> QED
    BY <2>1, <2>2, <2>3 DEF Goal, Used
<1>12. ASSUME UNCHANGED vars PROVE Goal
  BY <1>0, <1>12 DEF vars, Goal, Used, MapIndices
<1>13. ASSUME NEW t \in Thread, Call(t) PROVE Goal
  BY <1>2, <1>7, <1>10, <1>12, <1>13 DEF Call, AllocateThrows
<1>14. ASSUME NEW t \in Thread, Continue(t) PROVE Goal
  BY <1>3, <1>4, <1>5, <1>6, <1>8, <1>9, <1>11, <1>14 DEF Continue
<1>15. Goal
  BY <1>12, <1>13, <1>14 DEF Next
<1> QED
  BY <1>15 DEF Goal

\* However often servers restart and advertise names that are in use, a name in
\* the map of allocated blocks has a user; a free that throws leaves none behind.
THEOREM MapNamesUsers == Spec => []MapIsHeld
<1>1. Init => MapIsHeld
  BY DEF Init, MapIsHeld
<1>2. AllocatorInv => TypeInv /\ CallInv
  BY DEF AllocatorInv, CoreInv, SafeInv
<1> QED
  BY <1>1, <1>2, AllocatorAlways, MapHeldStep, PTL DEF Spec

-----------------------------------------------------------------------------
(* What a request is given                                                 *)

\* A call is still short of blocks while it dequeues, and has what it was asked
\* for when it goes on.
WantInv == \A t \in Thread : /\ pc[t] = "dequeue" => Len(hand[t]) < want[t]
                             /\ pc[t] = "insert" => Len(hand[t]) = want[t]

LEMMA WantStep ==
  TypeInv /\ IdleHasNothing /\ WantInv /\ [Next]_vars => WantInv'
<1> SUFFICES ASSUME TypeInv, IdleHasNothing, WantInv, [Next]_vars PROVE WantInv'
  OBVIOUS
<1> USE DEF TypeInv, TypeOK, WantInv
<1>1. ASSUME NEW t \in Thread, NEW o \in Owner, NEW n \in 1..MaxCount, Allocate(t, o, n)
      PROVE  WantInv'
  <2>1. hand[t] = <<>> /\ Len(<<>>) = 0 /\ n > 0
    BY <1>1, EmptySeq DEF Allocate, IdleHasNothing
  <2> QED
    BY <1>1, <2>1 DEF Allocate
<1>2. ASSUME NEW t \in Thread, Dequeue(t) PROVE WantInv'
  <2>1. /\ Len(hand[t]) < want[t] /\ Len(hand[t]) \in Nat /\ want[t] \in Nat
        /\ Len(hand'[t]) = Len(hand[t]) + 1 /\ want' = want
    BY <1>2, CallerAssumption DEF Dequeue
  <2>2. pc'[t] = IF Len(hand[t]) + 1 = want[t] THEN "insert" ELSE "dequeue"
    BY <1>2 DEF Dequeue
  <2>3. \A u \in Thread \ {t} : pc'[u] = pc[u] /\ hand'[u] = hand[u]
    BY <1>2 DEF Dequeue
  <2>4. /\ pc'[t] = "dequeue" => Len(hand'[t]) < want'[t]
        /\ pc'[t] = "insert" => Len(hand'[t]) = want'[t]
    BY <2>1, <2>2
  <2>5. ASSUME NEW u \in Thread, u # t
        PROVE  /\ pc'[u] = "dequeue" => Len(hand'[u]) < want'[u]
               /\ pc'[u] = "insert" => Len(hand'[u]) = want'[u]
    BY <2>1, <2>3, <2>5
  <2> QED
    BY <2>4, <2>5
<1>3. ASSUME NEW t \in Thread, Miss(t) PROVE WantInv'
  BY <1>3 DEF Miss
<1>4. ASSUME NEW t \in Thread, Rollback(t) \/ Enqueue(t) PROVE WantInv'
  BY <1>4 DEF Rollback, Enqueue, EnqueueNext
<1>5. ASSUME NEW t \in Thread, Insert(t) \/ Erase(t) PROVE WantInv'
  BY <1>5 DEF Insert, Erase
<1>6. ASSUME NEW t \in Thread, Grant(t) PROVE WantInv'
  BY <1>6 DEF Grant
<1>7. ASSUME NEW t \in Thread, NEW o \in Owner, FreeBlocks(t, o) PROVE WantInv'
  BY <1>7 DEF FreeBlocks
<1>8. ASSUME NEW t \in Thread, FreeThrows(t) \/ FreeErased(t) PROVE WantInv'
  BY <1>8 DEF FreeThrows, FreeErased
<1>9. ASSUME NEW t \in Thread, NEW s \in Server, AddBlocks(t, s) PROVE WantInv'
  BY <1>9 DEF AddBlocks
<1>10. CASE UNCHANGED vars
  BY <1>10 DEF vars
<1> QED
  BY <1>1, <1>2, <1>3, <1>4, <1>5, <1>6, <1>7, <1>8, <1>9, <1>10
     DEF Next, Call, AllocateThrows, Continue

\* Only Grant leads from the map inserts back to the caller.
LEMMA OnlyGrant ==
  ASSUME TypeOK, [Next]_vars, NEW t \in Thread, pc[t] = "insert", pc'[t] = "idle"
  PROVE  Grant(t)
<1>1. ASSUME NEW u \in Thread, u # t, Call(u) \/ Continue(u) PROVE pc'[t] = pc[t]
  BY <1>1 DEF Call, Continue, AllocateThrows, vars, Allocate, Dequeue, Miss, Rollback,
              Enqueue, EnqueueNext, Insert, Grant, FreeBlocks, Erase, FreeThrows,
              FreeErased, AddBlocks, TypeOK
<1>2. CASE Call(t)
  BY <1>2 DEF Call, AllocateThrows, Allocate, FreeBlocks, AddBlocks
<1>3. CASE Continue(t)
  BY <1>3 DEF Continue, Dequeue, Miss, Rollback, Enqueue, Insert, Erase, FreeThrows,
              FreeErased
<1>4. ~UNCHANGED vars
  BY DEF vars
<1> QED
  BY <1>1, <1>2, <1>3, <1>4 DEF Next

\* An allocate that returns has as many blocks as it was asked for, and as long
\* as no server has advertised twice they are different blocks: the stale size
\* estimate and the other threads' dequeues can refuse it, never shorten it.
THEOREM GrantsAreWhole == Spec => GrantsWhole
<1>1. Init => WantInv
  BY DEF Init, WantInv
<1>2. AllocatorInv => TypeInv /\ TypeOK /\ IdleHasNothing /\ CallInv /\ ExclusiveUse
  BY DEF AllocatorInv, CoreInv, SafeInv, TypeInv, PlaceInv
<1>3. ASSUME AllocatorInv, WantInv, [Next]_vars, NEW t \in Thread,
             pc[t] = "insert", pc'[t] = "idle"
      PROVE  LET got == grant'[owner[t]]
             IN  Len(got) = want[t] /\ (RegisteredOnce => IsInjective(got))
  <2>1. Grant(t)
    BY <1>2, <1>3, OnlyGrant
  <2>2. owner[t] \in Owner
    BY <1>2, <1>3, <2>1 DEF Grant, CallInv
  <2>3. grant'[owner[t]] = hand[t]
    BY <1>2, <1>3, <2>1, <2>2 DEF Grant, TypeOK
  <2>4. RegisteredOnce => IsInjective(hand[t])
    BY <1>2, <1>3, HeldByThread DEF ExclusiveUse, OnePlace, IsInjective
  <2> QED
    BY <1>3, <2>3, <2>4 DEF WantInv
<1>4. AllocatorInv /\ WantInv /\ [Next]_vars =>
        [\A t \in Thread : pc[t] = "insert" /\ pc'[t] = "idle" =>
           LET got == grant'[owner[t]]
           IN  Len(got) = want[t] /\ (RegisteredOnce => IsInjective(got))]_vars
  BY <1>3
<1> QED
  BY <1>1, <1>2, <1>4, AllocatorAlways, WantStep, PTL DEF Spec, GrantsWhole

-----------------------------------------------------------------------------
(* The calls implement BlockPool                                           *)

PoolAvail == {b \in Block : free[b] > 0}
               \cup UNION {Range(hand[t]) : t \in {u \in Thread : pc[u] # "erase"}}
PoolLeased == (UNION {Range(grant[o]) : o \in Owner})
                \cup UNION {Range(hand[t]) : t \in {u \in Thread : pc[u] = "erase"}}

\* The same sets, by their members.
InAvail(b) == free[b] > 0 \/ \E t \in Thread : pc[t] # "erase" /\ b \in Range(hand[t])
InLeased(b) == \/ \E o \in Owner : b \in Range(grant[o])
               \/ \E t \in Thread : pc[t] = "erase" /\ b \in Range(hand[t])

SameMembers ==
  /\ PoolAvail \subseteq Block /\ PoolLeased \subseteq Block
  /\ \A b \in Block : (b \in PoolAvail <=> InAvail(b)) /\ (b \in PoolLeased <=> InLeased(b))

LEMMA PoolMembers == TypeOK => SameMembers
<1> SUFFICES ASSUME TypeOK PROVE SameMembers
  OBVIOUS
<1>1. \A t \in Thread : Range(hand[t]) \subseteq Block
  BY DEF TypeOK, Range
<1>2. \A o \in Owner : Range(grant[o]) \subseteq Block
  BY DEF TypeOK, Range
<1> QED
  BY <1>1, <1>2 DEF SameMembers, PoolAvail, PoolLeased, InAvail, InLeased

\* A block in one vector is in no other and not in the queue.
LEMMA OneVector ==
  ASSUME OnePlace, NEW x \in Holder, NEW b \in Range(Held(x))
  PROVE  /\ free[b] = 0
         /\ \A y \in Holder : b \in Range(Held(y)) => y = x
BY DEF OnePlace, Range

\* Every step of the allocator is one step of the pool, or none.
LEMMA PoolStep ==
  AllocatorInv /\ AllocatorInv' /\ RegisteredOnce' /\ [Next]_vars
    => [Pool!PoolNext]_(Pool!poolVars)
<1> SUFFICES ASSUME AllocatorInv, AllocatorInv', RegisteredOnce', [Next]_vars
             PROVE  \/ \E S \in SUBSET Block :
                         \/ /\ S \subseteq Block \ (PoolAvail \cup PoolLeased)
                            /\ PoolAvail' = PoolAvail \cup S
                            /\ PoolLeased' = PoolLeased
                         \/ /\ S \subseteq PoolAvail
                            /\ PoolAvail' = PoolAvail \ S
                            /\ PoolLeased' = PoolLeased \cup S
                         \/ /\ S \subseteq PoolLeased
                            /\ PoolLeased' = PoolLeased \ S
                            /\ PoolAvail' = PoolAvail \cup S
                    \/ PoolAvail' = PoolAvail /\ PoolLeased' = PoolLeased
  BY DEF Pool!PoolNext, Pool!Register, Pool!Take, Pool!GiveBack, Pool!poolVars,
         PoolAvail, PoolLeased
<1> DEFINE Moves(S) ==
      \/ /\ S \subseteq Block \ (PoolAvail \cup PoolLeased)
         /\ PoolAvail' = PoolAvail \cup S
         /\ PoolLeased' = PoolLeased
      \/ /\ S \subseteq PoolAvail
         /\ PoolAvail' = PoolAvail \ S
         /\ PoolLeased' = PoolLeased \cup S
      \/ /\ S \subseteq PoolLeased
         /\ PoolLeased' = PoolLeased \ S
         /\ PoolAvail' = PoolAvail \cup S
    Stays == PoolAvail' = PoolAvail /\ PoolLeased' = PoolLeased
    Goal == (\E S \in SUBSET Block : Moves(S)) \/ Stays
<1>0. /\ TypeOK /\ CallInv /\ IdleHasNothing /\ OnePlace /\ Unadvertised
      /\ BlockToEnqueue /\ \A t \in Thread : ~missed[t]
  BY BootsGrow DEF AllocatorInv, CoreInv, SafeInv, TypeInv, PlaceInv, ExclusiveUse,
                   MapInv, FreeNeverRefused
<1>a. TypeOK' /\ OnePlace'
  BY DEF AllocatorInv, CoreInv, SafeInv, TypeInv, PlaceInv, ExclusiveUse
<1>b. SameMembers
  BY <1>0, PoolMembers
<1>c. SameMembers'
  <2>1. TypeOK' => SameMembers'
    BY PoolMembers, PTL
  <2> QED
    BY <2>1, <1>a
<1> USE HeldByThread, HeldByOwner
<1> HIDE DEF Moves, Stays
<1>1. ASSUME \A b \in Block : (InAvail(b)' <=> InAvail(b)) /\ (InLeased(b)' <=> InLeased(b))
      PROVE  Goal
  BY <1>1, <1>b, <1>c DEF SameMembers, Stays
<1>2. ASSUME UNCHANGED <<free, hand, grant>>,
             \A t \in Thread : pc'[t] = "erase" <=> pc[t] = "erase"
      PROVE  Goal
  <2>1. \A b \in Block : (InAvail(b)' <=> InAvail(b)) /\ (InLeased(b)' <=> InLeased(b))
    BY <1>2 DEF InAvail, InLeased
  <2> QED
    BY <1>1, <2>1
<1>3. ASSUME NEW t \in Thread, Dequeue(t) PROVE Goal
  <2>1. PICK c \in Block : /\ free[c] > 0
                           /\ free' = DequeuedFree(c)
                           /\ hand' = [hand EXCEPT ![t] = Append(@, c)]
    BY <1>3 DEF Dequeue
  <2>2. Range(Append(hand[t], c)) = Range(hand[t]) \cup {c}
    <3>1. hand[t] \in Seq(Block)
      BY <1>0 DEF TypeOK
    <3> QED
      BY <3>1, RangeAppend
  <2>3. \A u \in Thread : Range(hand[u])' =
          IF u = t THEN Range(hand[t]) \cup {c} ELSE Range(hand[u])
    BY <1>0, <2>1, <2>2 DEF TypeOK
  <2>4. \A u \in Thread : pc'[u] = "erase" <=> pc[u] = "erase"
    BY <1>0, <1>3 DEF Dequeue, TypeOK
  <2>5. pc[t] # "erase" /\ grant' = grant
    BY <1>3 DEF Dequeue
  <2>6. ASSUME NEW b \in Block PROVE InAvail(b)' <=> InAvail(b)
    <3>1. b # c => free'[b] = free[b]
      BY <1>0, <2>1 DEF DequeuedFree, TypeOK
    <3>2. InAvail(c) /\ InAvail(c)'
      BY <2>1, <2>3, <2>4, <2>5 DEF InAvail
    <3>3. CASE b # c
      BY <3>1, <3>3, <2>3, <2>4 DEF InAvail
    <3> QED
      BY <3>2, <3>3
  <2>7. ASSUME NEW b \in Block PROVE InLeased(b)' <=> InLeased(b)
    BY <2>3, <2>4, <2>5 DEF InLeased
  <2> QED
    BY <1>1, <2>6, <2>7
<1>4. ASSUME NEW t \in Thread, EnqueueNext(t), pc[t] \in {"rollback", "enqueue"} PROVE Goal
  <2>0. PICK c \in Block : hand[t] # <<>> /\ c = Head(hand[t])
    BY <1>0, <1>4 DEF BlockToEnqueue, TypeOK
  <2>1. hand[t] # <<>> /\ c = Head(hand[t])
    BY <2>0
  <2>2. Range(hand[t]) = Range(Tail(hand[t])) \cup {c}
    <3>1. hand[t] \in Seq(Block)
      BY <1>0 DEF TypeOK
    <3> QED
      BY <2>1, <3>1, RangeTail
  <2>3. \A u \in Thread : Range(hand[u])' = IF u = t THEN Range(Tail(hand[t])) ELSE Range(hand[u])
    BY <1>0, <1>4 DEF EnqueueNext, TypeOK
  <2>4. \A u \in Thread : pc'[u] = "erase" <=> pc[u] = "erase"
    BY <1>0, <1>4 DEF EnqueueNext, TypeOK
  <2>5. pc[t] # "erase" /\ grant' = grant
    BY <1>4 DEF EnqueueNext
  <2>6. ASSUME NEW b \in Block PROVE InAvail(b)' <=> InAvail(b)
    <3>1. b # c => free'[b] = free[b]
      BY <1>0, <1>4, <2>1 DEF EnqueueNext, EnqueuedFree, NextInHand, TypeOK
    <3>2. free'[c] > 0
      BY <1>0, <1>4, <2>1 DEF EnqueueNext, EnqueuedFree, NextInHand, TypeOK
    <3>3. InAvail(c) /\ InAvail(c)'
      BY <2>2, <2>5, <3>2 DEF InAvail
    <3>4. CASE b # c
      BY <3>1, <3>4, <2>2, <2>3, <2>4 DEF InAvail
    <3> QED
      BY <3>3, <3>4
  <2>7. ASSUME NEW b \in Block PROVE InLeased(b)' <=> InLeased(b)
    BY <2>3, <2>4, <2>5 DEF InLeased
  <2> QED
    BY <1>1, <2>6, <2>7
\* The request gets its vector: the pool gives it the whole of it.
<1>5. ASSUME NEW t \in Thread, Grant(t) PROVE Goal
  <2>0. PICK S \in SUBSET Block : S = Range(hand[t])
    <3>1. Range(hand[t]) \in SUBSET Block
      BY <1>0 DEF TypeOK, Range
    <3> QED
      BY <3>1
  <2>1. PICK o \in Owner : o = owner[t] /\ grant[o] = <<>>
    BY <1>0, <1>5 DEF Grant, CallInv
  <2>2. pc[t] = "insert" /\ pc'[t] = "idle" /\ hand'[t] = <<>> /\ grant'[o] = hand[t] /\ free' = free
    BY <1>0, <1>5, <2>1 DEF Grant, TypeOK
  <2>3. /\ \A u \in Thread : u # t => pc'[u] = pc[u] /\ hand'[u] = hand[u]
        /\ \A p \in Owner : p # o => grant'[p] = grant[p]
    BY <1>0, <1>5, <2>1 DEF Grant, TypeOK
  <2>4. Range(<<>>) = {}
    BY DEF Range
  <2>5. S \subseteq PoolAvail
    BY <2>0, <2>2 DEF PoolAvail
  <2>6. ASSUME NEW b \in Block PROVE InLeased(b)' <=> InLeased(b) \/ b \in S
    BY <2>0, <2>1, <2>2, <2>3, <2>4 DEF InLeased
  <2>7. ASSUME NEW b \in Block PROVE InAvail(b)' <=> InAvail(b) /\ b \notin S
    <3>1. CASE b \in S
      <4>1. free[b] = 0 /\ \A u \in Thread : u # t => b \notin Range(hand[u])
        BY <1>0, <2>0, <3>1, OneVector
      <4> QED
        BY <2>2, <2>3, <2>4, <3>1, <4>1 DEF InAvail
    <3>2. CASE b \notin S
      BY <2>0, <2>2, <2>3, <2>4, <3>2 DEF InAvail
    <3> QED
      BY <3>1, <3>2
  <2>8. PoolAvail' = PoolAvail \ S /\ PoolLeased' = PoolLeased \cup S
    BY <1>b, <1>c, <2>6, <2>7 DEF SameMembers
  <2> QED
    BY <2>5, <2>8 DEF Moves
\* The vector passes from the request to the call that frees it.
<1>6. ASSUME NEW t \in Thread, NEW o \in Owner, FreeBlocks(t, o) PROVE Goal
  <2>1. /\ pc[t] = "idle" /\ hand[t] = <<>> /\ free' = free
        /\ pc'[t] = "erase" /\ hand'[t] = grant[o] /\ grant'[o] = <<>>
    BY <1>0, <1>6 DEF FreeBlocks, IdleHasNothing, TypeOK
  <2>2. /\ \A u \in Thread : u # t => pc'[u] = pc[u] /\ hand'[u] = hand[u]
        /\ \A p \in Owner : p # o => grant'[p] = grant[p]
    BY <1>0, <1>6 DEF FreeBlocks, TypeOK
  <2>3. Range(<<>>) = {}
    BY DEF Range
  <2>4. ASSUME NEW b \in Block PROVE InLeased(b)' <=> InLeased(b)
    BY <2>1, <2>2, <2>3 DEF InLeased
  <2>5. ASSUME NEW b \in Block PROVE InAvail(b)' <=> InAvail(b)
    BY <2>1, <2>2, <2>3 DEF InAvail
  <2> QED
    BY <1>1, <2>4, <2>5
\* Every block was erased: the pool has them back.
<1>7. ASSUME NEW t \in Thread, FreeErased(t) PROVE Goal
  <2>0. PICK S \in SUBSET Block : S = Range(hand[t])
    <3>1. Range(hand[t]) \in SUBSET Block
      BY <1>0 DEF TypeOK, Range
    <3> QED
      BY <3>1
  <2>1. pc[t] = "erase" /\ pc'[t] = "enqueue" /\ UNCHANGED <<free, hand, grant>>
    BY <1>0, <1>7 DEF FreeErased, TypeOK
  <2>2. \A u \in Thread : u # t => pc'[u] = pc[u]
    BY <1>0, <1>7 DEF FreeErased, TypeOK
  <2>3. S \subseteq PoolLeased
    BY <2>0, <2>1 DEF PoolLeased
  <2>4. ASSUME NEW b \in Block PROVE InAvail(b)' <=> InAvail(b) \/ b \in S
    BY <2>0, <2>1, <2>2 DEF InAvail
  <2>5. ASSUME NEW b \in Block PROVE InLeased(b)' <=> InLeased(b) /\ b \notin S
    <3>1. CASE b \in S
      <4>1. \A x \in Holder : b \in Range(Held(x)) => x = t
        BY <1>0, <2>0, <3>1, OneVector
      <4>2. \A o \in Owner : b \notin Range(grant[o])
        BY <4>1, CallerAssumption
      <4>3. \A u \in Thread : b \in Range(hand[u]) => u = t
        BY <4>1
      <4> QED
        BY <2>1, <3>1, <4>2, <4>3 DEF InLeased
    <3>2. CASE b \notin S
      BY <2>0, <2>1, <2>2, <3>2 DEF InLeased
    <3> QED
      BY <3>1, <3>2
  <2>6. PoolAvail' = PoolAvail \cup S /\ PoolLeased' = PoolLeased \ S
    BY <1>b, <1>c, <2>4, <2>5 DEF SameMembers
  <2> QED
    BY <2>3, <2>6 DEF Moves
\* The names of a server nobody has seen.
<1>8. ASSUME NEW t \in Thread, NEW s \in Server, AddBlocks(t, s) PROVE Goal
  <2>0. PICK S \in SUBSET Block : S = Range(BlocksOf[s])
    <3>1. BlocksOf[s] \in Seq(Block)
      BY ServerAssumption
    <3>2. Range(BlocksOf[s]) \in SUBSET Block
      BY <3>1 DEF Range
    <3> QED
      BY <3>2
  <2>1. /\ pc[t] = "idle" /\ hand[t] = <<>> /\ UNCHANGED <<free, grant>>
        /\ pc'[t] = "enqueue" /\ hand'[t] = BlocksOf[s]
    BY <1>0, <1>8 DEF AddBlocks, IdleHasNothing, TypeOK
  <2>2. \A u \in Thread : u # t => pc'[u] = pc[u] /\ hand'[u] = hand[u]
    BY <1>0, <1>8 DEF AddBlocks, TypeOK
  <2>3. boots[s] = 0
    BY <1>0, <1>8 DEF AddBlocks, RegisteredOnce, TypeOK
  <2>4. ASSUME NEW b \in S PROVE free[b] = 0 /\ \A x \in Holder : b \notin Range(Held(x))
    BY <1>0, <2>0, <2>3 DEF Unadvertised, Range
  <2>5. S \subseteq Block \ (PoolAvail \cup PoolLeased)
    BY <1>b, <2>4 DEF SameMembers, InAvail, InLeased
  <2>6. Range(<<>>) = {}
    BY DEF Range
  <2>7. ASSUME NEW b \in Block PROVE InAvail(b)' <=> InAvail(b) \/ b \in S
    BY <2>0, <2>1, <2>2, <2>6 DEF InAvail
  <2>8. ASSUME NEW b \in Block PROVE InLeased(b)' <=> InLeased(b)
    BY <2>1, <2>2, <2>6 DEF InLeased
  <2>9. PoolAvail' = PoolAvail \cup S /\ PoolLeased' = PoolLeased
    BY <1>b, <1>c, <2>7, <2>8 DEF SameMembers
  <2> QED
    BY <2>5, <2>9 DEF Moves
<1>9. ASSUME NEW t \in Thread, Call(t) PROVE Goal
  <2>1. ASSUME NEW o \in Owner, NEW n \in 1..MaxCount, Allocate(t, o, n) PROVE Goal
    BY <1>0, <1>2, <2>1 DEF Allocate, TypeOK
  <2>2. ASSUME NEW n \in 1..MaxCount, AllocateThrows(t, n) PROVE Goal
    BY <1>2, <2>2 DEF AllocateThrows, vars
  <2> QED
    BY <1>6, <1>8, <1>9, <2>1, <2>2 DEF Call
<1>10. ASSUME NEW t \in Thread, Continue(t) PROVE Goal
  <2>1. ASSUME Miss(t) \/ Insert(t) \/ Erase(t) PROVE Goal
    BY <1>0, <1>2, <2>1 DEF Miss, Insert, Erase, TypeOK
  <2>2. ~FreeThrows(t)
    BY <1>0 DEF FreeThrows
  <2> QED
    BY <1>3, <1>4, <1>5, <1>7, <1>10, <2>1, <2>2 DEF Continue, Rollback, Enqueue
<1>11. ASSUME UNCHANGED vars PROVE Goal
  BY <1>2, <1>11 DEF vars
<1>12. Goal
  BY <1>9, <1>10, <1>11 DEF Next
<1> QED
  BY <1>12 DEF Moves, Stays

\* When no storage server is started twice, the allocator's interleaved queue
\* and map operations implement a pool that takes and gives back all the
\* blocks of a request at once.
THEOREM AllocatorImplementsPool ==
  ASSUME MaxBoots = 1
  PROVE  Spec => ImplementsPool
<1>1. Init => Pool!PoolInit
  BY EmptySeq DEF Init, Pool!PoolInit, Range
<1>2. AllocatorInv => RegisteredOnce
  <2>1. ASSUME AllocatorInv, NEW s \in Server PROVE boots[s] <= 1
    <3>1. boots[s] \in 0 .. MaxBoots
      BY <2>1 DEF AllocatorInv, CoreInv, SafeInv, TypeInv, TypeOK
    <3> QED
      BY <3>1
  <2> QED
    BY <2>1 DEF RegisteredOnce
<1>3. AllocatorInv /\ AllocatorInv' /\ [Next]_vars => [Pool!PoolNext]_(Pool!poolVars)
  <2>1. AllocatorInv' => RegisteredOnce'
    BY <1>2, PTL
  <2> QED
    BY <2>1, PoolStep
<1> QED
  BY <1>1, <1>3, AllocatorAlways, PTL DEF Spec, ImplementsPool, Pool!PoolSpec
=============================================================================
