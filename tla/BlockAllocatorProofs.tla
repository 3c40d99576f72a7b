------------------------ MODULE BlockAllocatorProofs ------------------------
(***************************************************************************)
(* Theorems about BlockAllocator, for any servers, blocks, threads and     *)
(* requests.                                                               *)
(***************************************************************************)
EXTENDS BlockAllocator, SequenceTheorems, TLAPS

\* A vector is empty after its first block was taken off only if it had one.
LEMMA LastOne ==
  ASSUME NEW S, NEW q \in Seq(S), q # <<>>, Tail(q) = <<>>
  PROVE  Len(q) = 1
<1>1. Len(Tail(q)) = 0
  BY EmptySeq
<1>2. Len(q) \in Nat /\ Len(Tail(q)) = Len(q) - 1
  BY HeadTailProperties
<1> QED
  BY <1>1, <1>2

\* The enqueue loops are only entered, and only go round, with a block left.
BlockToEnqueue ==
  \A t \in Thread : pc[t] \in {"rollback", "erase", "enqueue"} => hand[t] # <<>>

TypeInv == TypeOK /\ BlockToEnqueue

\* Every step keeps the types and leaves the enqueue loops on time.
LEMMA TypeStep == TypeInv /\ [Next]_vars => TypeInv'
<1> SUFFICES ASSUME TypeInv, [Next]_vars PROVE TypeInv'
  OBVIOUS
<1> USE DEF TypeInv, TypeOK, BlockToEnqueue, Label
<1>1. ASSUME NEW t \in Thread, NEW o \in Owner, NEW n \in 1..MaxCount,
             Allocate(t, o, n)
      PROVE  TypeInv'
  BY <1>1, CallerAssumption DEF Allocate
<1>2. ASSUME NEW t \in Thread, Dequeue(t) PROVE TypeInv'
  <2>1. PICK b \in Block : /\ free[b] > 0
                           /\ free' = DequeuedFree(b)
                           /\ hand' = [hand EXCEPT ![t] = Append(@, b)]
    BY <1>2 DEF Dequeue
  <2>2. free' \in [Block -> Nat]
    <3>1. free[b] \in Nat /\ free[b] - 1 \in Nat
      BY <2>1
    <3> QED
      BY <2>1, <3>1 DEF DequeuedFree
  <2>3. hand' \in [Thread -> Seq(Block)]
    BY <2>1
  <2> QED
    BY <1>2, <2>2, <2>3 DEF Dequeue
<1>3. ASSUME NEW t \in Thread, Miss(t) PROVE TypeInv'
  BY <1>3, CallerAssumption DEF Miss
<1>4. ASSUME NEW t \in Thread, EnqueueNext(t), hand[t] # <<>> PROVE TypeInv'
  <2>1. NextInHand(t) \in Block
    BY <1>4 DEF NextInHand
  <2>2. free' \in [Block -> Nat]
    BY <1>4, <2>1 DEF EnqueueNext, EnqueuedFree
  <2>3. hand' \in [Thread -> Seq(Block)]
    BY <1>4 DEF EnqueueNext
  <2>4. CASE Len(hand[t]) = 1
    BY <1>4, <2>2, <2>3, <2>4 DEF EnqueueNext
  <2>5. CASE Len(hand[t]) # 1
    <3>1. hand'[t] = Tail(hand[t])
      BY <1>4 DEF EnqueueNext
    <3>2. hand[t] \in Seq(Block) /\ Tail(hand[t]) # <<>>
      BY <1>4, <2>5, LastOne
    <3> QED
      BY <1>4, <2>2, <2>3, <2>5, <3>1, <3>2 DEF EnqueueNext
  <2> QED
    BY <2>4, <2>5
<1>5. ASSUME NEW t \in Thread, Insert(t) PROVE TypeInv'
  BY <1>5 DEF Insert, InLoop, BlockAt
<1>6. ASSUME NEW t \in Thread, Grant(t) PROVE TypeInv'
  <2>1. grant' \in [Owner -> Seq(Block)]
    BY <1>6 DEF Grant
  <2>2. want' \in [Thread -> 0..MaxCount]
    BY <1>6, CallerAssumption DEF Grant
  <2> QED
    BY <1>6, <2>1, <2>2 DEF Grant
<1>7. ASSUME NEW t \in Thread, NEW o \in Owner, FreeBlocks(t, o) PROVE TypeInv'
  BY <1>7 DEF FreeBlocks
<1>8. ASSUME NEW t \in Thread, Erase(t) PROVE TypeInv'
  BY <1>8 DEF Erase, InLoop, BlockAt
<1>9. ASSUME NEW t \in Thread, FreeThrows(t) PROVE TypeInv'
  BY <1>9 DEF FreeThrows
<1>10. ASSUME NEW t \in Thread, FreeErased(t) PROVE TypeInv'
  BY <1>10 DEF FreeErased
<1>11. ASSUME NEW t \in Thread, NEW s \in Server, AddBlocks(t, s) PROVE TypeInv'
  <2>1. BlocksOf[s] \in Seq(Block) /\ BlocksOf[s] # <<>>
    BY ServerAssumption
  <2>2. boots' \in [Server -> 0..MaxBoots]
    BY <1>11, CallerAssumption DEF AddBlocks
  <2> QED
    BY <1>11, <2>1, <2>2 DEF AddBlocks
<1>12. CASE UNCHANGED vars
  BY <1>12 DEF vars
<1> QED
  BY <1>1, <1>2, <1>3, <1>4, <1>5, <1>6, <1>7, <1>8, <1>9, <1>10, <1>11, <1>12
     DEF Next, Call, AllocateThrows, Continue, Rollback, Enqueue

\* What every reachable state satisfies, whatever servers do.
THEOREM TypeCorrect == Spec => []TypeOK
<1>1. Init => TypeInv
  BY CallerAssumption DEF Init, TypeInv, TypeOK, BlockToEnqueue, Label
<1>2. TypeInv => TypeOK
  BY DEF TypeInv
<1> QED
  BY <1>1, <1>2, TypeStep, PTL DEF Spec

-----------------------------------------------------------------------------
(* Exclusive use                                                           *)

\* The names of a server that has not advertised yet are nowhere.
Unadvertised ==
  \A s \in Server : boots[s] = 0 =>
    \A j \in DOMAIN BlocksOf[s] :
      /\ free[BlocksOf[s][j]] = 0
      /\ \A x \in Holder : \A i \in DOMAIN Held(x) : Held(x)[i] # BlocksOf[s][j]

PlaceInv == Unadvertised /\ ExclusiveUse

\* Steps that move no block: the queue and every vector stay as they are.
LEMMA PlaceStutter ==
  ASSUME PlaceInv, boots' = boots, free' = free,
         \A x \in Holder : Held(x)' = Held(x)
  PROVE  PlaceInv'
BY DEF PlaceInv, Unadvertised, ExclusiveUse, RegisteredOnce, OnePlace, Holder

\* A vector is dropped.
LEMMA PlaceDrop ==
  ASSUME PlaceInv, boots' = boots, free' = free, NEW y \in Holder,
         \A x \in Holder : Held(x)' = IF x = y THEN <<>> ELSE Held(x)
  PROVE  PlaceInv'
<1>1. DOMAIN <<>> = {}
  OBVIOUS
<1>2. ASSUME NEW x \in Holder, NEW i \in DOMAIN Held(x)'
      PROVE  x # y /\ i \in DOMAIN Held(x) /\ Held(x)'[i] = Held(x)[i]
  BY <1>1, <1>2
<1>3. Unadvertised'
  BY <1>2 DEF PlaceInv, Unadvertised, Holder
<1>4. ExclusiveUse'
  BY <1>2 DEF PlaceInv, ExclusiveUse, RegisteredOnce, OnePlace, Holder
<1> QED
  BY <1>3, <1>4 DEF PlaceInv

\* A vector changes hands and the receiver's old one is dropped.
LEMMA PlaceMove ==
  ASSUME PlaceInv, boots' = boots, free' = free,
         NEW y \in Holder, NEW z \in Holder, y # z,
         \A x \in Holder :
           Held(x)' = IF x = z THEN Held(y) ELSE IF x = y THEN <<>> ELSE Held(x)
  PROVE  PlaceInv'
<1> DEFINE From(x) == IF x = z THEN y ELSE x
<1>1. DOMAIN <<>> = {}
  OBVIOUS
<1>2. ASSUME NEW x \in Holder, NEW i \in DOMAIN Held(x)'
      PROVE  /\ x # y
             /\ From(x) \in Holder
             /\ i \in DOMAIN Held(From(x))
             /\ Held(x)'[i] = Held(From(x))[i]
  BY <1>1, <1>2
<1>3. \A x, w \in Holder : x # y /\ w # y /\ From(x) = From(w) => x = w
  OBVIOUS
<1> HIDE DEF From
<1>4. Unadvertised'
  BY <1>2 DEF PlaceInv, Unadvertised, Holder
<1>5. ASSUME RegisteredOnce' PROVE OnePlace'
  <2>1. OnePlace
    BY <1>5 DEF PlaceInv, ExclusiveUse, RegisteredOnce
  <2>2. \A b \in Block : free'[b] <= 1
    BY <2>1 DEF OnePlace
  <2>3. ASSUME NEW x \in Holder, NEW i \in DOMAIN Held(x)' PROVE free'[Held(x)'[i]] = 0
    BY <2>1, <2>3, <1>2 DEF OnePlace
  <2>4. ASSUME NEW x \in Holder, NEW w \in Holder,
               NEW i \in DOMAIN Held(x)', NEW j \in DOMAIN Held(w)',
               Held(x)'[i] = Held(w)'[j]
        PROVE  x = w /\ i = j
    BY <2>1, <2>4, <1>2, <1>3 DEF OnePlace
  <2> QED
    BY <2>2, <2>3, <2>4 DEF OnePlace, Holder
<1> QED
  BY <1>4, <1>5 DEF PlaceInv, ExclusiveUse

LEMMA HeldType ==
  ASSUME TypeOK, NEW x \in Holder
  PROVE  Held(x) \in Seq(Block) /\ DOMAIN Held(x) = 1 .. Len(Held(x))
BY DEF TypeOK, Holder, Held

\* try_dequeue moves one copy from the queue to the end of a vector.
LEMMA PlaceDequeue ==
  ASSUME PlaceInv, TypeOK, boots' = boots, NEW y \in Holder,
         NEW b \in Block, free[b] > 0, free' = DequeuedFree(b),
         \A x \in Holder :
           Held(x)' = IF x = y THEN Append(Held(y), b) ELSE Held(x)
  PROVE  PlaceInv'
<1> DEFINE n == Len(Held(y)) + 1
<1>1. /\ DOMAIN Append(Held(y), b) = 1 .. n
      /\ Append(Held(y), b)[n] = b
      /\ \A i \in 1 .. n : i # n => Append(Held(y), b)[i] = Held(y)[i] /\ i \in DOMAIN Held(y)
  BY HeldType
<1>2. ASSUME NEW x \in Holder, NEW i \in DOMAIN Held(x)'
      PROVE  \/ x = y /\ i = n /\ Held(x)'[i] = b
             \/ ~(x = y /\ i = n) /\ i \in DOMAIN Held(x) /\ Held(x)'[i] = Held(x)[i]
  BY <1>1, <1>2, HeldType
<1>3. /\ free[b] \in Nat
      /\ free' = [free EXCEPT ![b] = free[b] - 1]
      /\ \A c \in Block : c # b => free'[c] = free[c]
      /\ free'[b] = free[b] - 1
  BY DEF TypeOK, DequeuedFree
<1> HIDE DEF n
<1>4. ASSUME NEW s \in Server, boots[s] = 0, NEW j \in DOMAIN BlocksOf[s]
      PROVE  /\ free'[BlocksOf[s][j]] = 0
             /\ \A x \in Holder : \A i \in DOMAIN Held(x)' : Held(x)'[i] # BlocksOf[s][j]
  <2>1. BlocksOf[s][j] \in Block
    BY ServerAssumption
  <2>2. BlocksOf[s][j] # b /\ free[BlocksOf[s][j]] = 0
    BY <1>4 DEF PlaceInv, Unadvertised
  <2>3. free'[BlocksOf[s][j]] = 0
    BY <2>1, <2>2, <1>3
  <2>4. ASSUME NEW x \in Holder, NEW i \in DOMAIN Held(x)'
        PROVE  Held(x)'[i] # BlocksOf[s][j]
    BY <1>2, <1>4, <2>2, <2>4 DEF PlaceInv, Unadvertised
  <2> QED
    BY <2>3, <2>4
<1>5. Unadvertised'
  BY <1>4 DEF Unadvertised, Holder
<1>6. ASSUME RegisteredOnce' PROVE OnePlace'
  <2>1. OnePlace
    BY <1>6 DEF PlaceInv, ExclusiveUse, RegisteredOnce
  <2>2. free[b] = 1 /\ free'[b] = 0
    BY <2>1, <1>3 DEF OnePlace
  <2>3. \A c \in Block : free'[c] <= 1
    BY <2>1, <2>2, <1>3 DEF OnePlace
  <2>4. ASSUME NEW x \in Holder, NEW i \in DOMAIN Held(x) PROVE Held(x)[i] # b /\ Held(x)[i] \in Block
    BY <2>1, <2>2, <2>4, HeldType DEF OnePlace
  <2>5. ASSUME NEW x \in Holder, NEW i \in DOMAIN Held(x)' PROVE free'[Held(x)'[i]] = 0
    <3>1. CASE x = y /\ i = n /\ Held(x)'[i] = b
      BY <3>1, <2>2
    <3>2. CASE i \in DOMAIN Held(x) /\ Held(x)'[i] = Held(x)[i]
      BY <3>2, <2>1, <2>4, <1>3 DEF OnePlace
    <3> QED
      BY <2>5, <1>2, <3>1, <3>2
  <2>6. ASSUME NEW x \in Holder, NEW w \in Holder,
               NEW i \in DOMAIN Held(x)', NEW j \in DOMAIN Held(w)',
               Held(x)'[i] = Held(w)'[j]
        PROVE  x = w /\ i = j
    <3>1. CASE x = y /\ i = n /\ Held(x)'[i] = b
      BY <3>1, <2>4, <2>6, <1>2
    <3>2. CASE w = y /\ j = n /\ Held(w)'[j] = b
      BY <3>2, <2>4, <2>6, <1>2
    <3>3. CASE /\ i \in DOMAIN Held(x) /\ Held(x)'[i] = Held(x)[i]
               /\ j \in DOMAIN Held(w) /\ Held(w)'[j] = Held(w)[j]
      BY <3>3, <2>1, <2>6 DEF OnePlace
    <3> QED
      BY <2>6, <1>2, <3>1, <3>2, <3>3
  <2> QED
    BY <2>3, <2>5, <2>6 DEF OnePlace, Holder
<1> QED
  BY <1>5, <1>6 DEF PlaceInv, ExclusiveUse

\* enqueue moves the first block of a vector to the queue.
LEMMA PlaceEnqueue ==
  ASSUME PlaceInv, TypeOK, boots' = boots, NEW y \in Holder, Held(y) # <<>>,
         free' = EnqueuedFree(Head(Held(y))),
         \A x \in Holder :
           Held(x)' = IF x = y THEN Tail(Held(y)) ELSE Held(x)
  PROVE  PlaceInv'
<1> DEFINE b == Head(Held(y))
           At(x, i) == IF x = y THEN i + 1 ELSE i
<1>1. /\ b = Held(y)[1] /\ b \in Block /\ 1 \in DOMAIN Held(y)
      /\ Tail(Held(y)) \in Seq(Block)
      /\ Len(Tail(Held(y))) = Len(Held(y)) - 1
      /\ Len(Held(y)) \in Nat
      /\ \A i \in 1 .. Len(Tail(Held(y))) : Tail(Held(y))[i] = Held(y)[i+1]
  BY HeldType, HeadTailProperties, EmptySeq
<1>2. ASSUME NEW x \in Holder, NEW i \in DOMAIN Held(x)'
      PROVE  /\ i \in Nat /\ i # 0
             /\ At(x, i) \in DOMAIN Held(x) /\ Held(x)'[i] = Held(x)[At(x, i)]
             /\ ~(x = y /\ At(x, i) = 1)
  BY <1>1, <1>2, HeldType
<1>3. /\ free[b] \in Nat
      /\ \A c \in Block : c # b => free'[c] = free[c]
      /\ free'[b] = free[b] + 1
  BY <1>1 DEF TypeOK, EnqueuedFree
<1>4. ASSUME NEW s \in Server, boots[s] = 0, NEW j \in DOMAIN BlocksOf[s]
      PROVE  /\ free'[BlocksOf[s][j]] = 0
             /\ \A x \in Holder : \A i \in DOMAIN Held(x)' : Held(x)'[i] # BlocksOf[s][j]
  <2>1. BlocksOf[s][j] \in Block
    BY ServerAssumption
  <2>2. BlocksOf[s][j] # b /\ free[BlocksOf[s][j]] = 0
    BY <1>4, <1>1 DEF PlaceInv, Unadvertised
  <2>3. free'[BlocksOf[s][j]] = 0
    BY <2>1, <2>2, <1>3
  <2>4. ASSUME NEW x \in Holder, NEW i \in DOMAIN Held(x)'
        PROVE  Held(x)'[i] # BlocksOf[s][j]
    BY <1>2, <1>4, <2>4 DEF PlaceInv, Unadvertised
  <2> QED
    BY <2>3, <2>4
<1>5. Unadvertised'
  BY <1>4 DEF Unadvertised, Holder
<1>6. ASSUME RegisteredOnce' PROVE OnePlace'
  <2>1. OnePlace
    BY <1>6 DEF PlaceInv, ExclusiveUse, RegisteredOnce
  <2>2. free[b] = 0
    BY <2>1, <1>1 DEF OnePlace
  <2>3. \A c \in Block : free'[c] <= 1
    BY <2>1, <2>2, <1>3 DEF OnePlace
  <2>4. ASSUME NEW x \in Holder, NEW i \in DOMAIN Held(x)'
        PROVE  Held(x)'[i] # b /\ Held(x)'[i] \in Block
    BY <2>1, <2>4, <1>1, <1>2, HeldType DEF OnePlace
  <2>5. ASSUME NEW x \in Holder, NEW i \in DOMAIN Held(x)' PROVE free'[Held(x)'[i]] = 0
    BY <2>1, <2>4, <2>5, <1>2, <1>3 DEF OnePlace
  <2>6. ASSUME NEW x \in Holder, NEW w \in Holder,
               NEW i \in DOMAIN Held(x)', NEW j \in DOMAIN Held(w)',
               Held(x)'[i] = Held(w)'[j]
        PROVE  x = w /\ i = j
    <3>1. x = w /\ At(x, i) = At(w, j)
      BY <2>1, <2>6, <1>2 DEF OnePlace
    <3> QED
      BY <3>1, <2>6, <1>2
  <2> QED
    BY <2>3, <2>5, <2>6 DEF OnePlace, Holder
<1> QED
  BY <1>5, <1>6 DEF PlaceInv, ExclusiveUse

\* A server that has never advertised does: its names appear in one vector.
LEMMA PlaceAdvertise ==
  ASSUME PlaceInv, TypeOK, NEW s \in Server, NEW y \in Holder, Held(y) = <<>>,
         boots' = [boots EXCEPT ![s] = @ + 1], free' = free,
         \A x \in Holder :
           Held(x)' = IF x = y THEN BlocksOf[s] ELSE Held(x)
  PROVE  PlaceInv'
<1>1. /\ \A r \in Server : boots[r] \in Nat
      /\ boots'[s] = boots[s] + 1
      /\ \A r \in Server : r # s => boots'[r] = boots[r]
  BY DEF TypeOK
<1>2. ASSUME NEW x \in Holder, NEW i \in DOMAIN Held(x)'
      PROVE  \/ x = y /\ i \in DOMAIN BlocksOf[s] /\ Held(x)'[i] = BlocksOf[s][i]
             \/ x # y /\ i \in DOMAIN Held(x) /\ Held(x)'[i] = Held(x)[i]
  BY <1>2
<1>3. ASSUME NEW r \in Server, boots'[r] = 0, NEW j \in DOMAIN BlocksOf[r]
      PROVE  /\ free'[BlocksOf[r][j]] = 0
             /\ \A x \in Holder : \A i \in DOMAIN Held(x)' : Held(x)'[i] # BlocksOf[r][j]
  <2>1. r # s /\ boots[r] = 0
    BY <1>1, <1>3
  <2>2. free'[BlocksOf[r][j]] = 0
    BY <1>3, <2>1 DEF PlaceInv, Unadvertised
  <2>3. ASSUME NEW x \in Holder, NEW i \in DOMAIN Held(x)'
        PROVE  Held(x)'[i] # BlocksOf[r][j]
    <3>1. CASE x = y /\ i \in DOMAIN BlocksOf[s] /\ Held(x)'[i] = BlocksOf[s][i]
      BY <3>1, <2>1, <1>3, ServerAssumption
    <3>2. CASE i \in DOMAIN Held(x) /\ Held(x)'[i] = Held(x)[i]
      BY <3>2, <2>1, <1>3 DEF PlaceInv, Unadvertised
    <3> QED
      BY <2>3, <1>2, <3>1, <3>2
  <2> QED
    BY <2>2, <2>3
<1>4. Unadvertised'
  BY <1>3 DEF Unadvertised, Holder
<1>5. ASSUME RegisteredOnce' PROVE OnePlace'
  <2>1. boots[s] = 0 /\ RegisteredOnce
    BY <1>1, <1>5 DEF RegisteredOnce
  <2>2. OnePlace
    BY <2>1 DEF PlaceInv, ExclusiveUse
  <2>3. \A i \in DOMAIN BlocksOf[s] :
          /\ free[BlocksOf[s][i]] = 0
          /\ \A x \in Holder : \A j \in DOMAIN Held(x) : Held(x)[j] # BlocksOf[s][i]
    BY <2>1 DEF PlaceInv, Unadvertised
  <2>4. \A b \in Block : free'[b] <= 1
    BY <2>2 DEF OnePlace
  <2>5. ASSUME NEW x \in Holder, NEW i \in DOMAIN Held(x)' PROVE free'[Held(x)'[i]] = 0
    BY <2>2, <2>3, <2>5, <1>2 DEF OnePlace
  <2>6. ASSUME NEW x \in Holder, NEW w \in Holder,
               NEW i \in DOMAIN Held(x)', NEW j \in DOMAIN Held(w)',
               Held(x)'[i] = Held(w)'[j]
        PROVE  x = w /\ i = j
    <3>1. CASE x = y /\ w = y
      BY <3>1, <2>6, <1>2, ServerAssumption
    <3>2. CASE x # y /\ w # y
      BY <3>2, <2>2, <2>6, <1>2 DEF OnePlace
    <3>3. CASE ~(x = y <=> w = y)
      BY <3>3, <2>3, <2>6, <1>2
    <3> QED
      BY <3>1, <3>2, <3>3
  <2> QED
    BY <2>4, <2>5, <2>6 DEF OnePlace, Holder
<1> QED
  BY <1>4, <1>5 DEF PlaceInv, ExclusiveUse

\* What a step does to the vectors.
LEMMA HeldByThread == \A t \in Thread : t \in Holder /\ Held(t) = hand[t]
BY DEF Holder, Held

LEMMA HeldByOwner == \A o \in Owner : o \in Holder /\ Held(o) = grant[o]
BY CallerAssumption DEF Holder, Held

\* Between calls a thread's vector is empty.
IdleHasNothing == \A t \in Thread : pc[t] = "idle" => hand[t] = <<>>

SafeInv == TypeInv /\ IdleHasNothing /\ PlaceInv

LEMMA IdleStep == TypeInv /\ IdleHasNothing /\ [Next]_vars => IdleHasNothing'
<1> SUFFICES ASSUME TypeInv, IdleHasNothing, [Next]_vars PROVE IdleHasNothing'
  OBVIOUS
<1> USE DEF TypeInv, TypeOK, IdleHasNothing
<1>1. ASSUME NEW t \in Thread, EnqueueNext(t), pc[t] # "idle", hand[t] # <<>>
      PROVE  IdleHasNothing'
  <2>1. CASE Len(hand[t]) = 1
    <3>1. hand'[t] = Tail(hand[t]) /\ Tail(hand[t]) \in Seq(Block) /\ Len(Tail(hand[t])) = 0
      BY <1>1, <2>1, HeadTailProperties DEF EnqueueNext
    <3>2. hand'[t] = <<>>
      BY <3>1, EmptySeq
    <3> QED
      BY <1>1, <3>2 DEF EnqueueNext
  <2>2. CASE Len(hand[t]) # 1
    BY <1>1, <2>2 DEF EnqueueNext
  <2> QED
    BY <2>1, <2>2
<1>2. ASSUME NEW t \in Thread, Dequeue(t) PROVE IdleHasNothing'
  BY <1>2 DEF Dequeue
<1>3. ASSUME NEW t \in Thread, Call(t) PROVE IdleHasNothing'
  BY <1>3 DEF Call, AllocateThrows, vars, Allocate, FreeBlocks, AddBlocks
<1>4. ASSUME NEW t \in Thread,
             Miss(t) \/ Insert(t) \/ Grant(t) \/ Erase(t) \/ FreeThrows(t) \/ FreeErased(t)
      PROVE  IdleHasNothing'
  BY <1>4 DEF Miss, Insert, Grant, Erase, FreeThrows, FreeErased
<1>5. CASE UNCHANGED vars
  BY <1>5 DEF vars
<1> QED
  BY <1>1, <1>2, <1>3, <1>4, <1>5
     DEF Next, Continue, Rollback, Enqueue, BlockToEnqueue

\* Every step keeps each block in at most one place.
LEMMA PlaceStep == SafeInv /\ [Next]_vars => PlaceInv'
<1> SUFFICES ASSUME SafeInv, [Next]_vars PROVE PlaceInv'
  OBVIOUS
<1>0. PlaceInv /\ TypeOK
  BY DEF SafeInv, TypeInv
<1> USE HeldByThread, HeldByOwner
<1>1. ASSUME UNCHANGED <<free, boots, grant, hand>> PROVE PlaceInv'
  <2>1. \A x \in Holder : Held(x)' = Held(x)
    BY <1>1 DEF Held
  <2> QED
    BY <1>0, <1>1, <2>1, PlaceStutter
<1>2. ASSUME NEW t \in Thread, Dequeue(t) PROVE PlaceInv'
  <2>1. PICK b \in Block : /\ free[b] > 0
                           /\ free' = DequeuedFree(b)
                           /\ hand' = [hand EXCEPT ![t] = Append(@, b)]
    BY <1>2 DEF Dequeue
  <2>2. \A x \in Holder : Held(x)' = IF x = t THEN Append(Held(t), b) ELSE Held(x)
    BY <1>0, <1>2, <2>1 DEF Dequeue, Held, TypeOK
  <2> QED
    BY <1>0, <1>2, <2>1, <2>2, PlaceDequeue DEF Dequeue
<1>3. ASSUME NEW t \in Thread, EnqueueNext(t), hand[t] # <<>> PROVE PlaceInv'
  <2>1. \A x \in Holder : Held(x)' = IF x = t THEN Tail(Held(t)) ELSE Held(x)
    BY <1>0, <1>3 DEF EnqueueNext, Held, TypeOK
  <2> QED
    BY <1>0, <1>3, <2>1, PlaceEnqueue DEF EnqueueNext, NextInHand
<1>4. ASSUME NEW t \in Thread, NEW o \in Owner, owner[t] = o, Grant(t) PROVE PlaceInv'
  <2>1. \A x \in Holder :
          Held(x)' = IF x = o THEN Held(t) ELSE IF x = t THEN <<>> ELSE Held(x)
    BY <1>0, <1>4, CallerAssumption DEF Grant, Held, TypeOK, Holder
  <2>2. t # o
    BY CallerAssumption
  <2> QED
    BY <1>0, <1>4, <2>1, <2>2, PlaceMove DEF Grant
<1>5. ASSUME NEW t \in Thread, owner[t] \notin Owner, Grant(t) PROVE PlaceInv'
  <2>1. grant' = grant
    BY <1>0, <1>5 DEF Grant, TypeOK
  <2>2. \A x \in Holder : Held(x)' = IF x = t THEN <<>> ELSE Held(x)
    BY <1>0, <1>5, <2>1 DEF Grant, Held, TypeOK, Holder
  <2> QED
    BY <1>0, <1>5, <2>2, PlaceDrop DEF Grant
<1>6. ASSUME NEW t \in Thread, NEW o \in Owner, FreeBlocks(t, o) PROVE PlaceInv'
  <2>1. \A x \in Holder :
          Held(x)' = IF x = t THEN Held(o) ELSE IF x = o THEN <<>> ELSE Held(x)
    BY <1>0, <1>6, CallerAssumption DEF FreeBlocks, Held, TypeOK, Holder
  <2>2. t # o
    BY CallerAssumption
  <2> QED
    BY <1>0, <1>6, <2>1, <2>2, PlaceMove DEF FreeBlocks
<1>7. ASSUME NEW t \in Thread, FreeThrows(t) PROVE PlaceInv'
  <2>1. \A x \in Holder : Held(x)' = IF x = t THEN <<>> ELSE Held(x)
    BY <1>0, <1>7 DEF FreeThrows, Held, TypeOK, Holder
  <2> QED
    BY <1>0, <1>7, <2>1, PlaceDrop DEF FreeThrows
<1>8. ASSUME NEW t \in Thread, NEW s \in Server, AddBlocks(t, s) PROVE PlaceInv'
  <2>1. Held(t) = <<>>
    BY <1>8 DEF AddBlocks, SafeInv, IdleHasNothing
  <2>2. \A x \in Holder : Held(x)' = IF x = t THEN BlocksOf[s] ELSE Held(x)
    BY <1>0, <1>8 DEF AddBlocks, Held, TypeOK, Holder
  <2> QED
    BY <1>0, <1>8, <2>1, <2>2, PlaceAdvertise DEF AddBlocks
<1>9. ASSUME NEW t \in Thread,
             \/ \E o \in Owner, n \in 1..MaxCount : Allocate(t, o, n)
             \/ Miss(t) \/ Insert(t) \/ Erase(t) \/ FreeErased(t)
      PROVE  PlaceInv'
  BY <1>1, <1>9 DEF Allocate, Miss, Insert, Erase, FreeErased
<1>10. CASE UNCHANGED vars
  BY <1>1, <1>10 DEF vars
<1>11. ASSUME NEW t \in Thread, Rollback(t) \/ Enqueue(t) PROVE PlaceInv'
  BY <1>3, <1>11 DEF Rollback, Enqueue, SafeInv, TypeInv, BlockToEnqueue
<1>12. ASSUME NEW t \in Thread, Grant(t) PROVE PlaceInv'
  BY <1>4, <1>5, <1>12
<1> QED
  BY <1>2, <1>6, <1>7, <1>8, <1>9, <1>10, <1>11, <1>12 DEF Next, Call, AllocateThrows, Continue

LEMMA SafeInit == Init => SafeInv
<1> SUFFICES ASSUME Init PROVE SafeInv
  OBVIOUS
<1>1. TypeInv
  BY CallerAssumption DEF Init, TypeInv, TypeOK, BlockToEnqueue, Label
<1>2. \A x \in Holder : DOMAIN Held(x) = {}
  BY DEF Init, Held, Holder
<1>3. \A b \in Block : free[b] = 0
  BY DEF Init
<1>4. Unadvertised
  BY <1>2, <1>3, ServerAssumption DEF Unadvertised
<1>5. OnePlace
  BY <1>2, <1>3 DEF OnePlace
<1> QED
  BY <1>1, <1>4, <1>5 DEF SafeInv, PlaceInv, ExclusiveUse, IdleHasNothing, Init

LEMMA SafeStep == SafeInv /\ [Next]_vars => SafeInv'
BY TypeStep, IdleStep, PlaceStep DEF SafeInv

\* A block is never given to two requests, nor listed twice, however the
\* unlocked calls of any number of threads interleave, provided no storage
\* server has advertised its blocks twice.
THEOREM BlocksExclusive == Spec => []ExclusiveUse
<1>1. SafeInv => ExclusiveUse
  BY DEF SafeInv, PlaceInv
<1> QED
  BY <1>1, SafeInit, SafeStep, PTL DEF Spec
=============================================================================
