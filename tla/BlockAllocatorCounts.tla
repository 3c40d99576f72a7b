------------------------ MODULE BlockAllocatorCounts ------------------------
(***************************************************************************)
(* How many blocks there are: however often servers restart, the queue and *)
(* the vectors hold no more copies of a name than were advertised; and     *)
(* when none is started twice, num_total_blocks() is exact between calls.  *)
(***************************************************************************)
EXTENDS BlockAllocatorRefinement, FiniteSetTheorems

\* A set that can be embedded in a finite one has no more elements.
LEMMA Embedded ==
  ASSUME NEW S, NEW T, IsFiniteSet(T), NEW f,
         \A x \in S : f[x] \in T,
         \A x, y \in S : f[x] = f[y] => x = y
  PROVE  IsFiniteSet(S) /\ Cardinality(S) <= Cardinality(T)
<1> DEFINE g == [x \in S |-> f[x]]
<1>1. g \in Injection(S, T)
  BY DEF Injection, IsInjective
<1> HIDE DEF g
<1> QED
  BY <1>1, FS_Injection

LEMMA OneMore ==
  ASSUME NEW S, NEW T, NEW p, IsFiniteSet(S), T \subseteq S \cup {p}
  PROVE  IsFiniteSet(T) /\ Cardinality(T) <= Cardinality(S) + 1
<1>1. IsFiniteSet(S \cup {p})
  BY FS_AddElement
<1>2. Cardinality(S \cup {p}) = IF p \in S THEN Cardinality(S) ELSE Cardinality(S) + 1
  BY FS_AddElement
<1>3. IsFiniteSet(T) /\ Cardinality(T) <= Cardinality(S \cup {p})
  BY <1>1, FS_Subset
<1>4. Cardinality(T) \in Nat /\ Cardinality(S) \in Nat
  BY <1>3, FS_CardinalityType
<1> QED
  BY <1>2, <1>3, <1>4

LEMMA InPlaces ==
  \A b, p : p \in Places(b) <=>
    \E x \in Holder : \E i \in DOMAIN Held(x) : p = <<x, i>> /\ Held(x)[i] = b
BY DEF Places

\* No more copies of b than before, nor infinitely many.
NoMore(b) == IsFiniteSet(Places(b)) =>
               IsFiniteSet(Places(b)') /\ Cardinality(Places(b)') <= Cardinality(Places(b))

\* Vectors change hands or are dropped.
LEMMA PlacesMove ==
  ASSUME NEW from,
         \A x \in Holder : DOMAIN Held(x)' # {} =>
           from[x] \in Holder /\ Held(x)' = Held(from[x]),
         \A x, y \in Holder :
           DOMAIN Held(x)' # {} /\ DOMAIN Held(y)' # {} /\ from[x] = from[y] => x = y,
         NEW b
  PROVE  NoMore(b)
<1> SUFFICES ASSUME IsFiniteSet(Places(b))
             PROVE  IsFiniteSet(Places(b)') /\ Cardinality(Places(b)') <= Cardinality(Places(b))
  BY DEF NoMore
<1> DEFINE f == [p \in Places(b)' |-> <<from[p[1]], p[2]>>]
<1>1. ASSUME NEW p \in Places(b)'
      PROVE  \E x \in Holder : \E i \in DOMAIN Held(x)' :
               /\ p = <<x, i>> /\ Held(x)'[i] = b
               /\ from[x] \in Holder /\ Held(x)' = Held(from[x])
               /\ f[p] = <<from[x], i>>
  <2>1. PICK x \in Holder : \E i \in DOMAIN Held(x)' : p = <<x, i>> /\ Held(x)'[i] = b
    BY <1>1 DEF Places, Holder
  <2>2. PICK i \in DOMAIN Held(x)' : p = <<x, i>> /\ Held(x)'[i] = b
    BY <2>1
  <2>3. from[x] \in Holder /\ Held(x)' = Held(from[x])
    BY <2>2
  <2>4. f[p] = <<from[x], i>>
    BY <1>1, <2>2
  <2> QED
    BY <2>2, <2>3, <2>4
<1> HIDE DEF f
<1>2. \A p \in Places(b)' : f[p] \in Places(b)
  BY <1>1, InPlaces
<1>3. \A p, q \in Places(b)' : f[p] = f[q] => p = q
  <2> SUFFICES ASSUME NEW p \in Places(b)', NEW q \in Places(b)', f[p] = f[q] PROVE p = q
    OBVIOUS
  <2>1. PICK x \in Holder :
          \E i \in DOMAIN Held(x)' : p = <<x, i>> /\ f[p] = <<from[x], i>>
    BY <1>1
  <2>2. PICK y \in Holder :
          \E j \in DOMAIN Held(y)' : q = <<y, j>> /\ f[q] = <<from[y], j>>
    BY <1>1
  <2>3. PICK i \in DOMAIN Held(x)' : p = <<x, i>> /\ f[p] = <<from[x], i>>
    BY <2>1
  <2>4. PICK j \in DOMAIN Held(y)' : q = <<y, j>> /\ f[q] = <<from[y], j>>
    BY <2>2
  <2>5. from[x] = from[y] /\ i = j
    BY <2>3, <2>4
  <2> QED
    BY <2>3, <2>4, <2>5
<1> QED
  BY <1>2, <1>3, Embedded

LEMMA PlacesStay ==
  ASSUME \A x \in Holder : Held(x)' = Held(x), NEW b
  PROVE  NoMore(b)
<1> DEFINE from == [x \in Holder |-> x]
<1>1. \A x \in Holder : from[x] \in Holder /\ Held(x)' = Held(from[x])
  OBVIOUS
<1>2. \A x, y \in Holder : from[x] = from[y] => x = y
  OBVIOUS
<1> HIDE DEF from
<1> QED
  BY <1>1, <1>2, PlacesMove

\* A block more at the end of a vector.
LEMMA PlacesAppend ==
  ASSUME TypeOK, NEW y \in Holder, NEW c \in Block,
         \A x \in Holder : Held(x)' = IF x = y THEN Append(Held(y), c) ELSE Held(x)
  PROVE  /\ IsFiniteSet(Places(c)) =>
              IsFiniteSet(Places(c)') /\ Cardinality(Places(c)') <= Cardinality(Places(c)) + 1
         /\ \A b : b # c => NoMore(b)
<1> DEFINE n == Len(Held(y)) + 1
<1>1. /\ DOMAIN Append(Held(y), c) = 1 .. n
      /\ Append(Held(y), c)[n] = c
      /\ \A i \in 1 .. n : i # n => Append(Held(y), c)[i] = Held(y)[i] /\ i \in DOMAIN Held(y)
  BY HeldType
<1> HIDE DEF n
<1>2. ASSUME NEW b, NEW x \in Holder, NEW i \in DOMAIN Held(x)', Held(x)'[i] = b
      PROVE  <<x, i>> \in Places(b) \/ (x = y /\ i = n /\ b = c)
  <2>1. CASE x # y
    BY <1>2, <2>1, InPlaces
  <2>2. CASE x = y /\ i # n
    BY <1>1, <1>2, <2>2, InPlaces
  <2>3. CASE x = y /\ i = n
    BY <1>1, <1>2, <2>3
  <2> QED
    BY <2>1, <2>2, <2>3
<1>3. ASSUME NEW b, NEW p \in Places(b)'
      PROVE  p \in Places(b) \/ (b = c /\ p = <<y, n>>)
  <2>1. PICK x \in Holder : \E i \in DOMAIN Held(x)' : p = <<x, i>> /\ Held(x)'[i] = b
    BY <1>3 DEF Places, Holder
  <2>2. PICK i \in DOMAIN Held(x)' : p = <<x, i>> /\ Held(x)'[i] = b
    BY <2>1
  <2> QED
    BY <1>2, <2>2
<1>4. Places(c)' \subseteq Places(c) \cup {<<y, n>>}
  BY <1>3
<1>5. ASSUME NEW b, b # c PROVE Places(b)' \subseteq Places(b)
  BY <1>3, <1>5
<1> QED
  BY <1>4, <1>5, OneMore, FS_Subset DEF NoMore

\* A block less at the front of one.
LEMMA PlacesTail ==
  ASSUME TypeOK, NEW y \in Holder, Held(y) # <<>>, NEW c, c = Head(Held(y)),
         \A x \in Holder : Held(x)' = IF x = y THEN Tail(Held(y)) ELSE Held(x)
  PROVE  /\ IsFiniteSet(Places(c)) =>
              IsFiniteSet(Places(c)') /\ Cardinality(Places(c)') + 1 <= Cardinality(Places(c))
         /\ \A b : NoMore(b)
<1>1. /\ 1 \in DOMAIN Held(y) /\ Held(y)[1] = c
      /\ \A i \in DOMAIN Tail(Held(y)) :
           /\ i \in Nat \ {0} /\ i + 1 \in DOMAIN Held(y)
           /\ Tail(Held(y))[i] = Held(y)[i + 1]
  BY HeldType, HeadTailProperties, EmptySeq
<1> DEFINE At(x, i) == IF x = y THEN i + 1 ELSE i
           f == [p \in Holder \X (Nat \cup Int) |-> <<p[1], At(p[1], p[2])>>]
<1>2. ASSUME NEW b, NEW p \in Places(b)'
      PROVE  \E x \in Holder : \E i \in Nat \ {0} :
               p = <<x, i>> /\ f[p] = <<x, At(x, i)>> /\ f[p] \in Places(b) \ {<<y, 1>>}
  <2>1. PICK x \in Holder : \E i \in DOMAIN Held(x)' : p = <<x, i>> /\ Held(x)'[i] = b
    BY <1>2 DEF Places, Holder
  <2>2. PICK i \in DOMAIN Held(x)' : p = <<x, i>> /\ Held(x)'[i] = b
    BY <2>1
  <2>3. /\ i \in Nat \ {0} /\ At(x, i) \in DOMAIN Held(x) /\ Held(x)[At(x, i)] = b
        /\ x = y => At(x, i) # 1
    <3>1. CASE x = y
      BY <1>1, <2>2, <3>1
    <3>2. CASE x # y
      BY <2>2, <3>2, HeldType
    <3> QED
      BY <3>1, <3>2
  <2>4. f[p] = <<x, At(x, i)>>
    BY <2>2, <2>3
  <2> HIDE DEF f, At
  <2> QED
    BY <2>2, <2>3, <2>4, InPlaces
<1>3. ASSUME NEW b, NEW p \in Places(b)', NEW q \in Places(b)', f[p] = f[q]
      PROVE  p = q
  <2> HIDE DEF f
  <2>1. PICK x \in Holder : \E i \in Nat \ {0} : p = <<x, i>> /\ f[p] = <<x, At(x, i)>>
    BY <1>2
  <2>2. PICK i \in Nat \ {0} : p = <<x, i>> /\ f[p] = <<x, At(x, i)>>
    BY <2>1
  <2>3. PICK z \in Holder : \E j \in Nat \ {0} : q = <<z, j>> /\ f[q] = <<z, At(z, j)>>
    BY <1>2
  <2>4. PICK j \in Nat \ {0} : q = <<z, j>> /\ f[q] = <<z, At(z, j)>>
    BY <2>3
  <2>5. x = z /\ At(x, i) = At(z, j)
    BY <1>3, <2>2, <2>4
  <2>6. i = j
    BY <2>5
  <2> QED
    BY <2>2, <2>4, <2>5, <2>6
<1> HIDE DEF f
<1>4. ASSUME NEW b, IsFiniteSet(Places(b))
      PROVE  /\ IsFiniteSet(Places(b) \ {<<y, 1>>}) /\ IsFiniteSet(Places(b)')
             /\ Cardinality(Places(b)') <= Cardinality(Places(b) \ {<<y, 1>>})
  <2>1. IsFiniteSet(Places(b) \ {<<y, 1>>})
    BY <1>4, FS_RemoveElement
  <2>2. \A p \in Places(b)' : f[p] \in Places(b) \ {<<y, 1>>}
    BY <1>2
  <2> QED
    BY <1>3, <2>1, <2>2, Embedded
<1>5. ASSUME NEW b, IsFiniteSet(Places(b))
      PROVE  Cardinality(Places(b)) \in Nat /\ Cardinality(Places(b)') \in Nat
  BY <1>4, <1>5, FS_CardinalityType
<1>6. ASSUME NEW b, IsFiniteSet(Places(b)), <<y, 1>> \in Places(b)
      PROVE  Cardinality(Places(b)') + 1 <= Cardinality(Places(b))
  <2>1. Cardinality(Places(b) \ {<<y, 1>>}) = Cardinality(Places(b)) - 1
    BY <1>6, FS_RemoveElement
  <2>2. Cardinality(Places(b)') <= Cardinality(Places(b) \ {<<y, 1>>})
    BY <1>4, <1>6
  <2>3. Cardinality(Places(b)) \in Nat /\ Cardinality(Places(b)') \in Nat
    BY <1>5, <1>6
  <2> QED
    BY <2>1, <2>2, <2>3
<1>7. ASSUME NEW b, IsFiniteSet(Places(b))
      PROVE  IsFiniteSet(Places(b)') /\ Cardinality(Places(b)') <= Cardinality(Places(b))
  <2>1. CASE <<y, 1>> \in Places(b)
    <3>1. Cardinality(Places(b)') + 1 <= Cardinality(Places(b)) /\ IsFiniteSet(Places(b)')
      BY <1>4, <1>6, <1>7, <2>1
    <3>2. Cardinality(Places(b)) \in Nat /\ Cardinality(Places(b)') \in Nat
      BY <1>5, <1>7
    <3> QED
      BY <3>1, <3>2
  <2>2. CASE <<y, 1>> \notin Places(b)
    <3>1. Places(b) \ {<<y, 1>>} = Places(b)
      BY <2>2
    <3> QED
      BY <1>4, <1>7, <3>1
  <2> QED
    BY <2>1, <2>2
<1>8. <<y, 1>> \in Places(c)
  BY <1>1, InPlaces
<1> QED
  BY <1>4, <1>6, <1>7, <1>8 DEF NoMore

\* The names of a server in a vector that was empty.
LEMMA PlacesAdvertise ==
  ASSUME NEW s \in Server, NEW y \in Holder, Held(y) = <<>>,
         \A x \in Holder : Held(x)' = IF x = y THEN BlocksOf[s] ELSE Held(x)
  PROVE  /\ \A b \in Range(BlocksOf[s]) : IsFiniteSet(Places(b)) =>
              IsFiniteSet(Places(b)') /\ Cardinality(Places(b)') <= Cardinality(Places(b)) + 1
         /\ \A b : b \notin Range(BlocksOf[s]) => NoMore(b)
<1>1. ASSUME NEW b, NEW x \in Holder, NEW i \in DOMAIN Held(x)', Held(x)'[i] = b
      PROVE  <<x, i>> \in Places(b) \/ (x = y /\ i \in DOMAIN BlocksOf[s] /\ BlocksOf[s][i] = b)
  BY <1>1, InPlaces
<1>2. ASSUME NEW j \in DOMAIN BlocksOf[s], NEW b, b = BlocksOf[s][j]
      PROVE  Places(b)' \subseteq Places(b) \cup {<<y, j>>}
  <2>1. \A i \in DOMAIN BlocksOf[s] : BlocksOf[s][i] = b => i = j
    BY <1>2, ServerAssumption
  <2> QED
    BY <1>1, <2>1 DEF Places, Holder
<1>3. ASSUME NEW b, b \notin Range(BlocksOf[s]) PROVE Places(b)' \subseteq Places(b)
  BY <1>1, <1>3 DEF Places, Holder, Range
<1>4. ASSUME NEW b \in Range(BlocksOf[s]), IsFiniteSet(Places(b))
      PROVE  IsFiniteSet(Places(b)') /\ Cardinality(Places(b)') <= Cardinality(Places(b)) + 1
  <2>1. PICK j \in DOMAIN BlocksOf[s] : b = BlocksOf[s][j]
    BY DEF Range
  <2> QED
    BY <1>2, <1>4, <2>1, OneMore
<1> QED
  BY <1>3, <1>4, FS_Subset DEF NoMore

-----------------------------------------------------------------------------
(* No more copies than advertisements                                      *)

\* The count of a block; an infinite set would have none.
CopiesInv ==
  \A s \in Server : \A b \in Range(BlocksOf[s]) :
    IsFiniteSet(Places(b)) /\ free[b] + Cardinality(Places(b)) <= boots[s]

LEMMA CountTypes ==
  ASSUME TypeOK, NEW s \in Server, NEW b \in Range(BlocksOf[s])
  PROVE  b \in Block /\ free[b] \in Nat /\ boots[s] \in Nat
<1>1. b \in Block
  BY ServerAssumption DEF Range
<1> QED
  BY <1>1 DEF TypeOK

\* A step that adds no copy.
LEMMA CopiesKept ==
  ASSUME TypeOK, TypeOK', CopiesInv, UNCHANGED <<free, boots>>, \A b : NoMore(b)
  PROVE  CopiesInv'
<1> SUFFICES ASSUME NEW s \in Server, NEW b \in Range(BlocksOf[s])
             PROVE  IsFiniteSet(Places(b)') /\ free[b] + Cardinality(Places(b)') <= boots[s]
  BY DEF CopiesInv
<1>1. IsFiniteSet(Places(b)) /\ free[b] + Cardinality(Places(b)) <= boots[s]
  BY DEF CopiesInv
<1>2. IsFiniteSet(Places(b)') /\ Cardinality(Places(b)') <= Cardinality(Places(b))
  BY <1>1 DEF NoMore
<1>3. Cardinality(Places(b)) \in Nat /\ Cardinality(Places(b)') \in Nat
  BY <1>1, <1>2, FS_CardinalityType
<1>4. free[b] \in Nat /\ boots[s] \in Nat
  BY CountTypes
<1> QED
  BY <1>1, <1>2, <1>3, <1>4

LEMMA CopiesDequeue ==
  ASSUME TypeOK, CopiesInv, boots' = boots, NEW y \in Holder, NEW c \in Block, free[c] > 0,
         free' = DequeuedFree(c),
         \A x \in Holder : Held(x)' = IF x = y THEN Append(Held(y), c) ELSE Held(x)
  PROVE  CopiesInv'
<1> SUFFICES ASSUME NEW s \in Server, NEW b \in Range(BlocksOf[s])
             PROVE  IsFiniteSet(Places(b)') /\ free'[b] + Cardinality(Places(b)') <= boots[s]
  BY DEF CopiesInv
<1>1. IsFiniteSet(Places(b)) /\ free[b] + Cardinality(Places(b)) <= boots[s]
  BY DEF CopiesInv
<1>2. b \in Block /\ free[b] \in Nat /\ boots[s] \in Nat
  BY CountTypes
<1>3. free'[b] = IF b = c THEN free[b] - 1 ELSE free[b]
  BY <1>2 DEF DequeuedFree, TypeOK
<1>4. CASE b = c
  <2>1. IsFiniteSet(Places(b)') /\ Cardinality(Places(b)') <= Cardinality(Places(b)) + 1
    BY <1>1, <1>4, PlacesAppend
  <2>2. Cardinality(Places(b)) \in Nat /\ Cardinality(Places(b)') \in Nat
    BY <1>1, <2>1, FS_CardinalityType
  <2> QED
    BY <1>1, <1>2, <1>3, <1>4, <2>1, <2>2
<1>5. CASE b # c
  <2>1. IsFiniteSet(Places(b)') /\ Cardinality(Places(b)') <= Cardinality(Places(b))
    BY <1>1, <1>5, PlacesAppend DEF NoMore
  <2>2. Cardinality(Places(b)) \in Nat /\ Cardinality(Places(b)') \in Nat
    BY <1>1, <2>1, FS_CardinalityType
  <2> QED
    BY <1>1, <1>2, <1>3, <1>5, <2>1, <2>2
<1> QED
  BY <1>4, <1>5

LEMMA CopiesEnqueue ==
  ASSUME TypeOK, CopiesInv, boots' = boots, NEW y \in Holder, Held(y) # <<>>,
         NEW c, c = Head(Held(y)), free' = EnqueuedFree(c),
         \A x \in Holder : Held(x)' = IF x = y THEN Tail(Held(y)) ELSE Held(x)
  PROVE  CopiesInv'
<1> SUFFICES ASSUME NEW s \in Server, NEW b \in Range(BlocksOf[s])
             PROVE  IsFiniteSet(Places(b)') /\ free'[b] + Cardinality(Places(b)') <= boots[s]
  BY DEF CopiesInv
<1>1. IsFiniteSet(Places(b)) /\ free[b] + Cardinality(Places(b)) <= boots[s]
  BY DEF CopiesInv
<1>2. b \in Block /\ free[b] \in Nat /\ boots[s] \in Nat
  BY CountTypes
<1>3. free'[b] = IF b = c THEN free[b] + 1 ELSE free[b]
  BY <1>2 DEF EnqueuedFree, TypeOK
<1>4. CASE b = c
  <2>1. IsFiniteSet(Places(b)') /\ Cardinality(Places(b)') + 1 <= Cardinality(Places(b))
    BY <1>1, <1>4, PlacesTail
  <2>2. Cardinality(Places(b)) \in Nat /\ Cardinality(Places(b)') \in Nat
    BY <1>1, <2>1, FS_CardinalityType
  <2> QED
    BY <1>1, <1>2, <1>3, <1>4, <2>1, <2>2
<1>5. CASE b # c
  <2>1. IsFiniteSet(Places(b)') /\ Cardinality(Places(b)') <= Cardinality(Places(b))
    BY <1>1, PlacesTail DEF NoMore
  <2>2. Cardinality(Places(b)) \in Nat /\ Cardinality(Places(b)') \in Nat
    BY <1>1, <2>1, FS_CardinalityType
  <2> QED
    BY <1>1, <1>2, <1>3, <1>5, <2>1, <2>2
<1> QED
  BY <1>4, <1>5

LEMMA CopiesAdvertise ==
  ASSUME TypeOK, CopiesInv, free' = free, NEW r \in Server, NEW y \in Holder, Held(y) = <<>>,
         boots' = [boots EXCEPT ![r] = @ + 1],
         \A x \in Holder : Held(x)' = IF x = y THEN BlocksOf[r] ELSE Held(x)
  PROVE  CopiesInv'
<1> SUFFICES ASSUME NEW s \in Server, NEW b \in Range(BlocksOf[s])
             PROVE  IsFiniteSet(Places(b)') /\ free[b] + Cardinality(Places(b)') <= boots'[s]
  BY DEF CopiesInv
<1>1. IsFiniteSet(Places(b)) /\ free[b] + Cardinality(Places(b)) <= boots[s]
  BY DEF CopiesInv
<1>2. free[b] \in Nat /\ boots[s] \in Nat
  BY CountTypes
<1>3. boots'[s] = IF s = r THEN boots[s] + 1 ELSE boots[s]
  BY DEF TypeOK
<1>4. CASE s = r
  <2>1. IsFiniteSet(Places(b)') /\ Cardinality(Places(b)') <= Cardinality(Places(b)) + 1
    BY <1>1, <1>4, PlacesAdvertise
  <2>2. Cardinality(Places(b)) \in Nat /\ Cardinality(Places(b)') \in Nat
    BY <1>1, <2>1, FS_CardinalityType
  <2> QED
    BY <1>1, <1>2, <1>3, <1>4, <2>1, <2>2
<1>5. CASE s # r
  <2>1. b \notin Range(BlocksOf[r])
    BY <1>5, ServerAssumption DEF Range
  <2>2. IsFiniteSet(Places(b)') /\ Cardinality(Places(b)') <= Cardinality(Places(b))
    BY <1>1, <2>1, PlacesAdvertise DEF NoMore
  <2>3. Cardinality(Places(b)) \in Nat /\ Cardinality(Places(b)') \in Nat
    BY <1>1, <2>2, FS_CardinalityType
  <2> QED
    BY <1>1, <1>2, <1>3, <1>5, <2>2, <2>3
<1> QED
  BY <1>4, <1>5

LEMMA CopiesStep == CoreInv /\ CopiesInv /\ [Next]_vars => CopiesInv'
<1> SUFFICES ASSUME CoreInv, CopiesInv, [Next]_vars PROVE CopiesInv'
  OBVIOUS
<1>0. TypeOK /\ TypeOK' /\ CallInv /\ IdleHasNothing /\ BlockToEnqueue
  BY TypeStep DEF CoreInv, SafeInv, TypeInv
<1> USE HeldByThread, HeldByOwner
<1>1. ASSUME UNCHANGED <<free, boots, grant, hand>> PROVE CopiesInv'
  <2>1. \A x \in Holder : Held(x)' = Held(x)
    BY <1>1 DEF Held
  <2> QED
    BY <1>0, <1>1, <2>1, PlacesStay, CopiesKept
<1>2. ASSUME NEW t \in Thread, Dequeue(t) PROVE CopiesInv'
  <2>1. PICK b \in Block : /\ free[b] > 0
                           /\ free' = DequeuedFree(b)
                           /\ hand' = [hand EXCEPT ![t] = Append(@, b)]
    BY <1>2 DEF Dequeue
  <2>2. \A x \in Holder : Held(x)' = IF x = t THEN Append(Held(t), b) ELSE Held(x)
    BY <1>0, <1>2, <2>1 DEF Dequeue, Held, TypeOK
  <2> QED
    BY <1>0, <1>2, <2>1, <2>2, CopiesDequeue DEF Dequeue
<1>3. ASSUME NEW t \in Thread, EnqueueNext(t), hand[t] # <<>> PROVE CopiesInv'
  <2>1. \A x \in Holder : Held(x)' = IF x = t THEN Tail(Held(t)) ELSE Held(x)
    BY <1>0, <1>3 DEF EnqueueNext, Held, TypeOK
  <2> QED
    BY <1>0, <1>3, <2>1, CopiesEnqueue DEF EnqueueNext, NextInHand
<1>4. ASSUME NEW y \in Holder, NEW z \in Holder, y # z, UNCHANGED <<free, boots>>,
             \A x \in Holder :
               Held(x)' = IF x = z THEN Held(y) ELSE IF x = y THEN <<>> ELSE Held(x)
      PROVE  CopiesInv'
  <2> DEFINE from == [x \in Holder |-> IF x = z THEN y ELSE x]
  <2>1. DOMAIN <<>> = {}
    OBVIOUS
  <2>2. \A x \in Holder : DOMAIN Held(x)' # {} =>
          x # y /\ from[x] \in Holder /\ Held(x)' = Held(from[x])
    BY <1>4, <2>1
  <2>3. \A x, w \in Holder : x # y /\ w # y /\ from[x] = from[w] => x = w
    OBVIOUS
  <2> HIDE DEF from
  <2>4. \A b : NoMore(b)
    BY <2>2, <2>3, PlacesMove
  <2> QED
    BY <1>0, <1>4, <2>4, CopiesKept
<1>5. ASSUME NEW t \in Thread, Grant(t) PROVE CopiesInv'
  <2>1. owner[t] \in Owner /\ owner[t] # t
    BY <1>0, <1>5, CallerAssumption DEF Grant, CallInv
  <2>2. \A x \in Holder :
          Held(x)' = IF x = owner[t] THEN Held(t) ELSE IF x = t THEN <<>> ELSE Held(x)
    BY <1>0, <1>5, <2>1, CallerAssumption DEF Grant, Held, TypeOK, Holder
  <2> QED
    BY <1>4, <1>5, <2>1, <2>2 DEF Grant
<1>6. ASSUME NEW t \in Thread, NEW o \in Owner, FreeBlocks(t, o) PROVE CopiesInv'
  <2>1. \A x \in Holder :
          Held(x)' = IF x = t THEN Held(o) ELSE IF x = o THEN <<>> ELSE Held(x)
    BY <1>0, <1>6, CallerAssumption DEF FreeBlocks, Held, TypeOK, Holder
  <2>2. t # o
    BY CallerAssumption
  <2> QED
    BY <1>4, <1>6, <2>1, <2>2 DEF FreeBlocks
<1>7. ASSUME NEW t \in Thread, FreeThrows(t) PROVE CopiesInv'
  <2> DEFINE from == [x \in Holder |-> x]
  <2>1. \A x \in Holder : Held(x)' = IF x = t THEN <<>> ELSE Held(x)
    BY <1>0, <1>7 DEF FreeThrows, Held, TypeOK, Holder
  <2>2. \A x \in Holder : DOMAIN Held(x)' # {} =>
          from[x] \in Holder /\ Held(x)' = Held(from[x])
    BY <2>1
  <2>3. \A x, w \in Holder : from[x] = from[w] => x = w
    OBVIOUS
  <2> HIDE DEF from
  <2>4. \A b : NoMore(b)
    BY <2>2, <2>3, PlacesMove
  <2> QED
    BY <1>0, <1>7, <2>4, CopiesKept DEF FreeThrows
<1>8. ASSUME NEW t \in Thread, NEW s \in Server, AddBlocks(t, s) PROVE CopiesInv'
  <2>1. Held(t) = <<>>
    BY <1>0, <1>8 DEF AddBlocks, IdleHasNothing
  <2>2. \A x \in Holder : Held(x)' = IF x = t THEN BlocksOf[s] ELSE Held(x)
    BY <1>0, <1>8 DEF AddBlocks, Held, TypeOK, Holder
  <2> QED
    BY <1>0, <1>8, <2>1, <2>2, CopiesAdvertise DEF AddBlocks
<1>9. ASSUME NEW t \in Thread,
             \/ \E o \in Owner, n \in 1..MaxCount : Allocate(t, o, n)
             \/ Miss(t) \/ Insert(t) \/ Erase(t) \/ FreeErased(t)
      PROVE  CopiesInv'
  BY <1>1, <1>9 DEF Allocate, Miss, Insert, Erase, FreeErased
<1>10. CASE UNCHANGED vars
  BY <1>1, <1>10 DEF vars
<1>11. ASSUME NEW t \in Thread, Rollback(t) \/ Enqueue(t) PROVE CopiesInv'
  BY <1>0, <1>3, <1>11 DEF Rollback, Enqueue, BlockToEnqueue
<1> QED
  BY <1>2, <1>5, <1>6, <1>7, <1>8, <1>9, <1>10, <1>11
     DEF Next, Call, AllocateThrows, Continue

\* However often storage servers are started and whatever calls interleave, a
\* name is in the queue and in vectors no more often than it was advertised.
THEOREM CopiesAreBounded == Spec => []CopiesBounded
<1>1. Init => CopiesInv
  <2> SUFFICES ASSUME Init, NEW s \in Server, NEW b \in Range(BlocksOf[s])
               PROVE  IsFiniteSet(Places(b)) /\ free[b] + Cardinality(Places(b)) <= boots[s]
    BY DEF CopiesInv
  <2>1. \A x \in Holder : DOMAIN Held(x) = {}
    BY DEF Init, Held, Holder
  <2>2. Places(b) = {}
    BY <2>1 DEF Places
  <2>3. free[b] = 0 /\ boots[s] = 0
    BY ServerAssumption DEF Init, Range
  <2> QED
    BY <2>2, <2>3, FS_EmptySet
<1>2. CopiesInv => CopiesBounded
  BY DEF CopiesInv, CopiesBounded
<1>3. AllocatorInv => CoreInv
  BY DEF AllocatorInv
<1> QED
  BY <1>1, <1>2, <1>3, AllocatorAlways, CopiesStep, PTL DEF Spec

-----------------------------------------------------------------------------
(* The number of blocks                                                    *)

Advertisers == {s \in Server : boots[s] > 0}
Registered == UNION {Range(BlocksOf[s]) : s \in Advertisers}
Queued == {b \in Block : free[b] > 0}

\* Only advertised names are anywhere, and finitely many were.
RegisteredInv ==
  /\ IsFiniteSet(Advertisers)
  /\ \A b \in Block : Placed(b) => b \in Registered

LEMMA RegisteredStep == CoreInv /\ RegisteredInv /\ [Next]_vars => RegisteredInv'
<1> SUFFICES ASSUME CoreInv, RegisteredInv, [Next]_vars PROVE RegisteredInv'
  OBVIOUS
<1>0. TypeOK /\ CallInv /\ IdleHasNothing /\ BlockToEnqueue
  BY DEF CoreInv, SafeInv, TypeInv
<1> USE HeldByThread, HeldByOwner
<1>1. ASSUME boots' = boots, \A b \in Block : Placed(b)' => Placed(b)
      PROVE  RegisteredInv'
  <2>1. Advertisers' = Advertisers /\ Registered' = Registered
    BY <1>1 DEF Advertisers, Registered
  <2> QED
    BY <1>1, <2>1 DEF RegisteredInv
<1>2. ASSUME boots' = boots, free' = free,
             \A x \in Holder : \A b \in Range(Held(x)') :
               \E y \in Holder : b \in Range(Held(y))
      PROVE  RegisteredInv'
  <2>1. ASSUME NEW b \in Block, Placed(b)' PROVE Placed(b)
    BY <1>2, <2>1 DEF Placed, Holder
  <2> QED
    BY <1>1, <1>2, <2>1
<1>3. ASSUME UNCHANGED <<free, boots, grant, hand>> PROVE RegisteredInv'
  BY <1>2, <1>3 DEF Held
<1>4. ASSUME NEW t \in Thread, Dequeue(t) PROVE RegisteredInv'
  <2>1. PICK c \in Block : /\ free[c] > 0
                           /\ free' = DequeuedFree(c)
                           /\ hand' = [hand EXCEPT ![t] = Append(@, c)]
    BY <1>4 DEF Dequeue
  <2>2. \A x \in Holder : Held(x)' = IF x = t THEN Append(Held(t), c) ELSE Held(x)
    BY <1>0, <1>4, <2>1 DEF Dequeue, Held, TypeOK
  <2>3. Range(Append(hand[t], c)) = Range(hand[t]) \cup {c}
    <3>1. hand[t] \in Seq(Block)
      BY <1>0 DEF TypeOK
    <3> QED
      BY <3>1, RangeAppend
  <2>4. ASSUME NEW b \in Block, Placed(b)' PROVE Placed(b)
    <3>1. CASE b = c
      BY <2>1, <3>1 DEF Placed
    <3>2. CASE b # c
      <4>1. free'[b] = free[b]
        BY <1>0, <2>1, <3>2 DEF DequeuedFree, TypeOK
      <4>2. ASSUME NEW x \in Holder, b \in Range(Held(x)') PROVE b \in Range(Held(x))
        <5>1. CASE x = t
          <6>1. Held(x)' = Append(hand[t], c) /\ Held(x) = hand[t]
            BY <2>2, <5>1
          <6> QED
            BY <2>3, <3>2, <4>2, <6>1
        <5>2. CASE x # t
          BY <2>2, <4>2, <5>2
        <5> QED
          BY <5>1, <5>2
      <4> QED
        BY <2>4, <4>1, <4>2 DEF Placed, Holder
    <3> QED
      BY <3>1, <3>2
  <2> QED
    BY <1>1, <1>4, <2>4 DEF Dequeue
<1>5. ASSUME NEW t \in Thread, EnqueueNext(t), hand[t] # <<>> PROVE RegisteredInv'
  <2>1. \A x \in Holder : Held(x)' = IF x = t THEN Tail(Held(t)) ELSE Held(x)
    BY <1>0, <1>5 DEF EnqueueNext, Held, TypeOK
  <2>2. Range(hand[t]) = Range(Tail(hand[t])) \cup {Head(hand[t])}
    <3>1. hand[t] \in Seq(Block)
      BY <1>0 DEF TypeOK
    <3> QED
      BY <1>5, <3>1, RangeTail
  <2>3. ASSUME NEW b \in Block, Placed(b)' PROVE Placed(b)
    <3>1. CASE b = Head(hand[t])
      BY <2>2, <3>1 DEF Placed
    <3>2. CASE b # Head(hand[t])
      <4>1. free'[b] = free[b]
        BY <1>0, <1>5, <3>2 DEF EnqueueNext, EnqueuedFree, NextInHand, TypeOK
      <4>2. \A x \in Holder : b \in Range(Held(x)') => b \in Range(Held(x))
        BY <2>1, <2>2
      <4> QED
        BY <2>3, <4>1, <4>2 DEF Placed, Holder
    <3> QED
      BY <3>1, <3>2
  <2> QED
    BY <1>1, <1>5, <2>3 DEF EnqueueNext
<1>6. ASSUME NEW t \in Thread, Grant(t) PROVE RegisteredInv'
  <2>1. owner[t] \in Owner
    BY <1>0, <1>6 DEF Grant, CallInv
  <2>2. \A x \in Holder :
          Held(x)' = IF x = owner[t] THEN Held(t) ELSE IF x = t THEN <<>> ELSE Held(x)
    BY <1>0, <1>6, <2>1, CallerAssumption DEF Grant, Held, TypeOK, Holder
  <2>3. Range(<<>>) = {}
    BY DEF Range
  <2> QED
    BY <1>2, <1>6, <2>2, <2>3 DEF Grant
<1>7. ASSUME NEW t \in Thread, NEW o \in Owner, FreeBlocks(t, o) PROVE RegisteredInv'
  <2>1. \A x \in Holder :
          Held(x)' = IF x = t THEN Held(o) ELSE IF x = o THEN <<>> ELSE Held(x)
    BY <1>0, <1>7, CallerAssumption DEF FreeBlocks, Held, TypeOK, Holder
  <2>2. Range(<<>>) = {}
    BY DEF Range
  <2> QED
    BY <1>2, <1>7, <2>1, <2>2 DEF FreeBlocks
<1>8. ASSUME NEW t \in Thread, FreeThrows(t) PROVE RegisteredInv'
  <2>1. \A x \in Holder : Held(x)' = IF x = t THEN <<>> ELSE Held(x)
    BY <1>0, <1>8 DEF FreeThrows, Held, TypeOK, Holder
  <2>2. Range(<<>>) = {}
    BY DEF Range
  <2> QED
    BY <1>2, <1>8, <2>1, <2>2 DEF FreeThrows
<1>9. ASSUME NEW t \in Thread, NEW s \in Server, AddBlocks(t, s) PROVE RegisteredInv'
  <2>1. \A x \in Holder : Held(x)' = IF x = t THEN BlocksOf[s] ELSE Held(x)
    BY <1>0, <1>9 DEF AddBlocks, Held, TypeOK, Holder
  <2>2. /\ \A r \in Server : boots'[r] = IF r = s THEN boots[s] + 1 ELSE boots[r]
        /\ boots[s] \in Nat /\ free' = free
    BY <1>0, <1>9 DEF AddBlocks, TypeOK
  <2>3. Advertisers' = Advertisers \cup {s}
    BY <2>2 DEF Advertisers
  <2>4. IsFiniteSet(Advertisers')
    BY <2>3, FS_AddElement DEF RegisteredInv
  <2>5. Registered' = Registered \cup Range(BlocksOf[s])
    BY <2>3 DEF Registered
  <2>6. ASSUME NEW b \in Block, Placed(b)' PROVE b \in Registered'
    <3>1. Placed(b) \/ b \in Range(BlocksOf[s])
      BY <2>1, <2>2, <2>6 DEF Placed, Holder
    <3> QED
      BY <2>5, <3>1 DEF RegisteredInv
  <2> QED
    BY <2>4, <2>6 DEF RegisteredInv
<1>10. ASSUME NEW t \in Thread,
              \/ \E o \in Owner, n \in 1..MaxCount : Allocate(t, o, n)
              \/ Miss(t) \/ Insert(t) \/ Erase(t) \/ FreeErased(t)
       PROVE  RegisteredInv'
  BY <1>3, <1>10 DEF Allocate, Miss, Insert, Erase, FreeErased
<1>11. CASE UNCHANGED vars
  BY <1>3, <1>11 DEF vars
<1>12. ASSUME NEW t \in Thread, Rollback(t) \/ Enqueue(t) PROVE RegisteredInv'
  BY <1>0, <1>5, <1>12 DEF Rollback, Enqueue, BlockToEnqueue
<1> QED
  BY <1>4, <1>6, <1>7, <1>8, <1>9, <1>10, <1>11, <1>12
     DEF Next, Call, AllocateThrows, Continue

\* The vector of a server is finite.
LEMMA RegisteredFinite == RegisteredInv => IsFiniteSet(Registered)
<1> SUFFICES ASSUME RegisteredInv PROVE IsFiniteSet(Registered)
  OBVIOUS
<1> DEFINE f == [s \in Advertisers |-> Range(BlocksOf[s])]
           images == {f[s] : s \in Advertisers}
<1>1. ASSUME NEW s \in Advertisers PROVE IsFiniteSet(f[s])
  <2>1. BlocksOf[s] \in Seq(Block)
    BY ServerAssumption DEF Advertisers
  <2>2. DOMAIN BlocksOf[s] = 1 .. Len(BlocksOf[s]) /\ Len(BlocksOf[s]) \in Nat
    BY <2>1
  <2>3. IsFiniteSet(DOMAIN BlocksOf[s])
    BY <2>2, FS_Interval
  <2>4. BlocksOf[s] \in Surjection(DOMAIN BlocksOf[s], Range(BlocksOf[s]))
    BY <2>1 DEF Surjection, Range
  <2> QED
    BY <2>3, <2>4, FS_Surjection
<1>2. f \in Surjection(Advertisers, images)
  BY DEF Surjection
<1>3. IsFiniteSet(images)
  BY <1>2, FS_Surjection DEF RegisteredInv
<1>4. Registered = UNION images
  BY DEF Registered
<1> HIDE DEF f
<1>5. \A T \in images : IsFiniteSet(T)
  BY <1>1
<1> HIDE DEF images
<1> QED
  BY <1>3, <1>4, <1>5, FS_UNION

\* While no name is in the queue twice, it has as many entries as names.
LEMMA EntriesAreQueued ==
  ASSUME TypeOK, \A b \in Block : free[b] <= 1, IsFiniteSet(Queued)
  PROVE  Cardinality(Entries) = Cardinality(Queued)
<1> DEFINE f == [b \in Queued |-> <<b, 1>>]
<1>1. \A b \in Block : free[b] = 0 \/ free[b] = 1
  BY DEF TypeOK
<1>2. Entries = {<<b, 1>> : b \in Queued}
  <2>1. ASSUME NEW p \in Entries PROVE \E b \in Queued : p = <<b, 1>>
    <3>1. PICK b \in Block : p \in {b} \X (1 .. free[b])
      BY DEF Entries
    <3>2. PICK i \in 1 .. free[b] : p = <<b, i>>
      BY <3>1
    <3>3. free[b] = 1 /\ i = 1
      BY <1>1, <3>2
    <3> QED
      BY <3>2, <3>3 DEF Queued
  <2>2. ASSUME NEW b \in Queued PROVE <<b, 1>> \in Entries
    <3>1. b \in Block /\ free[b] = 1
      BY <1>1 DEF Queued
    <3>2. <<b, 1>> \in {b} \X (1 .. free[b])
      BY <3>1
    <3> QED
      BY <3>1, <3>2 DEF Entries
  <2> QED
    BY <2>1, <2>2
<1>3. f \in Bijection(Queued, Entries)
  <2>1. f \in Surjection(Queued, Entries)
    BY <1>2 DEF Surjection
  <2>2. f \in Injection(Queued, Entries)
    BY <1>2 DEF Injection, IsInjective
  <2> QED
    BY <2>1, <2>2 DEF Bijection
<1> QED
  BY <1>3, FS_Bijection DEF ExistsBijection

\* Between calls every registered block is in the queue or in the map.
LEMMA TotalBetweenCalls ==
  AllocatorInv /\ RegisteredInv /\ RegisteredOnce => TotalIsRegistered
<1> SUFFICES ASSUME AllocatorInv, RegisteredInv, RegisteredOnce,
                    \A t \in Thread : pc[t] = "idle"
             PROVE  NumTotalBlocks = Cardinality(Registered)
  BY DEF TotalIsRegistered, Registered, Advertisers
<1>0. /\ TypeOK /\ OnePlace /\ IdleHasNothing
      /\ allocated = Granted \cup InCalls
      /\ \A b \in Registered : Placed(b)
  BY DEF AllocatorInv, CoreInv, SafeInv, TypeInv, PlaceInv, ExclusiveUse, MapInv, MapIsExact,
         Granted, InCalls, NothingLost, Placed, Registered, Advertisers
<1>1. \A t \in Thread : hand[t] = <<>> /\ Range(hand[t]) = {}
  BY <1>0 DEF IdleHasNothing, Range
<1>2. allocated = Granted
  <2>1. \A t \in Thread : MapOfThread(t) = {}
    BY DEF MapOfThread, MapIndices
  <2> QED
    BY <1>0, <2>1 DEF InCalls
<1>3. ASSUME NEW b \in Block PROVE Placed(b) <=> b \in Queued \/ b \in Granted
  BY <1>1, HeldByThread, HeldByOwner DEF Placed, Queued, Granted, Holder
<1>4. Granted \subseteq Block /\ Registered \subseteq Block
  BY <1>0, ServerAssumption DEF Granted, Registered, Advertisers, TypeOK, Range
<1>5. Registered = Queued \cup Granted
  BY <1>0, <1>3, <1>4 DEF RegisteredInv, Queued
<1>6. Queued \cap Granted = {}
  <2>1. ASSUME NEW o \in Owner, NEW b \in Range(grant[o]) PROVE free[b] = 0
    BY <1>0, <2>1, HeldByOwner DEF OnePlace, Range
  <2> QED
    BY <2>1 DEF Queued, Granted
<1>7. IsFiniteSet(Registered) /\ IsFiniteSet(Queued) /\ IsFiniteSet(Granted)
  <2>1. IsFiniteSet(Registered)
    BY RegisteredFinite
  <2> QED
    BY <1>5, <2>1, FS_Subset
<1>8. Cardinality(Registered) = Cardinality(Queued) + Cardinality(Granted)
  <2>1. Cardinality(Registered) =
          Cardinality(Queued) + Cardinality(Granted) - Cardinality(Queued \cap Granted)
    BY <1>5, <1>7, FS_Union
  <2>2. Cardinality(Queued \cap Granted) = 0
    BY <1>6, FS_EmptySet
  <2>3. Cardinality(Queued) \in Nat /\ Cardinality(Granted) \in Nat
    BY <1>7, FS_CardinalityType
  <2> QED
    BY <2>1, <2>2, <2>3
<1>9. Cardinality(Entries) = Cardinality(Queued)
  BY <1>0, <1>7, EntriesAreQueued DEF OnePlace
<1> QED
  BY <1>2, <1>8, <1>9 DEF NumTotalBlocks, QueueSize

\* When no storage server is started twice, num_total_blocks() between calls
\* is the number of blocks the servers registered.
THEOREM TotalIsExact ==
  ASSUME MaxBoots = 1
  PROVE  Spec => []TotalIsRegistered
<1>1. Init => RegisteredInv
  <2> SUFFICES ASSUME Init PROVE RegisteredInv
    OBVIOUS
  <2>1. Advertisers = {}
    BY DEF Init, Advertisers
  <2>2. \A b \in Block : ~Placed(b)
    BY DEF Init, Placed, Holder, Held, Range
  <2> QED
    BY <2>1, <2>2, FS_EmptySet DEF RegisteredInv
<1>2. AllocatorInv => RegisteredOnce /\ CoreInv
  <2> SUFFICES ASSUME AllocatorInv, NEW s \in Server PROVE boots[s] <= 1
    BY DEF RegisteredOnce, AllocatorInv
  <2>1. boots[s] \in 0 .. MaxBoots
    BY DEF AllocatorInv, CoreInv, SafeInv, TypeInv, TypeOK
  <2> QED
    BY <2>1
<1> QED
  BY <1>1, <1>2, AllocatorAlways, RegisteredStep, TotalBetweenCalls, PTL DEF Spec
=============================================================================
