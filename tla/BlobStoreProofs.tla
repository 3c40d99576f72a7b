-------------------------- MODULE BlobStoreProofs --------------------------
(***************************************************************************)
(* Type correctness of BlobStore, that a remove erases the entry it found, *)
(* and that every inode owns its space, for any clients, names, sizes and  *)
(* overlap of calls.                                                       *)
(***************************************************************************)
EXTENDS BlobStore, TLAPS

-----------------------------------------------------------------------------
(* The division of an object into blocks                                   *)

\* Whole blocks and a rest smaller than a block make up the size.
LEMMA BlocksAndOdds ==
  ASSUME NEW n \in Size
  PROVE  /\ FullBlocks(n) \in Nat
         /\ Odds(n) \in 0 .. Blocksize - 1
         /\ n >= Blocksize => FullBlocks(n) >= 1
<1> DEFINE B == Blocksize
           q == n \div B
<1>1. n \in Nat /\ B \in Nat /\ B > 0
  BY SizeAssumption
<1>2. q \in Int /\ B * q <= n /\ n < B * (q + 1)
  BY <1>1
<1>3. q >= 0
  BY <1>1, <1>2
<1>4. n >= B => q >= 1
  BY <1>1, <1>2
<1> QED
  BY <1>1, <1>2, <1>3, <1>4 DEF FullBlocks, Odds

LEMMA TotalType == \A n \in Size : TotalBlocks(n) \in Nat
  BY BlocksAndOdds DEF TotalBlocks

-----------------------------------------------------------------------------
(* Type correctness                                                        *)

\* What a call that is under way has in its locals.
CallOK ==
  \A c \in Client :
    /\ pc[c] # "idle" => name[c] \in Name
    /\ pc[c] \in {"insert", "write", "read", "erase", "free"} => inode[c] \in Inode

TypeInv == TypeOK /\ CallOK /\ puts \in Seq([name : Name, pieces : Nat]) /\ Len(puts) <= MaxPuts

LEMMA TypeInit == Init => TypeInv
<1> SUFFICES ASSUME Init PROVE TypeInv
  OBVIOUS
<1>1. TypeOK
  BY BoundAssumption DEF Init, TypeOK, Label
<1>2. CallOK
  BY DEF Init, CallOK
<1> QED
  BY <1>1, <1>2, BoundAssumption DEF Init, TypeInv

\* The inode of a small object.
LEMMA SmallType ==
  ASSUME NEW b \in Block, NEW n \in Size, NEW l \in Nat
  PROVE  [slices |-> <<[place |-> b, size |-> n]>>, lifetime |-> l] \in Inode
  BY SizeAssumption DEF Inode, Piece

\* The inode of a large one.
LEMMA LargeType ==
  ASSUME NEW n \in Size, NEW blocks \in [1 .. TotalBlocks(n) -> Block], NEW l \in Nat
  PROVE  [slices |-> SlicesOver(blocks, n), lifetime |-> l] \in Inode
<1>1. FullBlocks(n) \in Nat /\ Odds(n) \in Nat /\ TotalBlocks(n) \in Nat
  BY BlocksAndOdds, TotalType, SizeAssumption
<1>2. \A i \in 1 .. TotalBlocks(n) :
        [place |-> blocks[i], size |-> IF i <= FullBlocks(n) THEN Blocksize ELSE Odds(n)]
          \in Piece
  BY <1>1, SizeAssumption DEF Piece
<1>3. SlicesOver(blocks, n) \in [1 .. TotalBlocks(n) -> Piece]
  BY <1>2 DEF SlicesOver
<1>4. SlicesOver(blocks, n) \in Seq(Piece)
  BY <1>1, <1>3
<1> QED
  BY <1>4 DEF Inode

LEMMA LifetimeType == Known \cup {IntMax} \subseteq Nat
  BY LifetimeAssumption

\* A call enters a label with a name and, where the label needs one, an inode.
LEMMA BeginType ==
  ASSUME TypeInv, NEW c \in Client, NEW l \in Label, NEW n \in Name,
         NEW ino \in Inode \cup {NoInode},
         l \in {"insert", "write", "read", "erase", "free"} => ino \in Inode,
         Begin(c, l, n, ino)
  PROVE  /\ pc' \in [Client -> Label]
         /\ name' \in [Client -> Name \cup {NoName}]
         /\ inode' \in [Client -> Inode \cup {NoInode}]
         /\ idx' \in [Client -> Nat]
         /\ CallOK'
<1> USE DEF TypeInv, TypeOK, CallOK, Begin
<1>1. pc' \in [Client -> Label] /\ name' \in [Client -> Name \cup {NoName}]
  OBVIOUS
<1>2. inode' \in [Client -> Inode \cup {NoInode}] /\ idx' \in [Client -> Nat]
  OBVIOUS
<1>3. CallOK'
  OBVIOUS
<1> QED
  BY <1>1, <1>2, <1>3

LEMMA ReturnType ==
  ASSUME TypeInv, NEW c \in Client, Return(c)
  PROVE  /\ pc' \in [Client -> Label]
         /\ name' \in [Client -> Name \cup {NoName}]
         /\ inode' \in [Client -> Inode \cup {NoInode}]
         /\ idx' \in [Client -> Nat]
         /\ CallOK'
  BY DEF TypeInv, TypeOK, CallOK, Return, Label

\* A new put is numbered and recorded.
LEMMA NewPutType ==
  ASSUME TypeInv, NEW c \in Client, NEW n \in Name, NEW k \in Nat, NewPut(c, n, k)
  PROVE  /\ puts' \in Seq([name : Name, pieces : Nat]) /\ Len(puts') <= MaxPuts
         /\ put' \in [Client -> 0 .. MaxPuts]
         /\ last' \in [Name -> 0 .. MaxPuts]
<1> DEFINE new == [name |-> n, pieces |-> k]
<1>1. new \in [name : Name, pieces : Nat]
  OBVIOUS
<1>2. puts' = Append(puts, new) /\ Len(puts) < MaxPuts /\ Len(puts) \in Nat
  BY DEF NewPut, TypeInv
<1>3. puts' \in Seq([name : Name, pieces : Nat]) /\ Len(puts') = Len(puts) + 1
  BY <1>1, <1>2 DEF TypeInv
<1>4. put' \in [Client -> 0 .. MaxPuts]
  BY <1>2, BoundAssumption DEF NewPut, TypeInv, TypeOK
<1> QED
  BY <1>2, <1>3, <1>4, BoundAssumption DEF NewPut, TypeInv, TypeOK

LEMMA PutDoneType ==
  ASSUME TypeInv, NEW c \in Client, pc[c] # "idle", PutDone(c)
  PROVE  /\ pc' \in [Client -> Label]
         /\ name' \in [Client -> Name \cup {NoName}]
         /\ inode' \in [Client -> Inode \cup {NoInode}]
         /\ idx' \in [Client -> Nat]
         /\ CallOK'
         /\ put' \in [Client -> 0 .. MaxPuts]
         /\ last' \in [Name -> 0 .. MaxPuts]
         /\ puts' = puts
<1>1. put' \in [Client -> 0 .. MaxPuts] /\ last' \in [Name -> 0 .. MaxPuts]
  BY BoundAssumption DEF PutDone, TypeInv, TypeOK, CallOK
<1> QED
  BY <1>1, ReturnType DEF PutDone

LEMMA TypeStep == TypeInv /\ [Next]_vars => TypeInv'
<1> SUFFICES ASSUME TypeInv, [Next]_vars PROVE TypeInv'
  OBVIOUS
<1>0. TypeInv
  OBVIOUS
<1> USE DEF TypeInv, TypeOK
<1>1. ASSUME NEW c \in Client, NEW n \in Name, NEW size \in Size, NEW l \in Nat,
             PutSmall(c, n, size, l)
      PROVE  TypeInv'
  <2>1. PICK b \in avail :
          /\ Take({b})
          /\ live' = [live EXCEPT ![PoolFor(l)] = @ \cup {b}]
          /\ Begin(c, "insert", n, [slices |-> <<[place |-> b, size |-> size]>>,
                                    lifetime |-> l])
    BY <1>1 DEF PutSmall
  <2>2. [slices |-> <<[place |-> b, size |-> size]>>, lifetime |-> l] \in Inode
    BY <2>1, SmallType
  <2>3. avail' \subseteq Block /\ leased' \subseteq Block
    BY <2>1 DEF Take
  <2>4. live' \in [Threshold -> SUBSET Block]
    BY <2>1
  <2>5. NewPut(c, n, 1) /\ UNCHANGED <<index, mtx, mem, s3, lost>>
    BY <1>1 DEF PutSmall
  <2> QED
    BY <1>0, <2>1, <2>2, <2>3, <2>4, <2>5, BeginType, NewPutType DEF Label
<1>2. ASSUME NEW c \in Client, NEW n \in Name, NEW size \in Size, NEW l \in Nat,
             PutLarge(c, n, size, l)
      PROVE  TypeInv'
  <2>1. PICK blocks \in Injection(1 .. TotalBlocks(size), avail) :
          /\ Take(Range(blocks))
          /\ Begin(c, "insert", n, [slices |-> SlicesOver(blocks, size), lifetime |-> l])
    BY <1>2 DEF PutLarge
  <2>2. blocks \in [1 .. TotalBlocks(size) -> Block]
    BY <2>1 DEF Injection
  <2>3. [slices |-> SlicesOver(blocks, size), lifetime |-> l] \in Inode
    BY <2>2, LargeType
  <2>4. avail' \subseteq Block /\ leased' \subseteq Block
    BY <2>1, <2>2 DEF Take, Range
  <2>5. NewPut(c, n, TotalBlocks(size)) /\ UNCHANGED <<live, index, mtx, mem, s3, lost>>
    BY <1>2 DEF PutLarge
  <2> QED
    BY <1>0, <2>1, <2>3, <2>4, <2>5, BeginType, NewPutType, TotalType DEF Label
<1>3. ASSUME NEW c \in Client, NEW n \in Name, PutRefused(c, n) PROVE TypeInv'
  BY <1>0, <1>3, BeginType, NewPutType DEF PutRefused, store, Label
<1>4. ASSUME NEW c \in Client, Insert(c) PROVE TypeInv'
  <2>1. inode[c] \in Inode /\ name[c] \in Name
    BY <1>4 DEF Insert, CallOK
  <2>2. index' \in [Name -> Inode \cup {NoInode}]
    BY <1>4, <2>1 DEF Insert, Linked
  <2> QED
    BY <1>4, <2>1, <2>2 DEF Insert, Label, CallOK, poolVars, ghost
<1>5. ASSUME NEW c \in Client, ReplyLost(c) PROVE TypeInv'
  <2>1. name[c] \in Name
    BY <1>5 DEF ReplyLost, CallOK
  <2>2. lost' \in 0 .. MaxLost
    BY <1>5, BoundAssumption DEF ReplyLost
  <2> QED
    BY <1>0, <1>5, <2>1, <2>2, BeginType DEF ReplyLost, store, ghost, Label
<1>6. ASSUME NEW c \in Client, WriteSlice(c) PROVE TypeInv'
  <2>1. \A b \in Block : mem'[b] = <<>> \/ mem'[b] \in Nat \X Nat
    BY <1>6, BoundAssumption DEF WriteSlice
  <2>2. CASE idx[c] = Len(inode[c].slices)
    <3>1. PutDone(c) /\ pc[c] # "idle"
      BY <1>6, <2>2 DEF WriteSlice
    <3> QED
      BY <1>0, <1>6, <2>1, <3>1, PutDoneType DEF WriteSlice, poolVars
  <2>3. CASE idx[c] # Len(inode[c].slices)
    <3>1. idx' = [idx EXCEPT ![c] = @ + 1] /\ UNCHANGED <<pc, name, inode, got, ghost>>
      BY <1>6, <2>3 DEF WriteSlice
    <3>2. idx' \in [Client -> Nat]
      BY <3>1
    <3>3. idx' \in [Client -> Nat] /\ UNCHANGED <<pc, name, inode, puts, put, last>>
      BY <3>1, <3>2 DEF ghost
    <3>4. UNCHANGED <<avail, leased, live, index, mtx, s3, lost>>
      BY <1>6 DEF WriteSlice, poolVars
    <3> QED
      BY <1>0, <2>1, <3>3, <3>4 DEF CallOK
  <2> QED
    BY <2>2, <2>3
<1>7. ASSUME NEW c \in Client, WriteS3(c) PROVE TypeInv'
  <2>1. PutDone(c) /\ pc[c] # "idle"
    BY <1>7 DEF WriteS3
  <2>2. s3' \in [Name -> 0 .. MaxPuts]
    BY <1>7 DEF WriteS3, CallOK
  <2> QED
    BY <1>0, <1>7, <2>1, <2>2, PutDoneType DEF WriteS3, store
<1>8. ASSUME NEW c \in Client, NEW n \in Name, GetFound(c, n) PROVE TypeInv'
  <2>1. index[n] \in Inode
    BY <1>8 DEF GetFound, InMemory
  <2> QED
    BY <1>0, <1>8, <2>1, BeginType DEF GetFound, store, ghost, Label
<1>9. ASSUME NEW c \in Client, NEW n \in Name, GetMissing(c, n) PROVE TypeInv'
  BY <1>0, <1>9, BeginType DEF GetMissing, store, ghost, Label
<1>10. ASSUME NEW c \in Client, ReadSlice(c) PROVE TypeInv'
  <2>1. UNCHANGED <<avail, leased, live, index, mtx, mem, s3, lost, name, inode, puts, put, last>>
    BY <1>10 DEF ReadSlice, store, ghost
  <2>2. /\ pc[c] = "read" /\ idx' \in [Client -> Nat]
        /\ pc' = pc \/ pc' = [pc EXCEPT ![c] = "got"]
    BY <1>10 DEF ReadSlice
  <2> QED
    BY <1>0, <2>1, <2>2 DEF Label, CallOK
<1>11. ASSUME NEW c \in Client, ReadS3(c) PROVE TypeInv'
  BY <1>11 DEF ReadS3, store, ghost, Label, CallOK
<1>12. ASSUME NEW c \in Client, GetReturns(c) PROVE TypeInv'
  BY <1>0, <1>12, ReturnType DEF GetReturns, store, ghost
<1>13. ASSUME NEW c \in Client, NEW n \in Name, RemoveMissing(c, n) PROVE TypeInv'
  <2>1. last' \in [Name -> 0 .. MaxPuts]
    BY <1>13, BoundAssumption DEF RemoveMissing
  <2> QED
    BY <1>13, <2>1 DEF RemoveMissing, store, call, CallOK
<1>14. ASSUME NEW c \in Client, NEW n \in Name, RemoveFind(c, n) PROVE TypeInv'
  <2>1. index[n] \in Inode
    BY <1>14 DEF RemoveFind
  <2> QED
    BY <1>0, <1>14, <2>1, BeginType DEF RemoveFind, poolVars, ghost, Label
<1>15. ASSUME NEW c \in Client, Erase(c) PROVE TypeInv'
  <2>1. last' \in [Name -> 0 .. MaxPuts]
    BY <1>15, BoundAssumption DEF Erase, CallOK
  <2> QED
    BY <1>15, <2>1 DEF Erase, poolVars, Label, CallOK
<1>16. ASSUME NEW c \in Client, FreeSlice(c) PROVE TypeInv'
  <2>1. avail' \subseteq Block /\ leased' \subseteq Block /\ live' \in [Threshold -> SUBSET Block]
    BY <1>16 DEF FreeSlice, GiveBack
  <2> QED
    BY <1>0, <1>16, <2>1, ReturnType DEF FreeSlice, ghost
<1>17. ASSUME NEW c \in Client, FreeBlocks(c) PROVE TypeInv'
  <2>1. avail' \subseteq Block /\ leased' \subseteq Block
    BY <1>17 DEF FreeBlocks, GiveBack
  <2> QED
    BY <1>0, <1>17, <2>1, ReturnType DEF FreeBlocks, ghost
<1>18. CASE UNCHANGED vars
  BY <1>18 DEF vars, store, call, ghost, CallOK
<1> QED
  BY <1>1, <1>2, <1>3, <1>4, <1>5, <1>6, <1>7, <1>8, <1>9, <1>10, <1>11, <1>12, <1>13,
     <1>14, <1>15, <1>16, <1>17, <1>18, LifetimeType DEF Next, Call, Continue, Put

\* Every variable of the store, its clients and the calls between them keeps
\* its type: the inodes are well formed, whatever is refused, lost or overlaps
\* (blob_store.cpp, hive_client.cpp).
THEOREM BlobTypeCorrect == Spec => []TypeOK
<1>1. TypeInv => TypeOK
  BY DEF TypeInv
<1> QED
  BY <1>1, TypeInit, TypeStep, PTL DEF Spec

-----------------------------------------------------------------------------
(* remove erases what it found                                             *)

EraseInv ==
  \A c \in Client : pc[c] = "erase" =>
    mtx = c /\ index[name[c]] = inode[c] /\ index[name[c]] # NoInode

\* Only the holder of mtx_ erases; an insert leaves an existing entry alone.
LEMMA EraseStep == TypeInv /\ EraseInv /\ [Next]_vars => EraseInv'
<1> SUFFICES ASSUME TypeInv, EraseInv, [Next]_vars PROVE EraseInv'
  OBVIOUS
<1> USE DEF TypeInv, TypeOK, EraseInv
<1>1. ASSUME UNCHANGED <<mtx, index>>,
             \A c \in Client : pc'[c] = "erase" =>
               pc[c] = "erase" /\ name'[c] = name[c] /\ inode'[c] = inode[c]
      PROVE  EraseInv'
  BY <1>1
<1>2. ASSUME NEW c \in Client, NEW n \in Name, NEW ino, NEW l \in Label,
             Begin(c, l, n, ino), l # "erase", UNCHANGED <<mtx, index>>
      PROVE  EraseInv'
  BY <1>1, <1>2 DEF Begin
<1>3. ASSUME NEW c \in Client, Return(c), UNCHANGED <<mtx, index>>
      PROVE  EraseInv'
  BY <1>1, <1>3 DEF Return
<1>4. ASSUME NEW c \in Client, Insert(c) PROVE EraseInv'
  <2>1. UNCHANGED <<mtx, name, inode>> /\ pc' = [pc EXCEPT ![c] = "write"]
    BY <1>4 DEF Insert
  <2>2. \A n \in Name : index[n] # NoInode => index'[n] = index[n]
    BY <1>4 DEF Insert, Linked
  <2> QED
    BY <2>1, <2>2 DEF CallOK
<1>5. ASSUME NEW c \in Client, NEW n \in Name, RemoveFind(c, n) PROVE EraseInv'
  <2>1. \A d \in Client : pc[d] # "erase"
    BY <1>5, CallerAssumption DEF RemoveFind
  <2> QED
    BY <1>5, <2>1 DEF RemoveFind, Begin
<1>6. ASSUME NEW c \in Client, Erase(c) PROVE EraseInv'
  <2>1. \A d \in Client : pc[d] = "erase" => d = c
    BY <1>6 DEF Erase
  <2> QED
    BY <1>6, <2>1 DEF Erase
<1>7. ASSUME NEW c \in Client, NEW n \in Name,
             \/ Put(c, n) \/ GetFound(c, n) \/ GetMissing(c, n) \/ RemoveMissing(c, n)
      PROVE  EraseInv'
  BY <1>1, <1>2, <1>7 DEF Put, PutSmall, PutLarge, PutRefused, GetFound, GetMissing,
     RemoveMissing, store, call, Label
<1>8. ASSUME NEW c \in Client, WriteSlice(c) PROVE EraseInv'
  BY <1>1, <1>3, <1>8 DEF WriteSlice, PutDone
<1>9. ASSUME NEW c \in Client, ReplyLost(c) PROVE EraseInv'
  BY <1>2, <1>9 DEF ReplyLost, CallOK, Label, store
<1>10. ASSUME NEW c \in Client, ReadSlice(c) \/ ReadS3(c) PROVE EraseInv'
  BY <1>1, <1>10 DEF ReadSlice, ReadS3, store
<1>11. ASSUME NEW c \in Client,
              WriteS3(c) \/ GetReturns(c) \/ FreeSlice(c) \/ FreeBlocks(c)
       PROVE  EraseInv'
  BY <1>3, <1>11 DEF WriteS3, PutDone, GetReturns, FreeSlice, FreeBlocks, store
<1>12. CASE UNCHANGED vars
  BY <1>1, <1>12 DEF vars, store, call
<1> QED
  BY <1>4, <1>5, <1>6, <1>7, <1>8, <1>9, <1>10, <1>11, <1>12 DEF Next, Call, Continue

\* Although mtx_ keeps out removes only, what a remove erases from the index is
\* the entry it found there: no put, and no other remove, gets in between
\* (blob_store.cpp:65-74).
THEOREM RemoveErasesFound == Spec => []ErasedIsFound
<1>1. Init => EraseInv
  BY DEF Init, EraseInv
<1>2. EraseInv => ErasedIsFound
  BY DEF EraseInv, ErasedIsFound
<1> QED
  BY <1>1, <1>2, TypeInit, TypeStep, EraseStep, PTL DEF Spec

-----------------------------------------------------------------------------
(* Space has one owner                                                     *)

\* Available space is not handed out, and a slice is in allocated space.
PoolInv == avail \cap leased = {} /\ \A p \in Threshold : live[p] \subseteq leased

SpaceInv == PoolInv /\ SpaceIsOwned

\* Inodes change hands, one holder to one holder, and no space moves.
LEMMA HoldersMove ==
  ASSUME SpaceInv, UNCHANGED <<avail, leased, live>>,
         NEW f,
         \A h \in Holder' : f[h] \in Holder /\ InodeOf(h)' = InodeOf(f[h]),
         \A g, h \in Holder' : g # h => f[g] # f[h]
  PROVE  SpaceInv'
<1>1. PoolInv'
  BY DEF SpaceInv, PoolInv
<1>2. ASSUME NEW h \in Holder' PROVE HoldsPlaces(InodeOf(h))'
  <2>1. HoldsPlaces(InodeOf(f[h]))
    BY <1>2 DEF SpaceInv, SpaceIsOwned
  <2> QED
    BY <1>2, <2>1 DEF HoldsPlaces, Places, HoldsSlice
<1>3. ASSUME NEW g \in Holder', NEW h \in Holder', g # h
      PROVE  Places(InodeOf(g)') \cap Places(InodeOf(h)') = {}
  BY <1>3 DEF SpaceInv, SpaceIsOwned
<1> QED
  BY <1>1, <1>2, <1>3 DEF SpaceInv, SpaceIsOwned

\* The step gives the call c an inode and leaves every other owner its own.
Gets(c, ino) ==
  \A h \in Holder' : \/ h = c /\ InodeOf(h)' = ino
                     \/ h # c /\ h \in Holder /\ InodeOf(h)' = InodeOf(h)

PlacesDiffer(ino) ==
  \A i, j \in DOMAIN ino.slices : ino.slices[i].place = ino.slices[j].place => i = j

\* The step adds the slice of the inode, if it has one, to its slice pool.
PoolsGrow(ino) ==
  \A p \in Threshold :
    live'[p] = live[p] \cup
      (IF HoldsSlice(ino) /\ p = PoolFor(ino.lifetime) THEN Places(ino) ELSE {})

\* A new holder gets space nobody had.
LEMMA SpaceGrows ==
  ASSUME SpaceInv, NEW c \in Client, NEW ino \in Inode, Places(ino) \subseteq avail,
         avail' = avail \ Places(ino), leased' = leased \cup Places(ino),
         Gets(c, ino), PlacesDiffer(ino), PoolsGrow(ino)
  PROVE  SpaceInv'
<1> USE DEF Gets, PlacesDiffer, PoolsGrow
<1>1. PoolInv'
  BY DEF SpaceInv, PoolInv
<1>2. \A p \in Threshold : live[p] \cap Places(ino) = {}
  BY DEF SpaceInv, PoolInv
<1>3. \A h \in Holder : Places(InodeOf(h)) \cap Places(ino) = {}
  BY DEF SpaceInv, PoolInv, SpaceIsOwned, HoldsPlaces
<1>4. ASSUME NEW h \in Holder' PROVE HoldsPlaces(InodeOf(h))'
  <2>1. CASE h = c
    BY <1>2, <1>4, <2>1 DEF HoldsPlaces, Places, HoldsSlice
  <2>2. CASE h # c
    <3>1. h \in Holder /\ InodeOf(h)' = InodeOf(h) /\ HoldsPlaces(InodeOf(h))
      BY <1>4, <2>2 DEF SpaceInv, SpaceIsOwned
    <3>2. \A p \in Threshold : Places(InodeOf(h)) \cap live'[p] = Places(InodeOf(h)) \cap live[p]
      BY <1>3, <3>1
    <3> QED
      BY <3>1, <3>2 DEF HoldsPlaces, Places, HoldsSlice
  <2> QED
    BY <2>1, <2>2
<1>5. ASSUME NEW g \in Holder', NEW h \in Holder', g # h
      PROVE  Places(InodeOf(g)') \cap Places(InodeOf(h)') = {}
  BY <1>3, <1>5 DEF SpaceInv, SpaceIsOwned
<1> QED
  BY <1>1, <1>4, <1>5 DEF SpaceInv, SpaceIsOwned

\* A holder leaves with all of its space.
LEMMA SpaceShrinks ==
  ASSUME SpaceInv, NEW c \in Holder, NEW ino, ino = InodeOf(c),
         avail' = avail \cup Places(ino), leased' = leased \ Places(ino),
         \A h \in Holder' : h # c /\ h \in Holder /\ InodeOf(h)' = InodeOf(h),
         \A p \in Threshold : live'[p] = live[p] \ Places(ino)
  PROVE  SpaceInv'
<1>1. PoolInv'
  BY DEF SpaceInv, PoolInv
<1>2. ASSUME NEW h \in Holder' PROVE HoldsPlaces(InodeOf(h))'
  <2>1. /\ h \in Holder /\ InodeOf(h)' = InodeOf(h) /\ HoldsPlaces(InodeOf(h))
        /\ Places(InodeOf(h)) \cap Places(ino) = {}
    BY <1>2 DEF SpaceInv, SpaceIsOwned
  <2>2. \A p \in Threshold : Places(InodeOf(h)) \cap live'[p] = Places(InodeOf(h)) \cap live[p]
    BY <2>1
  <2> QED
    BY <2>1, <2>2 DEF HoldsPlaces, Places, HoldsSlice
<1>3. ASSUME NEW g \in Holder', NEW h \in Holder', g # h
      PROVE  Places(InodeOf(g)') \cap Places(InodeOf(h)') = {}
  BY <1>3 DEF SpaceInv, SpaceIsOwned
<1> QED
  BY <1>1, <1>2, <1>3 DEF SpaceInv, SpaceIsOwned

\* A put takes its space, an insert passes it to the name unless the name has
\* an inode, an erase passes it to the remove, and the remove returns it.
LEMMA SpaceStep == TypeInv /\ EraseInv /\ SpaceInv /\ [Next]_vars => SpaceInv'
<1> SUFFICES ASSUME TypeInv, EraseInv, SpaceInv, [Next]_vars PROVE SpaceInv'
  OBVIOUS
<1> USE DEF TypeInv, TypeOK
<1>0. Client \cap Name = {}
  BY CallerAssumption
<1>1. ASSUME UNCHANGED <<avail, leased, live, index>>,
             \A c \in Client : pc'[c] \in {"insert", "free"} =>
               pc[c] \in {"insert", "free"} /\ inode'[c] = inode[c]
      PROVE  SpaceInv'
  <2> DEFINE f == [h \in Name \cup Client |-> h]
  <2>1. \A h \in Holder' : h \in Holder /\ h \in Name \cup Client /\ InodeOf(h)' = InodeOf(h)
    BY <1>0, <1>1 DEF Holder, InodeOf
  <2>2. \A h \in Holder' : f[h] \in Holder /\ InodeOf(h)' = InodeOf(f[h])
    BY <2>1
  <2>3. \A g, h \in Holder' : g # h => f[g] # f[h]
    BY <2>1
  <2> HIDE DEF f
  <2> QED
    BY <1>1, <2>2, <2>3, HoldersMove
<1>2. ASSUME NEW c \in Client, NEW n \in Name, NEW ino, NEW l \in Label,
             Begin(c, l, n, ino), l \notin {"insert", "free"},
             UNCHANGED <<avail, leased, live, index>>
      PROVE  SpaceInv'
  BY <1>1, <1>2 DEF Begin
<1>3. ASSUME NEW c \in Client, Return(c), UNCHANGED <<avail, leased, live, index>>
      PROVE  SpaceInv'
  BY <1>1, <1>3 DEF Return
<1>4. ASSUME NEW c \in Client, NEW n \in Name, NEW ino, Begin(c, "insert", n, ino),
             pc[c] = "idle", UNCHANGED index
      PROVE  \A h \in Holder' : \/ h = c /\ InodeOf(h)' = ino
                                \/ h # c /\ h \in Holder /\ InodeOf(h)' = InodeOf(h)
  BY <1>0, <1>4 DEF Begin, Holder, InodeOf
<1>5. ASSUME NEW c \in Client, NEW n \in Name, NEW s \in Size,
             NEW l \in Known \cup {IntMax}, PutSmall(c, n, s, l)
      PROVE  SpaceInv'
  <2>1. PICK b \in avail :
          /\ Take({b})
          /\ live' = [live EXCEPT ![PoolFor(l)] = @ \cup {b}]
          /\ Begin(c, "insert", n, [slices |-> <<[place |-> b, size |-> s]>>, lifetime |-> l])
    BY <1>5 DEF PutSmall
  <2> DEFINE ino == [slices |-> <<[place |-> b, size |-> s]>>, lifetime |-> l]
  <2>2. HoldsSlice(ino) /\ Places(ino) = {b}
    BY <1>5, SizeAssumption DEF HoldsSlice, Places, PutSmall, IsSmall
  <2>3. \A i, j \in DOMAIN ino.slices : ino.slices[i].place = ino.slices[j].place => i = j
    OBVIOUS
  <2>4. \A h \in Holder' : \/ h = c /\ InodeOf(h)' = ino
                           \/ h # c /\ h \in Holder /\ InodeOf(h)' = InodeOf(h)
    BY <1>4, <1>5, <2>1 DEF PutSmall
  <2>5. \A p \in Threshold :
          live'[p] = live[p] \cup
            (IF HoldsSlice(ino) /\ p = PoolFor(ino.lifetime) THEN Places(ino) ELSE {})
    BY <2>1, <2>2
  <2>6. /\ Places(ino) \subseteq avail
        /\ avail' = avail \ Places(ino) /\ leased' = leased \cup Places(ino)
    BY <2>1, <2>2 DEF Take
  <2>7. ino \in Inode
    BY SmallType, LifetimeType
  <2>8. PlacesDiffer(ino)
    BY <2>3 DEF PlacesDiffer
  <2> HIDE DEF ino
  <2>9. Gets(c, ino) /\ PoolsGrow(ino)
    BY <2>4, <2>5 DEF Gets, PoolsGrow
  <2> QED
    BY <2>6, <2>7, <2>8, <2>9, SpaceGrows
<1>6. ASSUME NEW c \in Client, NEW n \in Name, NEW s \in Size,
             NEW l \in Known \cup {IntMax}, PutLarge(c, n, s, l)
      PROVE  SpaceInv'
  <2>1. PICK blocks \in Injection(1 .. TotalBlocks(s), avail) :
          /\ Take(Range(blocks))
          /\ Begin(c, "insert", n, [slices |-> SlicesOver(blocks, s), lifetime |-> l])
    BY <1>6 DEF PutLarge
  <2> DEFINE ino == [slices |-> SlicesOver(blocks, s), lifetime |-> l]
  <2>2. /\ DOMAIN blocks = 1 .. TotalBlocks(s)
        /\ \A i, j \in DOMAIN blocks : blocks[i] = blocks[j] => i = j
    BY DEF Injection, IsInjective
  <2>3. /\ DOMAIN ino.slices = DOMAIN blocks
        /\ \A i \in DOMAIN blocks : ino.slices[i].place = blocks[i]
    BY DEF SlicesOver
  <2>4. Places(ino) = Range(blocks)
    <3> HIDE DEF ino
    <3>1. Range(blocks) = {blocks[i] : i \in DOMAIN blocks}
      BY DEF Range
    <3>2. Places(ino) = {ino.slices[i].place : i \in DOMAIN blocks}
      BY <2>3 DEF Places
    <3>3. ASSUME NEW x \in Range(blocks) PROVE x \in Places(ino)
      <4>1. PICK i \in DOMAIN blocks : x = blocks[i]
        BY <3>1, <3>3
      <4>2. ino.slices[i].place = x
        BY <2>3, <4>1
      <4> QED
        BY <3>2, <4>2
    <3>4. ASSUME NEW x \in Places(ino) PROVE x \in Range(blocks)
      <4>1. PICK i \in DOMAIN blocks : x = ino.slices[i].place
        BY <3>2, <3>4
      <4>2. blocks[i] = x
        BY <2>3, <4>1
      <4> QED
        BY <3>1, <4>2
    <3> QED
      BY <3>3, <3>4
  <2>5. ~HoldsSlice(ino)
    <3>1. FullBlocks(s) \in Nat /\ FullBlocks(s) >= 1
      <4>1. ~IsSmall(s)
        BY <1>6 DEF PutLarge
      <4> QED
        BY <4>1, BlocksAndOdds, SizeAssumption DEF IsSmall
    <3>2. 1 \in DOMAIN blocks => ino.slices[1].size = Blocksize
      BY <3>1 DEF SlicesOver
    <3>3. TotalBlocks(s) \in Nat /\ TotalBlocks(s) >= 1
      BY <3>1 DEF TotalBlocks
    <3> QED
      BY <2>2, <3>2, <3>3 DEF HoldsSlice
  <2>6. \A i, j \in DOMAIN ino.slices : ino.slices[i].place = ino.slices[j].place => i = j
    BY <2>2, <2>3
  <2>7. \A h \in Holder' : \/ h = c /\ InodeOf(h)' = ino
                           \/ h # c /\ h \in Holder /\ InodeOf(h)' = InodeOf(h)
    BY <1>4, <1>6, <2>1 DEF PutLarge
  <2>8. \A p \in Threshold :
          live'[p] = live[p] \cup
            (IF HoldsSlice(ino) /\ p = PoolFor(ino.lifetime) THEN Places(ino) ELSE {})
    BY <1>6, <2>5 DEF PutLarge
  <2>9. /\ Places(ino) \subseteq avail
        /\ avail' = avail \ Places(ino) /\ leased' = leased \cup Places(ino)
    BY <2>1, <2>4 DEF Take
  <2>10. ino \in Inode
    <3>1. blocks \in [1 .. TotalBlocks(s) -> Block]
      BY DEF Injection
    <3> QED
      BY <3>1, LargeType, LifetimeType
  <2> HIDE DEF ino
  <2>11. Gets(c, ino) /\ PlacesDiffer(ino) /\ PoolsGrow(ino)
    BY <2>6, <2>7, <2>8 DEF Gets, PlacesDiffer, PoolsGrow
  <2> QED
    BY <2>9, <2>10, <2>11, SpaceGrows
<1>7. ASSUME NEW c \in Client, Insert(c) PROVE SpaceInv'
  <2> DEFINE taken == index[name[c]] # NoInode
             f == [h \in Name \cup Client |-> IF h = name[c] /\ ~taken THEN c ELSE h]
  <2>1. /\ pc[c] = "insert" /\ name[c] \in Name /\ UNCHANGED <<avail, leased, live, inode>>
        /\ pc' = [pc EXCEPT ![c] = "write"]
    BY <1>7 DEF Insert, CallOK, poolVars
  <2>2. /\ index'[name[c]] = IF taken THEN index[name[c]] ELSE inode[c]
        /\ \A n \in Name \ {name[c]} : index'[n] = index[n]
    BY <1>7, <2>1 DEF Insert, Linked
  <2>3. \A h \in Holder' : h \in Name \cup Client /\ h # c
    BY <1>0, <2>1 DEF Holder
  <2>4. \A h \in Holder' : f[h] \in Holder /\ InodeOf(h)' = InodeOf(f[h])
    BY <1>0, <2>1, <2>2, <2>3 DEF Holder, InodeOf
  <2>5. \A g, h \in Holder' : g # h => f[g] # f[h]
    BY <2>3
  <2> HIDE DEF f
  <2> QED
    BY <2>1, <2>4, <2>5, HoldersMove
<1>8. ASSUME NEW c \in Client, Erase(c) PROVE SpaceInv'
  <2> DEFINE f == [h \in Name \cup Client |-> IF h = c THEN name[c] ELSE h]
  <2>1. /\ pc[c] = "erase" /\ name[c] \in Name /\ UNCHANGED <<avail, leased, live, inode>>
        /\ pc' = [pc EXCEPT ![c] = "free"]
        /\ index' = [index EXCEPT ![name[c]] = NoInode]
    BY <1>8 DEF Erase, CallOK, poolVars
  <2>2. index[name[c]] = inode[c] /\ index[name[c]] # NoInode
    BY <2>1 DEF EraseInv
  <2>3. \A h \in Holder' : h \in Name \cup Client /\ h # name[c]
    BY <1>0, <2>1 DEF Holder
  <2>4. \A h \in Holder' : f[h] \in Holder /\ InodeOf(h)' = InodeOf(f[h])
    BY <1>0, <2>1, <2>2, <2>3 DEF Holder, InodeOf
  <2>5. \A g, h \in Holder' : g # h => f[g] # f[h]
    BY <2>3
  <2> HIDE DEF f
  <2> QED
    BY <2>1, <2>4, <2>5, HoldersMove
<1>9. ASSUME NEW c \in Client, pc[c] = "free", Return(c), UNCHANGED index
      PROVE  /\ c \in Holder /\ inode[c] = InodeOf(c) /\ HoldsPlaces(inode[c])
             /\ \A h \in Holder' : h # c /\ h \in Holder /\ InodeOf(h)' = InodeOf(h)
  <2>1. c \in Holder /\ inode[c] = InodeOf(c)
    BY <1>0, <1>9 DEF Holder, InodeOf
  <2>2. \A h \in Holder' : h # c /\ h \in Holder /\ InodeOf(h)' = InodeOf(h)
    BY <1>0, <1>9 DEF Holder, InodeOf, Return
  <2> QED
    BY <2>1, <2>2 DEF SpaceInv, SpaceIsOwned
<1>10. ASSUME NEW c \in Client, FreeSlice(c) PROVE SpaceInv'
  <2>1. /\ c \in Holder /\ inode[c] = InodeOf(c) /\ HoldsPlaces(inode[c])
        /\ \A h \in Holder' : h # c /\ h \in Holder /\ InodeOf(h)' = InodeOf(h)
    BY <1>9, <1>10 DEF FreeSlice
  <2>2. \A p \in Threshold : live'[p] = live[p] \ Places(inode[c])
    BY <1>10, <2>1 DEF FreeSlice, HoldsPlaces
  <2> QED
    BY <1>10, <2>1, <2>2, SpaceShrinks DEF FreeSlice, GiveBack
<1>11. ASSUME NEW c \in Client, FreeBlocks(c) PROVE SpaceInv'
  <2>1. /\ c \in Holder /\ inode[c] = InodeOf(c) /\ HoldsPlaces(inode[c])
        /\ \A h \in Holder' : h # c /\ h \in Holder /\ InodeOf(h)' = InodeOf(h)
    BY <1>9, <1>11 DEF FreeBlocks
  <2>2. \A p \in Threshold : live'[p] = live[p] \ Places(inode[c])
    BY <1>11, <2>1 DEF FreeBlocks, HoldsPlaces
  <2> QED
    BY <1>11, <2>1, <2>2, SpaceShrinks DEF FreeBlocks, GiveBack
<1>12. ASSUME NEW c \in Client, WriteSlice(c) PROVE SpaceInv'
  BY <1>1, <1>3, <1>12 DEF WriteSlice, PutDone, poolVars
<1>13. ASSUME NEW c \in Client, ReplyLost(c) PROVE SpaceInv'
  BY <1>2, <1>13 DEF ReplyLost, CallOK, Label, store
<1>14. ASSUME NEW c \in Client, ReadSlice(c) \/ ReadS3(c) PROVE SpaceInv'
  BY <1>1, <1>14 DEF ReadSlice, ReadS3, store
<1>15. ASSUME NEW c \in Client, WriteS3(c) \/ GetReturns(c) PROVE SpaceInv'
  BY <1>3, <1>15 DEF WriteS3, PutDone, GetReturns, store
<1>16. ASSUME NEW c \in Client, NEW n \in Name,
              \/ PutRefused(c, n) \/ GetFound(c, n) \/ GetMissing(c, n) \/ RemoveFind(c, n)
       PROVE  SpaceInv'
  BY <1>2, <1>16 DEF PutRefused, GetFound, GetMissing, RemoveFind, store, poolVars, Label
<1>17. ASSUME NEW c \in Client, NEW n \in Name, RemoveMissing(c, n) PROVE SpaceInv'
  BY <1>1, <1>17 DEF RemoveMissing, store, call
<1>18. CASE UNCHANGED vars
  BY <1>1, <1>18 DEF vars, store, call
<1> QED
  BY <1>5, <1>6, <1>7, <1>8, <1>10, <1>11, <1>12, <1>13, <1>14, <1>15, <1>16, <1>17, <1>18
     DEF Next, Call, Continue, Put

\* Whatever puts, gets and removes overlap, on one name or on several, two
\* inodes never share a place, and a place is freed once, to the pool it came
\* from (blob_store.cpp:20-82).
THEOREM SpaceHasOneOwner == Spec => []SpaceIsOwned
<1>1. Init => SpaceInv
  BY CallerAssumption DEF Init, SpaceInv, PoolInv, SpaceIsOwned, Holder
<1>2. Init => EraseInv
  BY DEF Init, EraseInv
<1>3. SpaceInv => SpaceIsOwned
  BY DEF SpaceInv
<1> QED
  BY <1>1, <1>2, <1>3, TypeInit, TypeStep, EraseStep, SpaceStep, PTL DEF Spec
=============================================================================
