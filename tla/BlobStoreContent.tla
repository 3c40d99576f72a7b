-------------------------- MODULE BlobStoreContent --------------------------
(***************************************************************************)
(* What disciplined callers can rely on: when nobody puts, removes or gets *)
(* a name while somebody else puts or removes it, and nobody puts a name   *)
(* that exists, no space is orphaned; if besides no reply is lost and no   *)
(* lifetime is 0, a get returns what the put wrote.                        *)
(***************************************************************************)
EXTENDS BlobStoreProofs

-----------------------------------------------------------------------------
(* The invariant                                                           *)

\* Nobody is putting or removing n.
Quiet(n) == \A c \in Client : name[c] = n => ~Writing(c)

CallersApart == \A c, d \in Client : c # d /\ name[c] = name[d] => ~Writing(c)

\* A call that puts has a number.
PutNumbered ==
  \A c \in Client : pc[c] \in {"insert", "write", "fallback"} => put[c] \in 1 .. Len(puts)

\* A name that does not exist is not in the index.
NamesFree ==
  /\ \A n \in Name : last[n] = 0 /\ Quiet(n) => index[n] = NoInode
  /\ \A c \in Client : pc[c] \in {"insert", "free"} => index[name[c]] = NoInode

\* Put k has stored the object n, in memory or in S3.
Stored(n, k) ==
  /\ k \in 1 .. Len(puts)
  /\ index[n] = NoInode => s3[n] = k
  /\ index[n] # NoInode =>
       /\ index[n].lifetime # 0
       /\ Len(index[n].slices) = puts[k].pieces /\ Len(index[n].slices) >= 1
       /\ \A i \in DOMAIN index[n].slices : mem[index[n].slices[i].place] = <<k, i>>

ObjectOK(n) == Quiet(n) /\ last[n] # 0 => Stored(n, last[n])

PutOK(c) ==
  /\ pc[c] \in {"insert", "write"} =>
       /\ inode[c].lifetime # 0
       /\ Len(inode[c].slices) = puts[put[c]].pieces
       /\ idx[c] \in 1 .. Len(inode[c].slices)
  /\ pc[c] = "insert" => idx[c] = 1
  /\ pc[c] = "write" =>
       /\ index[name[c]] = inode[c]
       /\ \A i \in 1 .. idx[c] - 1 : mem[inode[c].slices[i].place] = <<put[c], i>>
  /\ pc[c] = "fallback" => index[name[c]] = NoInode
  /\ pc[c] = "free" => last[name[c]] = 0

GetOK(c) ==
  /\ pc[c] = "read" =>
       /\ index[name[c]] = inode[c]
       /\ last[name[c]] # 0
       /\ idx[c] \in 1 .. Len(inode[c].slices)
       /\ got[c] = [i \in 1 .. idx[c] - 1 |-> <<last[name[c]], i>>]
  /\ pc[c] = "s3" /\ last[name[c]] # 0 => index[name[c]] = NoInode
  /\ pc[c] = "got" /\ last[name[c]] # 0 => got[c] = Content(last[name[c]])
  /\ pc[c] \notin {"read", "got"} => got[c] = <<>>

FunctionsOK ==
  got = [c \in Client |-> got[c]] /\ mem = [b \in Block |-> mem[b]]

ContentInv ==
  /\ FunctionsOK
  /\ \A n \in Name : ObjectOK(n)
  /\ \A c \in Client : PutOK(c) /\ GetOK(c)

-----------------------------------------------------------------------------
(* Callers stay apart                                                      *)

LEMMA ApartStep ==
  ASSUME Overlap = FALSE, TypeInv, CallersApart, [Next]_vars
  PROVE  CallersApart'
<1> USE DEF TypeInv, TypeOK, CallersApart, Writing
<1>1. ASSUME \A c \in Client :
               /\ Writing(c)' => Writing(c) /\ name'[c] = name[c]
               /\ name'[c] = name[c] \/ name'[c] = NoName
      PROVE  CallersApart'
  <2>1. \A c \in Client : Writing(c)' => Writing(c) /\ name'[c] = name[c] /\ name[c] \in Name
    BY <1>1 DEF CallOK
  <2>2. \A c \in Client : name'[c] \in Name => name'[c] = name[c]
    BY <1>1, CallerAssumption
  <2> QED
    BY <2>1, <2>2
<1>2. ASSUME NEW c \in Client, Return(c) PROVE CallersApart'
  BY <1>1, <1>2 DEF Return
<1>3. ASSUME NEW c \in Client, NEW n \in Name, NEW l \in Label, NEW ino,
             Begin(c, l, n, ino), \A d \in Client : name[d] # n
      PROVE  CallersApart'
  BY <1>3 DEF Begin
<1>4. ASSUME NEW c \in Client, NEW n \in Name, NEW l \in {"read", "s3"}, NEW ino,
             Begin(c, l, n, ino), Quiet(n)
      PROVE  CallersApart'
  BY <1>4 DEF Begin, Quiet
<1>5. ASSUME NEW c \in Client, NEW n \in Name, Put(c, n) PROVE CallersApart'
  BY <1>3, <1>5 DEF Put, PutSmall, PutLarge, PutRefused, MayPut, Label
<1>6. ASSUME NEW c \in Client, NEW n \in Name, GetFound(c, n) \/ GetMissing(c, n)
      PROVE  CallersApart'
  BY <1>4, <1>6 DEF GetFound, GetMissing, MayGet, Quiet
<1>7. ASSUME NEW c \in Client, NEW n \in Name, RemoveFind(c, n) PROVE CallersApart'
  BY <1>3, <1>7 DEF RemoveFind, MayRemove, Label
<1>8. ASSUME NEW c \in Client, NEW n \in Name, RemoveMissing(c, n) PROVE CallersApart'
  BY <1>1, <1>8 DEF RemoveMissing, call
<1>9. ASSUME NEW c \in Client, Insert(c) \/ Erase(c) \/ ReplyLost(c) PROVE CallersApart'
  BY <1>1, <1>9 DEF Insert, Erase, ReplyLost, Begin
<1>10. ASSUME NEW c \in Client, ReadSlice(c) \/ ReadS3(c) PROVE CallersApart'
  BY <1>1, <1>10 DEF ReadSlice, ReadS3
<1>11. ASSUME NEW c \in Client, WriteSlice(c) PROVE CallersApart'
  BY <1>1, <1>2, <1>11 DEF WriteSlice, PutDone
<1>12. ASSUME NEW c \in Client,
              WriteS3(c) \/ GetReturns(c) \/ FreeSlice(c) \/ FreeBlocks(c)
       PROVE  CallersApart'
  BY <1>2, <1>12 DEF WriteS3, PutDone, GetReturns, FreeSlice, FreeBlocks
<1>13. CASE UNCHANGED vars
  BY <1>1, <1>13 DEF vars, call
<1> QED
  BY <1>5, <1>6, <1>7, <1>8, <1>9, <1>10, <1>11, <1>12, <1>13 DEF Next, Call, Continue

\* A put keeps its number until it is done; later puts are appended.
LEMMA NumberedStep ==
  ASSUME TypeInv, PutNumbered, [Next]_vars
  PROVE  PutNumbered' /\ Len(puts) <= Len(puts') /\ \A k \in 1 .. Len(puts) : puts'[k] = puts[k]
<1> DEFINE Goal == PutNumbered' /\ Len(puts) <= Len(puts')
                     /\ \A k \in 1 .. Len(puts) : puts'[k] = puts[k]
<1> USE DEF TypeInv, TypeOK, PutNumbered
<1>1. ASSUME puts' = puts,
             \A c \in Client : pc'[c] \in {"insert", "write", "fallback"} =>
               pc[c] \in {"insert", "write", "fallback"} /\ put'[c] = put[c]
      PROVE  Goal
  BY <1>1
<1>2. ASSUME NEW c \in Client, Return(c), puts' = puts,
             \A d \in Client \ {c} : put'[d] = put[d]
      PROVE  Goal
  BY <1>1, <1>2 DEF Return
<1>3. ASSUME NEW c \in Client, NEW n \in Name, NEW l \in Label, NEW ino, NEW k \in Nat,
             Begin(c, l, n, ino), NewPut(c, n, k)
      PROVE  Goal
  <2>1. puts' = Append(puts, [name |-> n, pieces |-> k])
    BY <1>3 DEF NewPut
  <2>2. Len(puts') = Len(puts) + 1 /\ \A j \in 1 .. Len(puts) : puts'[j] = puts[j]
    BY <2>1
  <2>3. put'[c] = Len(puts) + 1 /\ \A d \in Client \ {c} : put'[d] = put[d]
    BY <1>3, <2>2, BoundAssumption DEF NewPut
  <2>4. \A d \in Client \ {c} : pc'[d] = pc[d]
    BY <1>3 DEF Begin
  <2>5. PutNumbered'
    <3>1. Len(puts) \in Nat
      OBVIOUS
    <3>2. put'[c] \in 1 .. Len(puts')
      BY <2>2, <2>3, <3>1
    <3>3. ASSUME NEW d \in Client \ {c}, pc'[d] \in {"insert", "write", "fallback"}
          PROVE  put'[d] \in 1 .. Len(puts')
      <4>1. put[d] \in 1 .. Len(puts)
        BY <2>4, <3>3
      <4>2. \A i \in Nat : \A j \in 1 .. i : j \in 1 .. i + 1
        OBVIOUS
      <4>3. put[d] \in 1 .. Len(puts')
        BY <2>2, <3>1, <4>1, <4>2
      <4> QED
        BY <2>3, <4>3
    <3> QED
      BY <3>2, <3>3
  <2>6. Len(puts) <= Len(puts')
    BY <2>2
  <2>7. \A j \in 1 .. Len(puts) : puts'[j] = puts[j]
    BY <2>2
  <2> QED
    BY <2>5, <2>6, <2>7
<1>4. ASSUME NEW c \in Client, NEW n \in Name, Put(c, n) PROVE Goal
  <2>1. ASSUME NEW s \in Size, NEW l \in Known \cup {IntMax}, PutSmall(c, n, s, l)
        PROVE  Goal
    BY <1>3, <2>1 DEF PutSmall, Label
  <2>2. ASSUME NEW s \in Size, NEW l \in Known \cup {IntMax}, PutLarge(c, n, s, l)
        PROVE  Goal
    BY <1>3, <2>2, TotalType DEF PutLarge, Label
  <2>3. CASE PutRefused(c, n)
    BY <1>3, <2>3 DEF PutRefused, Label
  <2> QED
    BY <1>4, <2>1, <2>2, <2>3 DEF Put
<1>5. ASSUME NEW c \in Client, NEW n \in Name, NEW l \in {"read", "s3", "erase"}, NEW ino,
             Begin(c, l, n, ino), UNCHANGED <<puts, put>>
      PROVE  Goal
  BY <1>1, <1>5 DEF Begin
<1>6. ASSUME NEW c \in Client, NEW n \in Name,
             GetFound(c, n) \/ GetMissing(c, n) \/ RemoveFind(c, n)
      PROVE  Goal
  BY <1>5, <1>6 DEF GetFound, GetMissing, RemoveFind, ghost
<1>7. ASSUME NEW c \in Client, NEW n \in Name, RemoveMissing(c, n) PROVE Goal
  BY <1>1, <1>7 DEF RemoveMissing, call
<1>8. ASSUME NEW c \in Client, Insert(c) \/ Erase(c) \/ ReplyLost(c) PROVE Goal
  BY <1>1, <1>8 DEF Insert, Erase, ReplyLost, Begin, ghost
<1>9. ASSUME NEW c \in Client, ReadSlice(c) \/ ReadS3(c) PROVE Goal
  BY <1>1, <1>9 DEF ReadSlice, ReadS3, ghost
<1>10. ASSUME NEW c \in Client, PutDone(c) PROVE Goal
  BY <1>2, <1>10 DEF PutDone
<1>11. ASSUME NEW c \in Client, WriteSlice(c) \/ WriteS3(c) PROVE Goal
  BY <1>1, <1>10, <1>11 DEF WriteSlice, WriteS3, ghost
<1>12. ASSUME NEW c \in Client, GetReturns(c) \/ FreeSlice(c) \/ FreeBlocks(c) PROVE Goal
  BY <1>2, <1>12 DEF GetReturns, FreeSlice, FreeBlocks, ghost
<1>13. CASE UNCHANGED vars
  BY <1>1, <1>13 DEF vars, call, ghost
<1> QED
  BY <1>4, <1>6, <1>7, <1>8, <1>9, <1>11, <1>12, <1>13 DEF Next, Call, Continue

\* A name is linked by the put that creates it and unlinked by its remove.
LEMMA FreeStep ==
  ASSUME Overlap = FALSE, Reput = FALSE, TypeInv, EraseInv, CallersApart, PutNumbered,
         NamesFree, [Next]_vars
  PROVE  NamesFree'
<1> USE DEF TypeInv, TypeOK, NamesFree, Writing
<1>1. ASSUME UNCHANGED <<index, last>>,
             \A c \in Client : Writing(c) => Writing(c)' /\ name'[c] = name[c],
             \A c \in Client : pc'[c] \in {"insert", "free"} =>
               pc[c] \in {"insert", "free"} /\ name'[c] = name[c]
      PROVE  NamesFree'
  BY <1>1 DEF Quiet, CallOK
<1>2. ASSUME NEW c \in Client, Return(c), UNCHANGED <<index>>,
             pc[c] \in {"write", "fallback", "free"},
             \A n \in Name \ {name[c]} : last'[n] = last[n],
             index[name[c]] = NoInode \/ last'[name[c]] # 0
      PROVE  NamesFree'
  <2>1. \A n \in Name \ {name[c]} : Quiet(n)' => Quiet(n)
    BY <1>2 DEF Return, Quiet
  <2>2. name[c] \in Name
    BY <1>2 DEF CallOK
  <2>3. \A n \in Name : last'[n] = 0 /\ Quiet(n)' => index'[n] = NoInode
    BY <1>2, <2>1, <2>2
  <2>4. \A d \in Client : pc'[d] \in {"insert", "free"} =>
          pc[d] \in {"insert", "free"} /\ name'[d] = name[d]
    BY <1>2 DEF Return
  <2> QED
    BY <1>2, <2>3, <2>4
<1>3. ASSUME NEW c \in Client, PutDone(c), UNCHANGED <<index>>, pc[c] \in {"write", "fallback"}
      PROVE  NamesFree'
  <2>1. put[c] # 0 /\ name[c] \in Name
    BY <1>3 DEF PutNumbered, CallOK
  <2> QED
    BY <1>2, <1>3, <2>1 DEF PutDone
<1>4. ASSUME NEW c \in Client, NEW n \in Name, MayPut(n), NEW l \in Label, NEW ino,
             Begin(c, l, n, ino), pc[c] = "idle", UNCHANGED <<index, last>>
      PROVE  NamesFree'
  <2>1. index[n] = NoInode
    BY <1>4 DEF MayPut, Quiet
  <2>2. \A m \in Name : Quiet(m)' => Quiet(m) \/ m = n
    BY <1>4 DEF Begin, Quiet
  <2>3. \A d \in Client : pc'[d] \in {"insert", "free"} =>
          \/ pc[d] \in {"insert", "free"} /\ name'[d] = name[d]
          \/ name'[d] = n
    BY <1>4 DEF Begin
  <2> QED
    BY <1>4, <2>1, <2>2, <2>3
<1>5. ASSUME NEW c \in Client, NEW n \in Name, Put(c, n) PROVE NamesFree'
  BY <1>4, <1>5 DEF Put, PutSmall, PutLarge, PutRefused, NewPut, store, Label
<1>6. ASSUME NEW c \in Client, NEW n \in Name,
             GetFound(c, n) \/ GetMissing(c, n) \/ RemoveFind(c, n)
      PROVE  NamesFree'
  <2>1. UNCHANGED <<index, last>> /\ pc[c] = "idle"
    BY <1>6 DEF GetFound, GetMissing, RemoveFind, store, ghost
  <2>2. \E ino, l : Begin(c, l, n, ino) /\ l \in {"read", "s3", "erase"}
    BY <1>6 DEF GetFound, GetMissing, RemoveFind
  <2> QED
    BY <1>1, <2>1, <2>2 DEF Begin
<1>7. ASSUME NEW c \in Client, NEW n \in Name, RemoveMissing(c, n) PROVE NamesFree'
  BY <1>7 DEF RemoveMissing, store, call, Quiet
<1>8. ASSUME NEW c \in Client, Insert(c) PROVE NamesFree'
  <2>1. /\ pc[c] = "insert" /\ name[c] \in Name /\ UNCHANGED <<name, last>>
        /\ pc' = [pc EXCEPT ![c] = "write"]
        /\ \A n \in Name \ {name[c]} : index'[n] = index[n]
    BY <1>8 DEF Insert, ghost, CallOK
  <2>2. \A n \in Name : Quiet(n)' => Quiet(n) /\ n # name[c]
    BY <2>1 DEF Quiet
  <2>3. \A d \in Client : pc'[d] \in {"insert", "free"} =>
          pc[d] \in {"insert", "free"} /\ name[d] # name[c] /\ name[d] \in Name
    BY <2>1 DEF CallersApart, CallOK
  <2> QED
    BY <2>1, <2>2, <2>3
<1>9. ASSUME NEW c \in Client, Erase(c) PROVE NamesFree'
  <2>1. /\ pc[c] = "erase" /\ name[c] \in Name /\ UNCHANGED name
        /\ pc' = [pc EXCEPT ![c] = "free"]
        /\ index'[name[c]] = NoInode
        /\ \A n \in Name \ {name[c]} : index'[n] = index[n] /\ last'[n] = last[n]
    BY <1>9 DEF Erase, CallOK
  <2>2. \A n \in Name : Quiet(n)' => Quiet(n)
    BY <2>1 DEF Quiet
  <2>3. \A d \in Client : pc'[d] \in {"insert", "free"} =>
          d = c \/ (pc[d] \in {"insert", "free"} /\ name[d] \in Name)
    BY <2>1 DEF CallOK
  <2> QED
    BY <2>1, <2>2, <2>3
<1>10. ASSUME NEW c \in Client, FreeSlice(c) \/ FreeBlocks(c) PROVE NamesFree'
  <2>1. pc[c] = "free" /\ Return(c) /\ UNCHANGED <<index, last>>
    BY <1>10 DEF FreeSlice, FreeBlocks, ghost
  <2> QED
    BY <1>2, <2>1
<1>11. ASSUME NEW c \in Client, WriteSlice(c) PROVE NamesFree'
  BY <1>1, <1>3, <1>11 DEF WriteSlice, ghost
<1>12. ASSUME NEW c \in Client, WriteS3(c) PROVE NamesFree'
  BY <1>3, <1>12 DEF WriteS3, store
<1>13. ASSUME NEW c \in Client, ReplyLost(c) PROVE NamesFree'
  BY <1>1, <1>13 DEF ReplyLost, Begin, store, ghost
<1>14. ASSUME NEW c \in Client, ReadSlice(c) \/ ReadS3(c) PROVE NamesFree'
  BY <1>1, <1>14 DEF ReadSlice, ReadS3, store, ghost
<1>15. ASSUME NEW c \in Client, GetReturns(c) PROVE NamesFree'
  BY <1>1, <1>15 DEF GetReturns, Return, store, ghost
<1>16. CASE UNCHANGED vars
  BY <1>1, <1>16 DEF vars, store, call, ghost
<1> QED
  BY <1>5, <1>6, <1>7, <1>8, <1>9, <1>10, <1>11, <1>12, <1>13, <1>14, <1>15, <1>16
     DEF Next, Call, Continue

-----------------------------------------------------------------------------
(* No space is orphaned                                                    *)

Owned == UNION {Places(InodeOf(h)) : h \in Holder}

\* Inodes may change hands as long as each keeps a holder.
LEMMA OwnedKept ==
  ASSUME \A h \in Holder : \E g \in Holder' : InodeOf(g)' = InodeOf(h)
  PROVE  Owned \subseteq Owned'
<1>1. ASSUME NEW h \in Holder, NEW p \in Places(InodeOf(h)) PROVE p \in Owned'
  <2>1. PICK g \in Holder' : InodeOf(g)' = InodeOf(h)
    OBVIOUS
  <2>2. Places(InodeOf(g))' = Places(InodeOf(h))
    BY <2>1 DEF Places
  <2> QED
    BY <1>1, <2>1, <2>2 DEF Owned
<1> QED
  BY <1>1 DEF Owned

\* A put of a name that does not exist links the space it took; a remove gives
\* back all that its inode holds.
LEMMA LeakStep ==
  ASSUME TypeInv, EraseInv, NamesFree, NothingLeaked, [Next]_vars
  PROVE  NothingLeaked'
<1> USE DEF TypeInv, TypeOK, NothingLeaked
<1>0. Client \cap Name = {} /\ leased \subseteq Owned
  BY CallerAssumption DEF Owned
<1>1. ASSUME leased' = leased, \A h \in Holder : \E g \in Holder' : InodeOf(g)' = InodeOf(h)
      PROVE  NothingLeaked'
  BY <1>0, <1>1, OwnedKept DEF Owned
<1>2. ASSUME UNCHANGED <<leased, index>>,
             \A c \in Client : pc[c] \in {"insert", "free"} =>
               pc'[c] \in {"insert", "free"} /\ inode'[c] = inode[c]
      PROVE  NothingLeaked'
  <2>1. ASSUME NEW h \in Holder PROVE h \in Holder' /\ InodeOf(h)' = InodeOf(h)
    BY <1>0, <1>2, <2>1 DEF Holder, InodeOf
  <2> QED
    BY <1>1, <1>2, <2>1
<1>3. ASSUME NEW c \in Client, NEW n \in Name, NEW ino, NEW l \in Label,
             Begin(c, l, n, ino), pc[c] \notin {"insert", "free"},
             UNCHANGED <<leased, index>>
      PROVE  NothingLeaked'
  BY <1>2, <1>3 DEF Begin
<1>4. ASSUME NEW c \in Client, Return(c), pc[c] \notin {"insert", "free"},
             UNCHANGED <<leased, index>>
      PROVE  NothingLeaked'
  BY <1>2, <1>4 DEF Return
<1>5. ASSUME NEW c \in Client, NEW n \in Name, NEW ino, Begin(c, "insert", n, ino),
             pc[c] = "idle", UNCHANGED index, leased' = leased \cup Places(ino)
      PROVE  NothingLeaked'
  <2>1. ASSUME NEW h \in Holder PROVE h \in Holder' /\ InodeOf(h)' = InodeOf(h)
    BY <1>0, <1>5, <2>1 DEF Holder, InodeOf, Begin
  <2>2. Owned \subseteq Owned'
    BY <2>1, OwnedKept
  <2>3. c \in Holder' /\ InodeOf(c)' = ino
    BY <1>0, <1>5 DEF Holder, InodeOf, Begin
  <2>4. Places(ino) \subseteq Owned'
    <3>1. Places(InodeOf(c))' = Places(ino)
      BY <2>3 DEF Places
    <3> QED
      BY <2>3, <3>1 DEF Owned
  <2> QED
    BY <1>0, <1>5, <2>2, <2>4 DEF Owned
<1>6. ASSUME NEW c \in Client, NEW n \in Name, NEW s \in Size,
             NEW l \in Known \cup {IntMax}, PutSmall(c, n, s, l)
      PROVE  NothingLeaked'
  <2>1. PICK b \in avail :
          /\ Take({b})
          /\ Begin(c, "insert", n, [slices |-> <<[place |-> b, size |-> s]>>, lifetime |-> l])
    BY <1>6 DEF PutSmall
  <2>2. Places([slices |-> <<[place |-> b, size |-> s]>>, lifetime |-> l]) = {b}
    BY DEF Places
  <2> QED
    BY <1>5, <1>6, <2>1, <2>2 DEF PutSmall, Take
<1>7. ASSUME NEW c \in Client, NEW n \in Name, NEW s \in Size,
             NEW l \in Known \cup {IntMax}, PutLarge(c, n, s, l)
      PROVE  NothingLeaked'
  <2>1. PICK blocks \in Injection(1 .. TotalBlocks(s), avail) :
          /\ Take(Range(blocks))
          /\ Begin(c, "insert", n, [slices |-> SlicesOver(blocks, s), lifetime |-> l])
    BY <1>7 DEF PutLarge
  <2> DEFINE ino == [slices |-> SlicesOver(blocks, s), lifetime |-> l]
  <2>2. /\ DOMAIN ino.slices = DOMAIN blocks
        /\ \A i \in DOMAIN blocks : ino.slices[i].place = blocks[i]
    BY DEF SlicesOver
  <2> HIDE DEF ino
  <2>3. Range(blocks) = Places(ino)
    <3>1. Range(blocks) = {blocks[i] : i \in DOMAIN blocks}
      BY DEF Range
    <3>2. Places(ino) = {ino.slices[i].place : i \in DOMAIN blocks}
      BY <2>2 DEF Places
    <3>3. ASSUME NEW x \in Range(blocks) PROVE x \in Places(ino)
      <4>1. PICK i \in DOMAIN blocks : x = blocks[i]
        BY <3>1, <3>3
      <4>2. ino.slices[i].place = x
        BY <2>2, <4>1
      <4> QED
        BY <3>2, <4>2
    <3>4. ASSUME NEW x \in Places(ino) PROVE x \in Range(blocks)
      <4>1. PICK i \in DOMAIN blocks : x = ino.slices[i].place
        BY <3>2, <3>4
      <4>2. blocks[i] = x
        BY <2>2, <4>1
      <4> QED
        BY <3>1, <4>2
    <3> QED
      BY <3>3, <3>4
  <2> QED
    BY <1>5, <1>7, <2>1, <2>3 DEF PutLarge, Take, ino
<1>8. ASSUME NEW c \in Client, Insert(c) PROVE NothingLeaked'
  <2>1. /\ pc[c] = "insert" /\ name[c] \in Name /\ UNCHANGED <<leased, inode>>
        /\ index[name[c]] = NoInode /\ inode[c] \in Inode /\ inode[c] # NoInode
        /\ pc' = [pc EXCEPT ![c] = "write"]
    BY <1>8, InodeAssumption DEF Insert, NamesFree, CallOK, poolVars
  <2>2. index'[name[c]] = inode[c] /\ \A n \in Name \ {name[c]} : index'[n] = index[n]
    BY <1>8, <2>1 DEF Insert, Linked
  <2>3. ASSUME NEW h \in Holder PROVE \E g \in Holder' : InodeOf(g)' = InodeOf(h)
    <3>1. CASE h = c
      <4>1. PICK m \in Name : m = name[c]
        BY <2>1
      <4>2. m \in Holder' /\ InodeOf(m)' = InodeOf(h)
        BY <1>0, <2>1, <2>2, <3>1, <4>1 DEF Holder, InodeOf
      <4> QED
        BY <4>2
    <3>2. CASE h # c
      <4>1. h \in Holder' /\ InodeOf(h)' = InodeOf(h)
        BY <1>0, <2>1, <2>2, <2>3, <3>2 DEF Holder, InodeOf
      <4> QED
        BY <4>1
    <3> QED
      BY <3>1, <3>2
  <2> QED
    BY <1>1, <2>1, <2>3
<1>9. ASSUME NEW c \in Client, Erase(c) PROVE NothingLeaked'
  <2>1. /\ pc[c] = "erase" /\ name[c] \in Name /\ UNCHANGED <<leased, inode>>
        /\ pc' = [pc EXCEPT ![c] = "free"]
        /\ index[name[c]] = inode[c]
        /\ \A n \in Name \ {name[c]} : index'[n] = index[n]
    BY <1>9 DEF Erase, EraseInv, CallOK, poolVars
  <2>2. ASSUME NEW h \in Holder PROVE \E g \in Holder' : InodeOf(g)' = InodeOf(h)
    <3>1. CASE h = name[c]
      <4>1. c \in Holder' /\ InodeOf(c)' = InodeOf(h)
        BY <1>0, <2>1, <3>1 DEF Holder, InodeOf
      <4> QED
        BY <4>1
    <3>2. CASE h # name[c]
      <4>1. h \in Holder' /\ InodeOf(h)' = InodeOf(h)
        BY <1>0, <2>1, <2>2, <3>2 DEF Holder, InodeOf
      <4> QED
        BY <4>1
    <3> QED
      BY <3>1, <3>2
  <2> QED
    BY <1>1, <2>1, <2>2
<1>10. ASSUME NEW c \in Client, FreeSlice(c) \/ FreeBlocks(c) PROVE NothingLeaked'
  <2>1. /\ pc[c] = "free" /\ Return(c) /\ UNCHANGED index
        /\ leased' = leased \ Places(inode[c])
    BY <1>10 DEF FreeSlice, FreeBlocks, GiveBack
  <2>2. ASSUME NEW p \in leased' PROVE p \in Owned'
    <3>1. PICK h \in Holder : p \in Places(InodeOf(h))
      BY <1>0, <2>1, <2>2 DEF Owned
    <3>2. h # c
      BY <1>0, <2>1, <2>2, <3>1 DEF InodeOf
    <3>3. h \in Holder' /\ InodeOf(h)' = InodeOf(h)
      BY <1>0, <2>1, <3>2 DEF Holder, InodeOf, Return
    <3>4. Places(InodeOf(h))' = Places(InodeOf(h))
      BY <3>3 DEF Places
    <3> QED
      BY <3>1, <3>3, <3>4 DEF Owned
  <2> QED
    BY <2>2 DEF Owned
<1>11. ASSUME NEW c \in Client, WriteSlice(c) PROVE NothingLeaked'
  BY <1>2, <1>4, <1>11 DEF WriteSlice, PutDone, poolVars
<1>12. ASSUME NEW c \in Client, WriteS3(c) \/ GetReturns(c) PROVE NothingLeaked'
  BY <1>4, <1>12 DEF WriteS3, PutDone, GetReturns, store
<1>13. ASSUME NEW c \in Client, ReplyLost(c) PROVE NothingLeaked'
  BY <1>3, <1>13 DEF ReplyLost, CallOK, store, Label
<1>14. ASSUME NEW c \in Client, ReadSlice(c) \/ ReadS3(c) PROVE NothingLeaked'
  BY <1>2, <1>14 DEF ReadSlice, ReadS3, store
<1>15. ASSUME NEW c \in Client, NEW n \in Name,
              \/ PutRefused(c, n) \/ GetFound(c, n) \/ GetMissing(c, n) \/ RemoveFind(c, n)
       PROVE  NothingLeaked'
  BY <1>3, <1>15 DEF PutRefused, GetFound, GetMissing, RemoveFind, store, poolVars, Label
<1>16. ASSUME NEW c \in Client, NEW n \in Name, RemoveMissing(c, n) PROVE NothingLeaked'
  BY <1>2, <1>16 DEF RemoveMissing, store, call
<1>17. CASE UNCHANGED vars
  BY <1>2, <1>17 DEF vars, store, call
<1> QED
  BY <1>6, <1>7, <1>8, <1>9, <1>10, <1>11, <1>12, <1>13, <1>14, <1>15, <1>16, <1>17
     DEF Next, Call, Continue, Put

CallInv == TypeInv /\ EraseInv /\ CallersApart /\ PutNumbered /\ NamesFree

LEMMA CallInit == Init => CallInv
<1>1. Init => CallersApart /\ PutNumbered
  BY DEF Init, CallersApart, PutNumbered, Writing
<1>2. Init => NamesFree /\ EraseInv
  BY DEF Init, NamesFree, EraseInv
<1> QED
  BY <1>1, <1>2, TypeInit DEF CallInv

LEMMA CallStep ==
  ASSUME Overlap = FALSE, Reput = FALSE, CallInv, [Next]_vars
  PROVE  CallInv'
  BY TypeStep, EraseStep, ApartStep, NumberedStep, FreeStep DEF CallInv

\* When callers of one name stay out of each other's way and put a name again
\* only after they removed it, every place that is taken belongs to an object
\* or to a call in progress, also when replies are lost (blob_store.cpp:20-82).
THEOREM NoSpaceOrphaned ==
  ASSUME Overlap = FALSE, Reput = FALSE
  PROVE  Spec => []NothingLeaked
<1>1. Init => NothingLeaked
  BY DEF Init, NothingLeaked
<1>2. CallInv /\ NothingLeaked /\ [Next]_vars => CallInv' /\ NothingLeaked'
  BY CallStep, LeakStep DEF CallInv
<1> QED
  BY <1>1, <1>2, CallInit, PTL DEF Spec

-----------------------------------------------------------------------------
(* A get returns what the put wrote                                        *)

\* The inode of a name, and the bytes at its places, stay.
Untouched(n) ==
  /\ index'[n] = index[n] /\ last'[n] = last[n] /\ s3'[n] = s3[n]
  /\ index[n] # NoInode =>
       \A i \in DOMAIN index[n].slices :
         mem'[index[n].slices[i].place] = mem[index[n].slices[i].place]

UntouchedCall(c) ==
  /\ pc'[c] = pc[c] /\ name'[c] = name[c] /\ inode'[c] = inode[c]
  /\ idx'[c] = idx[c] /\ got'[c] = got[c] /\ put'[c] = put[c]

PutsKept == Len(puts) <= Len(puts') /\ \A k \in 1 .. Len(puts) : puts'[k] = puts[k]

LEMMA StoredKept ==
  ASSUME TypeInv, NEW n \in Name, NEW k, Stored(n, k), Untouched(n), PutsKept
  PROVE  Stored(n, k)'
<1>1. k \in 1 .. Len(puts') /\ puts'[k] = puts[k]
  BY DEF Stored, PutsKept, TypeInv
<1> QED
  BY <1>1 DEF Stored, Untouched

\* Nobody writes where somebody reads.
LEMMA ReaderIsQuiet ==
  ASSUME CallersApart, NEW c \in Client, ~Writing(c)
  PROVE  Quiet(name[c])
  BY DEF CallersApart, Quiet

\* What a step of one call leaves alone keeps its part of the invariant: the
\* other names, and the calls on them.
LEMMA OthersKept ==
  ASSUME CallInv, ContentInv, PutsKept, NEW c \in Client, NEW M \in SUBSET Name,
         \A n \in Name \ M : Untouched(n) /\ (Quiet(n)' => Quiet(n)),
         \A d \in Client \ {c} : name[d] \notin M /\ UntouchedCall(d)
  PROVE  /\ \A n \in Name \ M : ObjectOK(n)'
         /\ \A d \in Client \ {c} : PutOK(d)' /\ GetOK(d)'
<1> USE DEF CallInv, TypeInv, TypeOK
<1>1. ASSUME NEW n \in Name \ M PROVE ObjectOK(n)'
  <2> SUFFICES ASSUME Quiet(n)', last'[n] # 0 PROVE Stored(n, last[n])'
    BY DEF ObjectOK
  <2>1. Untouched(n) /\ Quiet(n)
    BY <1>1
  <2>2. PICK k : k = last[n]
    OBVIOUS
  <2>3. last'[n] = k /\ Stored(n, k)
    BY <1>1, <2>1, <2>2 DEF ContentInv, ObjectOK, Untouched
  <2>4. Stored(n, k)'
    BY <1>1, <2>1, <2>3, StoredKept
  <2> QED
    BY <2>3, <2>4
<1>2. ASSUME NEW d \in Client \ {c} PROVE PutOK(d)' /\ GetOK(d)'
  <2>1. name[d] \notin M /\ UntouchedCall(d) /\ PutOK(d) /\ GetOK(d)
    BY DEF ContentInv
  <2>2. CASE pc[d] = "idle"
    BY <2>1, <2>2 DEF UntouchedCall, PutOK, GetOK
  <2>3. CASE pc[d] # "idle"
    <3>1. name[d] \in Name \ M
      BY <2>1, <2>3 DEF CallOK
    <3>2. Untouched(name[d])
      BY <3>1
    <3>3. PutOK(d)'
      <4>1. pc[d] \in {"insert", "write"} => puts'[put[d]] = puts[put[d]]
        BY DEF PutNumbered, PutsKept
      <4>2. ASSUME pc[d] = "write", NEW i \in 1 .. idx[d] - 1
            PROVE  mem'[inode[d].slices[i].place] = mem[inode[d].slices[i].place]
        <5>1. index[name[d]] = inode[d] /\ inode[d] \in Inode /\ inode[d] # NoInode
          BY <2>1, <4>2, InodeAssumption DEF PutOK, CallOK
        <5>2. i \in DOMAIN inode[d].slices
          BY <2>1, <4>2, <5>1 DEF PutOK, Inode
        <5> QED
          BY <3>2, <5>1, <5>2 DEF Untouched
      <4>3. /\ pc'[d] = pc[d] /\ name'[d] = name[d] /\ inode'[d] = inode[d]
            /\ idx'[d] = idx[d] /\ put'[d] = put[d]
            /\ index'[name[d]] = index[name[d]] /\ last'[name[d]] = last[name[d]]
        BY <2>1, <3>2 DEF UntouchedCall, Untouched
      <4>4. CASE pc[d] = "write"
        <5>1. \A i \in 1 .. idx[d] - 1 : mem'[inode[d].slices[i].place] = <<put[d], i>>
          BY <2>1, <4>2, <4>4 DEF PutOK
        <5>2. puts'[put[d]] = puts[put[d]]
          BY <4>1, <4>4
        <5> QED
          BY <2>1, <4>3, <4>4, <5>1, <5>2 DEF PutOK
      <4>5. CASE pc[d] # "write"
        BY <2>1, <4>1, <4>3, <4>5 DEF PutOK
      <4> QED
        BY <4>4, <4>5
    <3>4. GetOK(d)'
      <4>1. ASSUME pc[d] = "got", last[name[d]] # 0
            PROVE  got'[d] = Content(last[name[d]])'
        <5>1. Quiet(name[d])
          BY <4>1, ReaderIsQuiet DEF Writing
        <5>2. last[name[d]] \in 1 .. Len(puts)
          BY <3>1, <4>1, <5>1 DEF ContentInv, ObjectOK, Stored
        <5>3. PICK k : k = last[name[d]]
          OBVIOUS
        <5>4. last'[name'[d]] = k /\ got'[d] = Content(k)
          BY <2>1, <3>2, <4>1, <5>3 DEF Untouched, UntouchedCall, GetOK
        <5>5. Content(k)' = Content(k)
          BY <5>2, <5>3 DEF Content, PutsKept
        <5> QED
          BY <5>4, <5>5
      <4>2. CASE pc[d] = "got"
        BY <2>1, <3>2, <4>1, <4>2 DEF GetOK, UntouchedCall, Untouched
      <4>3. CASE pc[d] # "got"
        BY <2>1, <3>2, <4>3 DEF GetOK, UntouchedCall, Untouched
      <4> QED
        BY <4>2, <4>3
    <3> QED
      BY <3>3, <3>4
  <2> QED
    BY <2>2, <2>3
<1> QED
  BY <1>1, <1>2

LEMMA FunctionsStep ==
  ASSUME FunctionsOK, [Next]_vars
  PROVE  FunctionsOK'
<1> USE DEF FunctionsOK
<1>1. \/ got' = got
      \/ \E c \in Client : \E v : got' = [got EXCEPT ![c] = v]
  <2>1. ASSUME NEW c \in Client, NEW n \in Name,
               \/ Put(c, n) \/ GetFound(c, n) \/ GetMissing(c, n) \/ RemoveFind(c, n)
               \/ RemoveMissing(c, n)
        PROVE  got' = got
    BY <2>1 DEF Put, PutSmall, PutLarge, PutRefused, GetFound, GetMissing, RemoveFind,
       RemoveMissing, Begin, call
  <2>2. ASSUME NEW c \in Client, Insert(c) \/ ReplyLost(c) \/ Erase(c) PROVE got' = got
    BY <2>2 DEF Insert, ReplyLost, Erase, Begin
  <2>3. ASSUME NEW c \in Client,
               \/ WriteSlice(c) \/ WriteS3(c) \/ ReadSlice(c) \/ ReadS3(c) \/ GetReturns(c)
               \/ FreeSlice(c) \/ FreeBlocks(c)
        PROVE  got' = got \/ \E v : got' = [got EXCEPT ![c] = v]
    BY <2>3 DEF WriteSlice, WriteS3, ReadSlice, ReadS3, GetReturns, FreeSlice, FreeBlocks,
       PutDone, Return
  <2>4. CASE UNCHANGED vars
    BY <2>4 DEF vars, call
  <2> QED
    BY <2>1, <2>2, <2>3, <2>4 DEF Next, Call, Continue
<1>2. \/ mem' = mem
      \/ \E b, v : mem' = [mem EXCEPT ![b] = v]
  <2>1. ASSUME NEW c \in Client, NEW n \in Name,
               \/ Put(c, n) \/ GetFound(c, n) \/ GetMissing(c, n) \/ RemoveFind(c, n)
               \/ RemoveMissing(c, n)
        PROVE  mem' = mem
    BY <2>1 DEF Put, PutSmall, PutLarge, PutRefused, GetFound, GetMissing, RemoveFind,
       RemoveMissing, store
  <2>2. ASSUME NEW c \in Client,
               \/ Insert(c) \/ ReplyLost(c) \/ Erase(c) \/ WriteS3(c) \/ ReadSlice(c)
               \/ ReadS3(c) \/ GetReturns(c) \/ FreeSlice(c) \/ FreeBlocks(c)
        PROVE  mem' = mem
    BY <2>2 DEF Insert, ReplyLost, Erase, WriteS3, ReadSlice, ReadS3, GetReturns, FreeSlice,
       FreeBlocks, store
  <2>3. ASSUME NEW c \in Client, WriteSlice(c)
        PROVE  \E b, v : mem' = [mem EXCEPT ![b] = v]
    BY <2>3 DEF WriteSlice
  <2>4. CASE UNCHANGED vars
    BY <2>4 DEF vars, store
  <2> QED
    BY <2>1, <2>2, <2>3, <2>4 DEF Next, Call, Continue
<1>3. got' = [c \in Client |-> got'[c]]
  BY <1>1
<1>4. mem' = [b \in Block |-> mem'[b]]
  BY <1>2
<1> QED
  BY <1>3, <1>4

\* A call begins.
LEMMA BeginKeeps ==
  ASSUME CallInv, ContentInv, FunctionsOK', PutsKept, NEW c \in Client, NEW n, NEW l, NEW ino,
         pc[c] = "idle", Begin(c, l, n, ino), UNCHANGED <<index, last, s3, mem>>,
         \A d \in Client \ {c} : put'[d] = put[d],
         PutOK(c)',
         l # "got", got[c] = <<>> => GetOK(c)'
  PROVE  ContentInv'
<1>1. \A m \in Name \ {} : Untouched(m) /\ (Quiet(m)' => Quiet(m))
  BY DEF Untouched, Quiet, Writing, Begin, CallInv, TypeInv, TypeOK
<1>2. \A d \in Client \ {c} : name[d] \notin {} /\ UntouchedCall(d)
  BY DEF UntouchedCall, Begin, CallInv, TypeInv, TypeOK
<1>3. GetOK(c)'
  BY DEF ContentInv, GetOK
<1>4. {} \in SUBSET Name
  OBVIOUS
<1>5. /\ \A m \in Name \ {} : ObjectOK(m)'
      /\ \A d \in Client \ {c} : PutOK(d)' /\ GetOK(d)'
  BY <1>1, <1>2, <1>4, OthersKept
<1> QED
  BY <1>3, <1>5 DEF ContentInv

\* A step that changes the locals of a get only.
LEMMA ReadKeeps ==
  ASSUME CallInv, ContentInv, FunctionsOK', NEW c \in Client, ~Writing(c),
         UNCHANGED <<index, last, s3, mem, puts>>,
         \A d \in Client \ {c} : UntouchedCall(d),
         PutOK(c)', GetOK(c)'
  PROVE  ContentInv'
<1>1. \A m \in Name \ {} : Untouched(m) /\ (Quiet(m)' => Quiet(m))
  BY DEF Untouched, Quiet, Writing, UntouchedCall
<1>2. PutsKept
  BY DEF PutsKept, CallInv, TypeInv
<1>3. \A d \in Client \ {c} : name[d] \notin {} /\ UntouchedCall(d)
  OBVIOUS
<1>4. {} \in SUBSET Name
  OBVIOUS
<1>5. /\ \A m \in Name \ {} : ObjectOK(m)'
      /\ \A d \in Client \ {c} : PutOK(d)' /\ GetOK(d)'
  BY <1>1, <1>2, <1>3, <1>4, OthersKept
<1> QED
  BY <1>5 DEF ContentInv

\* A step of the one call that puts or removes m.
LEMMA WriteKeeps ==
  ASSUME CallInv, ContentInv, FunctionsOK', NEW c \in Client, Writing(c),
         puts' = puts, NEW m \in Name, name[c] = m,
         \A n \in Name \ {m} : Untouched(n),
         \A d \in Client \ {c} : UntouchedCall(d),
         ObjectOK(m)', PutOK(c)', GetOK(c)'
  PROVE  ContentInv'
<1>1. \A n \in Name \ {m} : Quiet(n)' => Quiet(n)
  BY DEF Quiet, Writing, UntouchedCall
<1>2. PutsKept
  BY DEF PutsKept, CallInv, TypeInv
<1>3. \A d \in Client \ {c} : name[d] \notin {m} /\ UntouchedCall(d)
  BY DEF CallInv, CallersApart
<1>4. {m} \in SUBSET Name
  OBVIOUS
<1>5. /\ \A n \in Name \ {m} : ObjectOK(n)'
      /\ \A d \in Client \ {c} : PutOK(d)' /\ GetOK(d)'
  BY <1>1, <1>2, <1>3, <1>4, OthersKept
<1> QED
  BY <1>5 DEF ContentInv

\* A put begins with its number and the slices it will write.
LEMMA NewPutContent ==
  ASSUME CallInv, NEW c \in Client, NEW n \in Name, NEW k \in Nat, NewPut(c, n, k)
  PROVE  /\ PutsKept
         /\ put'[c] = Len(puts) + 1 /\ puts'[Len(puts) + 1] = [name |-> n, pieces |-> k]
         /\ \A d \in Client \ {c} : put'[d] = put[d]
         /\ UNCHANGED last
<1> USE DEF CallInv, TypeInv, TypeOK
<1>1. puts' = Append(puts, [name |-> n, pieces |-> k]) /\ Len(puts) \in Nat
  BY DEF NewPut
<1>2. PutsKept /\ puts'[Len(puts) + 1] = [name |-> n, pieces |-> k]
  BY <1>1 DEF PutsKept
<1>3. put'[c] = Len(puts) + 1 /\ \A d \in Client \ {c} : put'[d] = put[d]
  BY DEF NewPut
<1> QED
  BY <1>2, <1>3 DEF NewPut

LEMMA PutContent ==
  ASSUME CallInv, ContentInv, FunctionsOK', NEW c \in Client, NEW n \in Name,
         NEW ino \in Inode, NEW k \in Nat,
         pc[c] = "idle", Begin(c, "insert", n, ino), NewPut(c, n, k),
         UNCHANGED <<index, s3, mem>>,
         ino.lifetime # 0, Len(ino.slices) = k, k >= 1
  PROVE  ContentInv'
<1>1. /\ PutsKept
      /\ put'[c] = Len(puts) + 1 /\ puts'[Len(puts) + 1] = [name |-> n, pieces |-> k]
      /\ \A d \in Client \ {c} : put'[d] = put[d]
      /\ UNCHANGED last
  BY NewPutContent
<1>2. pc'[c] = "insert" /\ inode'[c] = ino /\ idx'[c] = 1 /\ got' = got
  BY DEF Begin, CallInv, TypeInv, TypeOK
<1>3. PutOK(c)'
  BY <1>1, <1>2 DEF PutOK
<1>4. got[c] = <<>> => GetOK(c)'
  BY <1>2 DEF GetOK
<1> QED
  BY <1>1, <1>3, <1>4, BeginKeeps

LEMMA PlaceType ==
  ASSUME NEW ino \in Inode, NEW i \in DOMAIN ino.slices
  PROVE  ino.slices[i].place \in Block
<1>1. ino.slices \in Seq(Piece)
  BY DEF Inode
<1>2. ino.slices[i] \in Piece
  BY <1>1
<1> QED
  BY <1>2 DEF Piece

\* With no lifetime 0 and no lost reply, what a put has done is what a get finds.
LEMMA ContentStep ==
  ASSUME Overlap = FALSE, Reput = FALSE, MaxLost = 0, 0 \notin Known \cup {IntMax},
         CallInv, SpaceInv, ContentInv, [Next]_vars
  PROVE  ContentInv'
<1> USE DEF CallInv, TypeInv, TypeOK
<1>0. FunctionsOK'
  BY FunctionsStep DEF ContentInv
<1>1. ASSUME NEW c \in Client, NEW n \in Name, NEW s \in Size,
             NEW l \in Known \cup {IntMax}, PutSmall(c, n, s, l)
      PROVE  ContentInv'
  <2>1. PICK b \in avail :
          Begin(c, "insert", n, [slices |-> <<[place |-> b, size |-> s]>>, lifetime |-> l])
    BY <1>1 DEF PutSmall
  <2> DEFINE ino == [slices |-> <<[place |-> b, size |-> s]>>, lifetime |-> l]
  <2>2. ino \in Inode
    BY SmallType, LifetimeType
  <2>3. Len(ino.slices) = 1 /\ ino.lifetime = l
    OBVIOUS
  <2> HIDE DEF ino
  <2>4. /\ Begin(c, "insert", n, ino) /\ NewPut(c, n, 1) /\ pc[c] = "idle"
        /\ UNCHANGED <<index, s3, mem>>
    BY <1>1, <2>1 DEF PutSmall, ino
  <2>5. ino.lifetime # 0 /\ Len(ino.slices) >= 1 /\ 1 \in Nat
    BY <2>3
  <2> QED
    BY <1>0, <2>2, <2>3, <2>4, <2>5, PutContent
<1>2. ASSUME NEW c \in Client, NEW n \in Name, NEW s \in Size,
             NEW l \in Known \cup {IntMax}, PutLarge(c, n, s, l)
      PROVE  ContentInv'
  <2>1. PICK blocks \in Injection(1 .. TotalBlocks(s), avail) :
          Begin(c, "insert", n, [slices |-> SlicesOver(blocks, s), lifetime |-> l])
    BY <1>2 DEF PutLarge
  <2> DEFINE ino == [slices |-> SlicesOver(blocks, s), lifetime |-> l]
  <2>2. ino \in Inode
    <3>1. blocks \in [1 .. TotalBlocks(s) -> Block]
      BY DEF Injection
    <3> QED
      BY <3>1, LargeType, LifetimeType
  <2>3. TotalBlocks(s) \in Nat /\ TotalBlocks(s) >= 1
    BY <1>2, BlocksAndOdds, SizeAssumption DEF PutLarge, IsSmall, TotalBlocks
  <2>4. DOMAIN ino.slices = 1 .. TotalBlocks(s)
    BY DEF SlicesOver, Injection
  <2>5. ino.lifetime = l
    OBVIOUS
  <2> HIDE DEF ino
  <2>6. Len(ino.slices) = TotalBlocks(s)
    BY <2>2, <2>3, <2>4 DEF Inode
  <2>7. /\ Begin(c, "insert", n, ino) /\ NewPut(c, n, TotalBlocks(s)) /\ pc[c] = "idle"
        /\ UNCHANGED <<index, s3, mem>>
    BY <1>2, <2>1 DEF PutLarge, ino
  <2> QED
    BY <1>0, <2>2, <2>3, <2>5, <2>6, <2>7, PutContent
<1>3. ASSUME NEW c \in Client, NEW n \in Name, PutRefused(c, n) PROVE ContentInv'
  <2>1. /\ pc[c] = "idle" /\ Begin(c, "fallback", n, NoInode) /\ NewPut(c, n, 1)
        /\ UNCHANGED <<index, s3, mem>> /\ MayPut(n)
    BY <1>3 DEF PutRefused, store
  <2>2. PutsKept /\ (\A d \in Client \ {c} : put'[d] = put[d]) /\ UNCHANGED last
    BY <2>1, NewPutContent
  <2>3. index[n] = NoInode
    BY <2>1 DEF MayPut, NamesFree, Quiet
  <2>4. pc'[c] = "fallback" /\ name'[c] = n /\ got' = got
    BY <2>1 DEF Begin
  <2>5. PutOK(c)' /\ (got[c] = <<>> => GetOK(c)')
    BY <2>1, <2>3, <2>4 DEF PutOK, GetOK
  <2> QED
    BY <1>0, <2>1, <2>2, <2>5, BeginKeeps
<1>4. ASSUME NEW c \in Client, Insert(c) PROVE ContentInv'
  <2>1. PICK m \in Name : m = name[c]
    BY <1>4 DEF Insert, CallOK
  <2>2. /\ pc[c] = "insert" /\ pc'[c] = "write" /\ \A d \in Client \ {c} : pc'[d] = pc[d]
        /\ UNCHANGED <<mem, s3, name, inode, idx, got, puts, put, last>>
        /\ \A n \in Name \ {m} : index'[n] = index[n]
        /\ index'[m] = inode[c]
    BY <1>4, <2>1 DEF Insert, ghost, Linked, NamesFree
  <2>3. \A n \in Name \ {m} : Untouched(n)
    BY <2>2 DEF Untouched
  <2>4. \A d \in Client \ {c} : UntouchedCall(d)
    BY <2>2 DEF UntouchedCall
  <2>5. ObjectOK(m)'
    BY <2>1, <2>2 DEF ObjectOK, Quiet, Writing
  <2>6. PutOK(c) /\ GetOK(c)
    BY DEF ContentInv
  <2>7. PutOK(c)' /\ GetOK(c)'
    BY <2>1, <2>2, <2>6 DEF PutOK, GetOK
  <2>8. Writing(c) /\ puts' = puts
    BY <2>2 DEF Writing
  <2> QED
    BY <1>0, <2>1, <2>3, <2>4, <2>5, <2>7, <2>8, WriteKeeps
<1>5. ASSUME NEW c \in Client, WriteSlice(c) PROVE ContentInv'
  <2>1. PICK m \in Name : m = name[c]
    BY <1>5 DEF WriteSlice, CallOK
  <2>2. pc[c] = "write" /\ UNCHANGED <<index, s3>>
    BY <1>5 DEF WriteSlice
  <2>3. /\ PutOK(c) /\ index[m] = inode[c] /\ inode[c] \in Inode /\ inode[c] # NoInode
        /\ inode[c].lifetime # 0
        /\ Len(inode[c].slices) = puts[put[c]].pieces
        /\ idx[c] \in 1 .. Len(inode[c].slices)
        /\ \A i \in 1 .. idx[c] - 1 : mem[inode[c].slices[i].place] = <<put[c], i>>
    BY <2>1, <2>2, InodeAssumption DEF ContentInv, PutOK, CallOK
  <2> DEFINE here == inode[c].slices[idx[c]].place
  <2>4. DOMAIN inode[c].slices = 1 .. Len(inode[c].slices) /\ Len(inode[c].slices) \in Nat
    BY <2>3 DEF Inode
  <2>5. \A i \in DOMAIN inode[c].slices : inode[c].slices[i].place \in Block
    BY <2>3, PlaceType
  <2>6. here \in Block /\ mem' = [mem EXCEPT ![here] = <<put[c], idx[c]>>]
    BY <1>5, <2>3, <2>4, <2>5 DEF WriteSlice
  <2>7. mem'[here] = <<put[c], idx[c]>> /\ \A b \in Block \ {here} : mem'[b] = mem[b]
    BY <2>6 DEF ContentInv, FunctionsOK
  <2>8. m \in Holder /\ InodeOf(m) = inode[c]
    BY <2>3 DEF Holder, InodeOf
  <2>9. \A i \in 1 .. idx[c] - 1 : mem'[inode[c].slices[i].place] = <<put[c], i>>
    <3>1. HoldsPlaces(inode[c])
      BY <2>8 DEF SpaceInv, SpaceIsOwned
    <3> SUFFICES ASSUME NEW i \in 1 .. idx[c] - 1
                 PROVE  mem'[inode[c].slices[i].place] = <<put[c], i>>
      OBVIOUS
    <3>2. i \in DOMAIN inode[c].slices /\ idx[c] \in DOMAIN inode[c].slices /\ i # idx[c]
      <4>1. idx[c] \in 1 .. Len(inode[c].slices)
        BY <2>3
      <4> QED
        BY <2>4, <4>1
    <3>3. inode[c].slices[i].place \in Block \ {here}
      BY <2>5, <3>1, <3>2 DEF HoldsPlaces
    <3> QED
      BY <2>3, <2>7, <3>3
  <2>10. ASSUME NEW n \in Name \ {m}, index[n] # NoInode, NEW i \in DOMAIN index[n].slices
         PROVE  mem'[index[n].slices[i].place] = mem[index[n].slices[i].place]
    <3>1. n \in Holder /\ InodeOf(n) = index[n] /\ n # m
      BY <2>10 DEF Holder, InodeOf
    <3>2. Places(index[n]) \cap Places(inode[c]) = {}
      BY <2>8, <3>1 DEF SpaceInv, SpaceIsOwned
    <3>3. index[n].slices[i].place \in Places(index[n]) /\ here \in Places(inode[c])
      BY <2>3, <2>4, <2>10 DEF Places
    <3>4. index[n].slices[i].place \in Block
      BY <2>10, PlaceType
    <3> QED
      BY <2>7, <3>2, <3>3, <3>4
  <2>11. ASSUME UNCHANGED last \/ \A n \in Name \ {m} : last'[n] = last[n]
         PROVE  \A n \in Name \ {m} : Untouched(n)
    BY <2>2, <2>10, <2>11 DEF Untouched
  <2>12. CASE idx[c] = Len(inode[c].slices)
    <3>1. PutDone(c)
      BY <1>5, <2>12 DEF WriteSlice
    <3>2. /\ pc'[c] = "idle" /\ got'[c] = <<>> /\ puts' = puts
          /\ last'[m] = put[c] /\ \A n \in Name \ {m} : last'[n] = last[n]
      BY <2>1, <3>1 DEF PutDone, Return, ContentInv, FunctionsOK
    <3>3. \A d \in Client \ {c} : UntouchedCall(d)
      BY <3>1 DEF PutDone, Return, UntouchedCall, ContentInv, FunctionsOK
    <3>4. PutOK(c)' /\ GetOK(c)'
      BY <3>2 DEF PutOK, GetOK
    <3>5. PICK k : k = put[c]
      OBVIOUS
    <3>6. Stored(m, k)'
      <4>1. k \in 1 .. Len(puts') /\ puts'[k] = puts[k]
        BY <2>2, <3>2, <3>5 DEF PutNumbered
      <4>2. \A i \in DOMAIN inode[c].slices : mem'[inode[c].slices[i].place] = <<k, i>>
        <5> SUFFICES ASSUME NEW i \in DOMAIN inode[c].slices
                     PROVE  mem'[inode[c].slices[i].place] = <<k, i>>
          OBVIOUS
        <5>1. i \in 1 .. idx[c] - 1 \/ i = idx[c]
          BY <2>3, <2>4, <2>12
        <5> QED
          BY <2>7, <2>9, <3>5, <5>1
      <4>3. Len(inode[c].slices) >= 1
        BY <2>3, <2>4
      <4>4. index'[m] = inode[c] /\ inode[c] # NoInode /\ inode[c].lifetime # 0
        BY <2>2, <2>3
      <4>5. Len(inode[c].slices) = puts'[k].pieces
        BY <2>3, <3>5, <4>1
      <4> QED
        BY <4>1, <4>2, <4>3, <4>4, <4>5 DEF Stored
    <3>7. ObjectOK(m)'
      BY <3>2, <3>5, <3>6 DEF ObjectOK
    <3>8. Writing(c)
      BY <2>2 DEF Writing
    <3> QED
      BY <1>0, <2>1, <2>11, <3>2, <3>3, <3>4, <3>7, <3>8, WriteKeeps
  <2>13. CASE idx[c] # Len(inode[c].slices)
    <3>1. /\ idx' = [idx EXCEPT ![c] = @ + 1]
          /\ UNCHANGED <<pc, name, inode, got, puts, put, last>>
      BY <1>5, <2>13 DEF WriteSlice, ghost
    <3>2. \A d \in Client \ {c} : UntouchedCall(d)
      BY <3>1 DEF UntouchedCall
    <3>3. idx'[c] = idx[c] + 1 /\ idx'[c] \in 1 .. Len(inode[c].slices)
      <4>1. idx \in [Client -> Nat]
        BY DEF ContentInv, FunctionsOK
      <4>2. idx'[c] = idx[c] + 1
        BY <3>1, <4>1
      <4>3. idx[c] \in 1 .. Len(inode[c].slices) /\ Len(inode[c].slices) \in Nat
        BY <2>3, <2>4
      <4> QED
        BY <2>13, <4>2, <4>3
    <3>4. \A i \in 1 .. idx'[c] - 1 : mem'[inode[c].slices[i].place] = <<put[c], i>>
      <4> SUFFICES ASSUME NEW i \in 1 .. idx'[c] - 1
                   PROVE  mem'[inode[c].slices[i].place] = <<put[c], i>>
        OBVIOUS
      <4>1. i \in 1 .. idx[c] - 1 \/ i = idx[c]
        BY <3>3
      <4> QED
        BY <2>7, <2>9, <4>1
    <3>5. PutOK(c)'
      BY <2>1, <2>2, <2>3, <3>1, <3>3, <3>4 DEF PutOK
    <3>6. GetOK(c)'
      BY <2>2, <3>1 DEF GetOK, ContentInv
    <3>7. ObjectOK(m)'
      BY <2>1, <2>2, <3>1 DEF ObjectOK, Quiet, Writing
    <3>8. Writing(c) /\ puts' = puts
      BY <2>2, <3>1 DEF Writing
    <3> QED
      BY <1>0, <2>1, <2>11, <3>1, <3>2, <3>5, <3>6, <3>7, <3>8, WriteKeeps
  <2> QED
    BY <2>12, <2>13
<1>6. ASSUME NEW c \in Client, WriteS3(c) PROVE ContentInv'
  <2>1. PICK m \in Name : m = name[c]
    BY <1>6 DEF WriteS3, CallOK
  <2>2. pc[c] = "fallback" /\ PutDone(c) /\ UNCHANGED <<index, mem>>
    BY <1>6 DEF WriteS3, store
  <2>3. PICK k : k = put[c]
    OBVIOUS
  <2>4. /\ pc'[c] = "idle" /\ got'[c] = <<>> /\ puts' = puts
        /\ last'[m] = k /\ \A n \in Name \ {m} : last'[n] = last[n]
    BY <2>1, <2>2, <2>3 DEF PutDone, Return, ContentInv, FunctionsOK
  <2>5. s3'[m] = k /\ \A n \in Name \ {m} : s3'[n] = s3[n]
    BY <1>6, <2>1, <2>3 DEF WriteS3
  <2>6. \A n \in Name \ {m} : Untouched(n)
    BY <2>2, <2>4, <2>5 DEF Untouched
  <2>7. \A d \in Client \ {c} : UntouchedCall(d)
    BY <2>2 DEF PutDone, Return, UntouchedCall, ContentInv, FunctionsOK
  <2>8. PutOK(c)' /\ GetOK(c)'
    BY <2>4 DEF PutOK, GetOK
  <2>9. index[m] = NoInode /\ k \in 1 .. Len(puts)
    BY <2>1, <2>2, <2>3 DEF ContentInv, PutOK, PutNumbered
  <2>10. ObjectOK(m)'
    BY <2>2, <2>4, <2>5, <2>9 DEF ObjectOK, Stored
  <2>11. Writing(c)
    BY <2>2 DEF Writing
  <2> QED
    BY <1>0, <2>1, <2>4, <2>6, <2>7, <2>8, <2>10, <2>11, WriteKeeps
<1>7. ASSUME NEW c \in Client, ReplyLost(c) PROVE ContentInv'
  BY <1>7 DEF ReplyLost
<1>8. ASSUME NEW c \in Client, NEW n \in Name, GetFound(c, n) \/ GetMissing(c, n)
      PROVE  ContentInv'
  <2>1. /\ pc[c] = "idle" /\ Quiet(n)
        /\ UNCHANGED <<index, s3, mem, last, puts, put>>
    BY <1>8 DEF GetFound, GetMissing, MayGet, Quiet, store, ghost
  <2>2. PutsKept
    BY <2>1 DEF PutsKept
  <2>3. last[n] # 0 => Stored(n, last[n])
    BY <2>1 DEF ContentInv, ObjectOK
  <2>4. last[n] = 0 => index[n] = NoInode
    BY <2>1 DEF NamesFree
  <2>5. CASE GetFound(c, n)
    <3>1. Begin(c, "read", n, index[n]) /\ index[n] # NoInode
      BY <2>5 DEF GetFound, InMemory
    <3>2. /\ pc'[c] = "read" /\ name'[c] = n /\ inode'[c] = index[n] /\ idx'[c] = 1
          /\ got' = got
      BY <3>1 DEF Begin
    <3>3. last[n] # 0 /\ Len(index[n].slices) \in Nat /\ Len(index[n].slices) >= 1
      BY <2>3, <2>4, <3>1 DEF Stored, Inode
    <3>4. 1 \in 1 .. Len(index[n].slices)
      BY <3>3
    <3>5. PutOK(c)'
      BY <3>2 DEF PutOK
    <3>6. ASSUME got[c] = <<>> PROVE GetOK(c)'
      <4>1. <<>> = [i \in 1 .. 1 - 1 |-> <<last[n], i>>]
        OBVIOUS
      <4> QED
        BY <2>1, <3>2, <3>3, <3>4, <3>6, <4>1 DEF GetOK
    <3> QED
      BY <1>0, <2>1, <2>2, <3>1, <3>5, <3>6, BeginKeeps
  <2>6. CASE GetMissing(c, n)
    <3>1. Begin(c, "s3", n, NoInode) /\ ~InMemory(index[n])
      BY <2>6 DEF GetMissing
    <3>2. pc'[c] = "s3" /\ name'[c] = n /\ got' = got
      BY <3>1 DEF Begin
    <3>3. index[n] = NoInode
      BY <2>3, <2>4, <3>1 DEF Stored, InMemory
    <3>4. PutOK(c)' /\ (got[c] = <<>> => GetOK(c)')
      BY <2>1, <3>2, <3>3 DEF PutOK, GetOK
    <3> QED
      BY <1>0, <2>1, <2>2, <3>1, <3>4, BeginKeeps
  <2> QED
    BY <1>8, <2>5, <2>6
<1>9. ASSUME NEW c \in Client, ReadSlice(c) PROVE ContentInv'
  <2>1. /\ pc[c] = "read" /\ name[c] \in Name
        /\ UNCHANGED <<index, s3, mem, last, puts, put, name, inode>>
    BY <1>9 DEF ReadSlice, store, ghost, CallOK
  <2>2. ~Writing(c) /\ Quiet(name[c])
    BY <2>1, ReaderIsQuiet DEF Writing
  <2>3. PICK k : k = last[name[c]]
    OBVIOUS
  <2>4. /\ index[name[c]] = inode[c] /\ k # 0 /\ idx[c] \in 1 .. Len(inode[c].slices)
        /\ got[c] = [i \in 1 .. idx[c] - 1 |-> <<k, i>>]
        /\ inode[c] \in Inode /\ inode[c] # NoInode
    BY <2>1, <2>3, InodeAssumption DEF ContentInv, GetOK, CallOK
  <2>5. Stored(name[c], k)
    BY <2>1, <2>2, <2>3, <2>4 DEF ContentInv, ObjectOK
  <2>6. idx[c] \in Nat /\ idx[c] \in DOMAIN inode[c].slices /\ Len(inode[c].slices) \in Nat
    BY <2>4 DEF Inode
  <2>7. mem[inode[c].slices[idx[c]].place] = <<k, idx[c]>>
    BY <2>4, <2>5, <2>6 DEF Stored
  <2>8. got'[c] = [i \in 1 .. idx[c] |-> <<k, i>>]
    <3>1. got'[c] = Append(got[c], <<k, idx[c]>>)
      BY <1>9, <2>7 DEF ReadSlice, ContentInv, FunctionsOK
    <3> QED
      BY <2>4, <2>6, <3>1
  <2>9. \A d \in Client \ {c} : UntouchedCall(d)
    BY <1>9, <2>1 DEF ReadSlice, UntouchedCall, ContentInv, FunctionsOK
  <2>10. PutOK(c)' /\ GetOK(c)'
    <3>1. CASE idx[c] = Len(inode[c].slices)
      <4>1. pc'[c] = "got"
        BY <1>9, <3>1 DEF ReadSlice
      <4>2. Content(k)' = got'[c]
        BY <2>1, <2>4, <2>5, <2>8, <3>1 DEF Content, Stored
      <4> QED
        BY <2>1, <2>3, <4>1, <4>2 DEF PutOK, GetOK
    <3>2. CASE idx[c] # Len(inode[c].slices)
      <4>1. pc'[c] = "read" /\ idx'[c] = idx[c] + 1
        BY <1>9, <2>1, <3>2 DEF ReadSlice
      <4>2. idx'[c] \in 1 .. Len(inode[c].slices) /\ idx'[c] - 1 = idx[c]
        BY <2>4, <2>6, <3>2, <4>1
      <4>3. got'[c] = [i \in 1 .. idx'[c] - 1 |-> <<k, i>>]
        BY <2>8, <4>2
      <4> QED
        BY <2>1, <2>3, <2>4, <4>1, <4>2, <4>3 DEF PutOK, GetOK
    <3> QED
      BY <3>1, <3>2
  <2> QED
    BY <1>0, <2>1, <2>2, <2>9, <2>10, ReadKeeps
<1>10. ASSUME NEW c \in Client, ReadS3(c) PROVE ContentInv'
  <2>1. /\ pc[c] = "s3" /\ name[c] \in Name /\ pc' = [pc EXCEPT ![c] = "got"]
        /\ UNCHANGED <<index, s3, mem, last, puts, put, name, inode, idx>>
    BY <1>10 DEF ReadS3, store, ghost, CallOK
  <2>2. ~Writing(c) /\ Quiet(name[c])
    BY <2>1, ReaderIsQuiet DEF Writing
  <2>3. PICK k : k = last[name[c]]
    OBVIOUS
  <2>4. k # 0 => s3[name[c]] = k
    BY <2>1, <2>2, <2>3 DEF ContentInv, ObjectOK, Stored, GetOK
  <2>5. k # 0 => got'[c] = Content(k)
    BY <1>10, <2>4 DEF ReadS3, ContentInv, FunctionsOK
  <2>6. Content(k)' = Content(k)
    BY <2>1 DEF Content
  <2>7. PutOK(c)' /\ GetOK(c)'
    BY <2>1, <2>3, <2>5, <2>6 DEF PutOK, GetOK
  <2>8. \A d \in Client \ {c} : UntouchedCall(d)
    BY <1>10, <2>1 DEF ReadS3, UntouchedCall, ContentInv, FunctionsOK
  <2> QED
    BY <1>0, <2>1, <2>2, <2>7, <2>8, ReadKeeps
<1>11. ASSUME NEW c \in Client, GetReturns(c) PROVE ContentInv'
  <2>1. ~Writing(c) /\ Return(c) /\ UNCHANGED <<index, s3, mem, last, puts, put>>
    BY <1>11 DEF GetReturns, Writing, store, ghost
  <2>2. pc'[c] = "idle" /\ got'[c] = <<>>
    BY <2>1 DEF Return, ContentInv, FunctionsOK
  <2>3. PutOK(c)' /\ GetOK(c)'
    BY <2>2 DEF PutOK, GetOK
  <2>4. \A d \in Client \ {c} : UntouchedCall(d)
    BY <2>1 DEF Return, UntouchedCall, ContentInv, FunctionsOK
  <2> QED
    BY <1>0, <2>1, <2>3, <2>4, ReadKeeps
<1>12. ASSUME NEW c \in Client, NEW n \in Name, RemoveMissing(c, n) PROVE ContentInv'
  <2>1. /\ \A d \in Client : name[d] # n
        /\ UNCHANGED <<index, s3, mem, pc, name, inode, idx, got, puts, put>>
        /\ last'[n] = 0 /\ \A m \in Name \ {n} : last'[m] = last[m]
        /\ pc[c] = "idle"
    BY <1>12 DEF RemoveMissing, MayRemove, store, call
  <2>2. {n} \in SUBSET Name /\ PutsKept
    BY <2>1 DEF PutsKept
  <2>3. \A m \in Name \ {n} : Untouched(m) /\ (Quiet(m)' => Quiet(m))
    BY <2>1 DEF Untouched, Quiet, Writing
  <2>4. \A d \in Client \ {c} : name[d] \notin {n} /\ UntouchedCall(d)
    BY <2>1 DEF UntouchedCall
  <2>5. /\ \A m \in Name \ {n} : ObjectOK(m)'
        /\ \A d \in Client \ {c} : PutOK(d)' /\ GetOK(d)'
    BY <2>2, <2>3, <2>4, OthersKept
  <2>6. ObjectOK(n)'
    BY <2>1 DEF ObjectOK
  <2>7. PutOK(c)' /\ GetOK(c)'
    BY <2>1 DEF PutOK, GetOK, ContentInv
  <2> QED
    BY <1>0, <2>5, <2>6, <2>7 DEF ContentInv
<1>13. ASSUME NEW c \in Client, NEW n \in Name, RemoveFind(c, n) PROVE ContentInv'
  <2>1. /\ pc[c] = "idle" /\ Begin(c, "erase", n, index[n])
        /\ UNCHANGED <<index, s3, mem, last, puts, put>>
    BY <1>13 DEF RemoveFind, ghost
  <2>2. pc'[c] = "erase" /\ got' = got
    BY <2>1 DEF Begin
  <2>3. PutOK(c)' /\ (got[c] = <<>> => GetOK(c)')
    BY <2>2 DEF PutOK, GetOK
  <2>4. PutsKept
    BY <2>1 DEF PutsKept
  <2> QED
    BY <1>0, <2>1, <2>3, <2>4, BeginKeeps
<1>14. ASSUME NEW c \in Client, Erase(c) PROVE ContentInv'
  <2>1. PICK m \in Name : m = name[c]
    BY <1>14 DEF Erase, CallOK
  <2>2. /\ pc[c] = "erase" /\ pc' = [pc EXCEPT ![c] = "free"]
        /\ UNCHANGED <<mem, s3, name, inode, idx, got, puts, put>>
        /\ last'[m] = 0
        /\ \A n \in Name \ {m} : index'[n] = index[n] /\ last'[n] = last[n]
    BY <1>14, <2>1 DEF Erase
  <2>3. \A n \in Name \ {m} : Untouched(n)
    BY <2>2 DEF Untouched
  <2>4. \A d \in Client \ {c} : UntouchedCall(d)
    BY <2>2 DEF UntouchedCall
  <2>5. ObjectOK(m)' /\ Writing(c) /\ puts' = puts
    BY <2>2 DEF ObjectOK, Writing
  <2>6. PutOK(c)' /\ GetOK(c)'
    BY <2>1, <2>2 DEF PutOK, GetOK, ContentInv
  <2> QED
    BY <1>0, <2>1, <2>3, <2>4, <2>5, <2>6, WriteKeeps
<1>15. ASSUME NEW c \in Client, FreeSlice(c) \/ FreeBlocks(c) PROVE ContentInv'
  <2>1. PICK m \in Name : m = name[c]
    BY <1>15 DEF FreeSlice, FreeBlocks, CallOK
  <2>2. /\ pc[c] = "free" /\ Return(c)
        /\ UNCHANGED <<index, mem, s3, puts, put, last>>
    BY <1>15 DEF FreeSlice, FreeBlocks, ghost
  <2>3. pc'[c] = "idle" /\ got'[c] = <<>> /\ last[m] = 0
    BY <2>1, <2>2 DEF Return, PutOK, ContentInv, FunctionsOK
  <2>4. \A n \in Name \ {m} : Untouched(n)
    BY <2>2 DEF Untouched
  <2>5. \A d \in Client \ {c} : UntouchedCall(d)
    BY <2>2 DEF Return, UntouchedCall, ContentInv, FunctionsOK
  <2>6. ObjectOK(m)' /\ Writing(c)
    BY <2>2, <2>3 DEF ObjectOK, Writing
  <2>7. PutOK(c)' /\ GetOK(c)'
    BY <2>3 DEF PutOK, GetOK
  <2> QED
    BY <1>0, <2>1, <2>2, <2>4, <2>5, <2>6, <2>7, WriteKeeps
<1>16. CASE UNCHANGED vars
  <2>1. UNCHANGED <<index, mem, s3, pc, name, inode, idx, got, puts, put, last>>
    BY <1>16 DEF vars, store, call, ghost
  <2>2. \A n \in Name : Untouched(n) /\ (Quiet(n)' => Quiet(n))
    BY <2>1 DEF Untouched, Quiet, Writing
  <2>3. PutsKept
    BY <2>1 DEF PutsKept
  <2>4. ASSUME NEW c \in Client PROVE ContentInv'
    <3>1. \A d \in Client \ {c} : UntouchedCall(d)
      BY <2>1 DEF UntouchedCall
    <3>2. {} \in SUBSET Name
      OBVIOUS
    <3>3. /\ \A n \in Name \ {} : ObjectOK(n)'
          /\ \A d \in Client \ {c} : PutOK(d)' /\ GetOK(d)'
      BY <2>2, <2>3, <3>1, <3>2, OthersKept
    <3>4. Content(last[name[c]])' = Content(last[name[c]])
      BY <2>1 DEF Content
    <3>5. PutOK(c) /\ GetOK(c)
      BY DEF ContentInv
    <3>6. PutOK(c)'
      BY <2>1, <3>5 DEF PutOK
    <3>7. GetOK(c)'
      BY <2>1, <3>4, <3>5 DEF GetOK
    <3> QED
      BY <1>0, <3>3, <3>6, <3>7 DEF ContentInv
  <2>5. CASE Client = {}
    <3>1. \A n \in Name : ObjectOK(n)'
      BY <2>1, <2>2, <2>3, StoredKept DEF ContentInv, ObjectOK, Untouched
    <3> QED
      BY <1>0, <2>5, <3>1 DEF ContentInv
  <2> QED
    BY <2>4, <2>5
<1> QED
  BY <1>1, <1>2, <1>3, <1>4, <1>5, <1>6, <1>7, <1>8, <1>9, <1>10, <1>11, <1>12, <1>13,
     <1>14, <1>15, <1>16 DEF Next, Call, Continue, Put

\* With the same callers, no lost reply and no lifetime of 0, a get returns
\* what the put of that name wrote, from the storage servers or from S3,
\* whatever other names' objects do with the space (hive_client.cpp:28-110).
THEOREM GetsReturnPuts ==
  ASSUME Overlap = FALSE, Reput = FALSE, MaxLost = 0, 0 \notin Known \cup {IntMax}
  PROVE  Spec => []GetReturnsPut
<1>1. Init => SpaceInv
  BY CallerAssumption DEF Init, SpaceInv, PoolInv, SpaceIsOwned, Holder
<1>2. Init => ContentInv
  BY DEF Init, ContentInv, FunctionsOK, ObjectOK, PutOK, GetOK
<1>3. CallInv /\ SpaceInv /\ ContentInv /\ [Next]_vars => CallInv' /\ SpaceInv' /\ ContentInv'
  BY CallStep, SpaceStep, ContentStep DEF CallInv
<1>4. ContentInv => GetReturnsPut
  BY DEF ContentInv, GetOK, GetReturnsPut
<1> QED
  BY <1>1, <1>2, <1>3, <1>4, CallInit, PTL DEF Spec
=============================================================================
