--------------------------- MODULE MonitorProofs ---------------------------
(***************************************************************************)
(* What holds of Monitor for any workflow that is wired as assumed and any *)
(* interleaving of its functions: the reference counts are exact, objects  *)
(* are released when and only when they are read, gets are served, and the *)
(* monitor implements Collector.                                           *)
(* Beyond types and which calls throw, all of it needs that a function     *)
(* whose call throws makes no further call.                                *)
(***************************************************************************)
EXTENDS Monitor, FiniteSetTheorems, TLAPS

-----------------------------------------------------------------------------
(* Type correctness                                                        *)

Getting == {"lookup", "read", "s3read"}
Committing == {"commit", "test", "release"}
Writing == {"write", "s3write"}
Putting == Committing \cup {"store"} \cup Writing

\* A function gets and puts what it is declared to; an input it is getting is
\* read, an output it is putting is still to be put.
CallOK ==
  \A f \in Function :
    /\ toRead[f] \subseteq Input[f]
    /\ toPut[f] \subseteq Output[f]
    /\ pc[f] \in Getting => obj[f] \in Input[f] \ toRead[f]
    /\ pc[f] \in Putting => obj[f] \in toPut[f]

TypeInv == TypeOK /\ CallOK

LEMMA CountType ==
  ASSUME NEW S \in SUBSET Function
  PROVE  IsFiniteSet(S) /\ Cardinality(S) \in Nat
  BY WorkflowAssumption, FS_Subset, FS_CardinalityType

LEMMA TrackedType == Tracked \subseteq Object /\ \A o \in Object : Readers[o] \in SUBSET Function
  BY WorkflowAssumption DEF Tracked, Piped, Readers

LEMMA InitialRefsType == InitialRefs \in [Tracked -> Nat]
<1>1. ASSUME NEW o \in Tracked PROVE Cardinality(Readers[o]) \in Nat
  <2>1. Readers[o] \in SUBSET Function
    BY TrackedType
  <2> QED
    BY <2>1, CountType
<1> QED
  BY <1>1 DEF InitialRefs

LEMMA TypeInit == Init => TypeInv
  BY WorkflowAssumption, TrackedType DEF Init, TypeInv, TypeOK, CallOK, Getting, Putting,
     Committing, Writing, Label, External

LEMMA TypeStep == TypeInv /\ [Next]_vars => TypeInv'
<1> SUFFICES ASSUME TypeInv, [Next]_vars PROVE TypeInv'
  OBVIOUS
<1> USE WorkflowAssumption DEF TypeInv, TypeOK, CallOK, Getting, Putting, Committing, Writing
<1>1. CASE Registration
  BY <1>1, InitialRefsType DEF Registration, RegisterPredictor, RegisterMonitor,
     DeregisterPredictor, DeregisterMonitor, tables, store, call, program
<1>2. ASSUME NEW f \in Function, NEW o \in Object, HookGet(f, o) PROVE TypeInv'
  BY <1>2, TrackedType DEF HookGet, MayGet, Goto, tables, store, Label
<1>3. ASSUME NEW f \in Function, NEW o \in Object, PlainGet(f, o) PROVE TypeInv'
  BY <1>3, TrackedType DEF PlainGet, MayGet, Goto, tables, store, Label
<1>4. ASSUME NEW f \in Function, NEW o \in Object, HookPut(f, o) PROVE TypeInv'
  BY <1>4, TrackedType DEF HookPut, MayPut, Goto, tables, store, program, Label
<1>5. ASSUME NEW f \in Function, NEW o \in Object, PlainPut(f, o) PROVE TypeInv'
  <2>1. index' \in [Object -> {"none", "memory", "zero"}]
    BY <1>5 DEF PlainPut
  <2>2. /\ pc' \in [Function -> Label] /\ pc'[f] \in Writing
        /\ obj' = [obj EXCEPT ![f] = o] /\ o \in toPut[f]
        /\ \A g \in Function : g # f => pc'[g] = pc[g]
    <3>1. PICK l \in Writing : pc' = [pc EXCEPT ![f] = l]
      BY <1>5 DEF PlainPut
    <3> QED
      BY <1>5, <3>1 DEF PlainPut, MayPut, Label
  <2>3. UNCHANGED <<stage, tables, bytes, s3, idx, program, dropped>>
    BY <1>5 DEF PlainPut
  <2>4. TypeOK'
    BY <2>1, <2>2, <2>3 DEF tables, program
  <2>5. CallOK'
    BY <2>2, <2>3 DEF program
  <2> QED
    BY <2>4, <2>5
<1>6. ASSUME NEW f \in Function, HookGetThrows(f) PROVE TypeInv'
  BY <1>6, TrackedType DEF HookGetThrows, Throw, Goto, tables, store, program, Label
<1>7. ASSUME NEW f \in Function, HookPutThrows(f) PROVE TypeInv'
  BY <1>7, TrackedType DEF HookPutThrows, Throw, Goto, tables, store, program, Label
<1>8. ASSUME NEW f \in Function, LookUp(f) PROVE TypeInv'
  BY <1>8, TrackedType DEF LookUp, tables, store, program, Label
<1>9. ASSUME NEW f \in Function, Read(f) PROVE TypeInv'
  BY <1>9, TrackedType DEF Read, Goto, tables, store, program, Label
<1>10. ASSUME NEW f \in Function, Dec(f) PROVE TypeInv'
  <2>1. /\ buffer[f] \in Seq(Object) /\ idx[f] \in DOMAIN buffer[f]
        /\ Entry(f) \in Object
    BY <1>10 DEF Dec, Entry
  <2>2. refs' \in [Tracked -> Int]
    BY <1>10 DEF Dec, Decremented
  <2>3. dropped' \in [Object -> SUBSET Function]
    <3>1. dropped[Entry(f)] \cup {f} \in SUBSET Function
      BY <2>1
    <3>2. CASE Entry(f) \in Tracked
      <4>1. dropped' = [dropped EXCEPT ![Entry(f)] = dropped[Entry(f)] \cup {f}]
        BY <1>10, <3>2 DEF Dec
      <4> QED
        BY <4>1, <3>1, <2>1
    <3>3. CASE Entry(f) \notin Tracked
      BY <1>10, <3>3 DEF Dec
    <3> QED
      BY <3>2, <3>3
  <2>4. pc' \in [Function -> Label] /\ pc' = [pc EXCEPT ![f] = "test"]
    BY <1>10 DEF Dec, Label
  <2>5. UNCHANGED <<stage, buffer, touched, real, store, obj, idx, program>>
    BY <1>10 DEF Dec
  <2> QED
    BY <1>10, <2>1, <2>2, <2>3, <2>4, <2>5 DEF Dec, store, program
<1>11. ASSUME NEW f \in Function, TestZero(f) PROVE TypeInv'
  BY <1>11, TrackedType DEF TestZero, tables, store, program, Label
<1>12. ASSUME NEW f \in Function, TestInUse(f) PROVE TypeInv'
  BY <1>12, TrackedType DEF TestInUse, tables, store, program, Label
<1>13. ASSUME NEW f \in Function, TestThrows(f) PROVE TypeInv'
  BY <1>13, TrackedType DEF TestThrows, Throw, Goto, tables, store, program, Label
<1>14. ASSUME NEW f \in Function, Release(f) PROVE TypeInv'
  BY <1>14, TrackedType DEF Release, Removed, Entry, program, Label
<1>15. ASSUME NEW f \in Function, ReleaseThrows(f) PROVE TypeInv'
  BY <1>15, TrackedType DEF ReleaseThrows, Removed, Entry, Throw, Goto, tables, program, Label
<1>16. ASSUME NEW f \in Function, Touch(f) PROVE TypeInv'
  <2>1. obj[f] \in Object
    BY <1>16 DEF Touch
  <2>2. buffer' \in [Function -> Seq(Object)]
    <3>1. <<>> \in Seq(Object)
      OBVIOUS
    <3> QED
      BY <1>16, <3>1 DEF Touch
  <2>3. \A g \in Function : g # f => pc'[g] = pc[g] /\ buffer'[g] = buffer[g]
    BY <1>16 DEF Touch
  <2>4. pc' \in [Function -> Label] /\ pc'[f] = "store"
    BY <1>16 DEF Touch, Label
  <2>5. TypeOK'
    BY <1>16, <2>1, <2>2, <2>3, <2>4 DEF Touch, store, program
  <2>6. CallOK'
    BY <1>16, <2>3, <2>4 DEF Touch, program
  <2> QED
    BY <2>5, <2>6
<1>17. ASSUME NEW f \in Function, Store(f) PROVE TypeInv'
  <2>1. obj[f] \in Object
    BY <1>17 DEF Store
  <2>2. index' \in [Object -> {"none", "memory", "zero"}]
    BY <1>17, <2>1 DEF Store, StoreGranted, StoreRefused, Linked, store
  <2>3. /\ pc' \in [Function -> Label] /\ pc'[f] \in Writing /\ pc[f] = "store"
        /\ \A g \in Function : g # f => pc'[g] = pc[g]
    <3>1. PICK l \in Writing : pc' = [pc EXCEPT ![f] = l]
      <4>1. CASE StoreGranted(f, Predicted[obj[f]])
        BY <4>1 DEF StoreGranted
      <4>2. CASE StoreRefused(f)
        BY <4>2 DEF StoreRefused
      <4> QED
        BY <1>17, <4>1, <4>2 DEF Store
    <3> QED
      BY <1>17, <3>1 DEF Store, Label
  <2>4. UNCHANGED <<stage, tables, bytes, s3, obj, idx, program, dropped>>
    BY <1>17 DEF Store, StoreGranted, StoreRefused, store
  <2>5. TypeOK'
    BY <2>2, <2>3, <2>4 DEF tables, program
  <2>6. CallOK'
    BY <2>3, <2>4 DEF program
  <2> QED
    BY <2>5, <2>6
<1>18. ASSUME NEW f \in Function, StoreThrows(f) PROVE TypeInv'
  BY <1>18, TrackedType DEF StoreThrows, Throw, Goto, tables, store, program, Label
<1>19. ASSUME NEW f \in Function, Write(f) PROVE TypeInv'
  BY <1>19, TrackedType DEF Write, Goto, tables, Label
<1>20. CASE UNCHANGED vars
  BY <1>20 DEF vars, tables, store, call, program
<1> QED
  BY <1>1, <1>2, <1>3, <1>4, <1>5, <1>6, <1>7, <1>8, <1>9, <1>10, <1>11, <1>12, <1>13, <1>14,
     <1>15, <1>16, <1>17, <1>18, <1>19, <1>20 DEF Next, Call, Continue

\* Every variable of the monitor keeps its type, and a commit stays inside its
\* function's buffer.
THEOREM MonitorTypeCorrect == Spec => []TypeOK
<1>1. TypeInv => TypeOK
  BY DEF TypeInv
<1> QED
  BY <1>1, TypeInit, TypeStep, PTL DEF Spec

-----------------------------------------------------------------------------
(* The invariants                                                          *)

\* What f's commit under way has still to count down (all, when there is none).
Uncounted(f) ==
  {i \in DOMAIN buffer[f] : /\ pc[f] = "commit" => i >= idx[f]
                            /\ pc[f] \in {"test", "release"} => i > idx[f]}

\* The entries of a buffer are different inputs that were read, and those a
\* commit has still to count down are not counted down.
BufferOK ==
  \A f \in Function : \A i \in DOMAIN buffer[f] :
    /\ buffer[f][i] \in Input[f] \ toRead[f]
    /\ \A j \in DOMAIN buffer[f] : buffer[f][i] = buffer[f][j] => i = j
    /\ pc[f] # "failed" /\ i \in Uncounted(f) => f \notin dropped[buffer[f][i]]

\* Only what was read is counted down, and only once the counts are set.
DroppedOK ==
  /\ \A f \in Function, o \in Object : f \in dropped[o] => o \in Input[f] \ toRead[f]
  /\ \A f \in Function : pc[f] \in Getting => f \notin dropped[obj[f]]
  /\ \A f \in Function : pc[f] \in Committing => stage \notin {"none", "predictor"}
  /\ stage \in {"none", "predictor"} => \A o \in Object : dropped[o] = {}

CountInv == TypeInv /\ BufferOK /\ DroppedOK /\ RefsExact

\* A function that has read something started when its parents had ended.
OrderOK ==
  \A f \in Function : Input[f] \ toRead[f] # {} => \A p \in Parents[f] : Ended(p)

AllRead(o) == o \in Tracked /\ Readers[o] \subseteq dropped[o]

\* Only an object that all its readers have counted down is released.
ReleaseOK == \A f \in Function : pc[f] = "release" => AllRead(Entry(f))

ReleaseInv == CountInv /\ OrderOK /\ ReleaseOK /\ ReleasedWhenRead

InPlace(o) == IF index[o] = "memory" THEN o \in bytes ELSE o \in s3

\* An object has no entry until its producer puts it; the content follows the
\* entry, and is where the entry says until all its readers have read it.
PlaceOK ==
  /\ \A o \in External : InPlace(o)
  /\ \A p \in Function : \A o \in Output[p] :
       /\ o \in toPut[p] /\ ~(pc[p] \in Writing /\ obj[p] = o) => index[o] = "none"
       /\ pc[p] = "write" /\ obj[p] = o => index[o] = "memory"
       /\ pc[p] = "s3write" /\ obj[p] = o => index[o] # "memory"
       /\ o \notin toPut[p] => InPlace(o) \/ AllRead(o)

PlaceInv == ReleaseInv /\ PlaceOK /\ GetServed

-----------------------------------------------------------------------------
(* Buffers and what is counted down                                        *)

\* What Dec does to the variables the invariants are about.
LEMMA DecEffect ==
  ASSUME TypeInv, NEW f \in Function, Dec(f)
  PROVE  /\ Entry(f) \in Object /\ idx[f] \in DOMAIN buffer[f]
         /\ pc[f] = "commit" /\ pc' = [pc EXCEPT ![f] = "test"]
         /\ UNCHANGED <<stage, buffer, touched, real, index, bytes, s3, obj, idx, toRead, toPut>>
         /\ Entry(f) \in Tracked => dropped' = [dropped EXCEPT ![Entry(f)] = dropped[Entry(f)] \cup {f}]
         /\ Entry(f) \notin Tracked => dropped' = dropped
         /\ \A o \in Object, g \in Function : g \in dropped'[o] =>
              g \in dropped[o] \/ (g = f /\ o = Entry(f))
         /\ \A o \in Object : dropped[o] \subseteq dropped'[o]
<1>1. /\ buffer[f] \in Seq(Object) /\ idx[f] \in DOMAIN buffer[f]
      /\ Entry(f) \in Object
  BY DEF TypeInv, TypeOK, Dec, Entry
<1>2. CASE Entry(f) \in Tracked
  <2>1. dropped' = [dropped EXCEPT ![Entry(f)] = dropped[Entry(f)] \cup {f}]
    BY <1>2 DEF Dec
  <2> QED
    BY <1>1, <1>2, <2>1 DEF TypeInv, TypeOK, Dec, store, program
<1>3. CASE Entry(f) \notin Tracked
  BY <1>1, <1>3 DEF Dec, store, program
<1> QED
  BY <1>2, <1>3

LEMMA DecBuffer ==
  ASSUME CountInv, NEW f \in Function, Dec(f)
  PROVE  BufferOK'
<1>1. /\ idx[f] \in DOMAIN buffer[f]
      /\ pc[f] = "commit" /\ pc' = [pc EXCEPT ![f] = "test"]
      /\ UNCHANGED <<buffer, idx, toRead>>
      /\ \A o \in Object, g \in Function : g \in dropped'[o] =>
           g \in dropped[o] \/ (g = f /\ o = Entry(f))
  BY DecEffect DEF CountInv
<1>2. pc \in [Function -> Label] /\ buffer \in [Function -> Seq(Object)] /\ idx \in [Function -> Nat \ {0}]
  BY DEF CountInv, TypeInv, TypeOK
<1>3. BufferOK
  BY DEF CountInv
<1>4. ASSUME NEW g \in Function, NEW i \in DOMAIN buffer[g], pc'[g] # "failed", i \in Uncounted(g)'
      PROVE  g \notin dropped'[buffer[g][i]]
  <2>1. pc[g] # "failed" /\ i \in Uncounted(g)
    BY <1>1, <1>2, <1>4 DEF Uncounted
  <2>2. g \notin dropped[buffer[g][i]]
    BY <1>3, <2>1 DEF BufferOK
  <2>3. g = f => i # idx[f]
    BY <1>1, <1>2, <1>4 DEF Uncounted
  <2>4. g = f => buffer[g][i] # Entry(f)
    BY <1>1, <1>3, <2>3 DEF BufferOK, Entry
  <2>5. buffer[g][i] \in Object
    BY <1>2
  <2> QED
    BY <1>1, <2>2, <2>4, <2>5
<1> QED
  BY <1>1, <1>3, <1>4 DEF BufferOK

LEMMA DecDropped ==
  ASSUME CountInv, NEW f \in Function, Dec(f)
  PROVE  DroppedOK'
<1>1. /\ idx[f] \in DOMAIN buffer[f]
      /\ pc[f] = "commit" /\ pc' = [pc EXCEPT ![f] = "test"]
      /\ UNCHANGED <<stage, obj, toRead>>
      /\ \A o \in Object, g \in Function : g \in dropped'[o] =>
           g \in dropped[o] \/ (g = f /\ o = Entry(f))
  BY DecEffect DEF CountInv
<1>2. pc \in [Function -> Label] /\ Input \in [Function -> SUBSET Object]
  BY WorkflowAssumption DEF CountInv, TypeInv, TypeOK
<1>3. Entry(f) \in Input[f] \ toRead[f]
  BY <1>1 DEF CountInv, BufferOK, Entry
<1>4. stage \notin {"none", "predictor"}
  BY <1>1 DEF CountInv, DroppedOK, Committing
<1>5. \A g \in Function : pc'[g] \in Getting =>
        /\ g # f /\ pc[g] \in Getting /\ obj[g] \in Object /\ g \notin dropped[obj[g]]
  BY <1>1, <1>2 DEF CountInv, TypeInv, CallOK, DroppedOK, Getting
<1>6. \A g \in Function : pc'[g] \in Getting => g \notin dropped'[obj[g]]
  BY <1>1, <1>5
<1> QED
  BY <1>1, <1>3, <1>4, <1>6 DEF CountInv, DroppedOK

LEMMA BufferStep ==
  ASSUME GoesOn = FALSE, CountInv, [Next]_vars
  PROVE  BufferOK'
<1> USE DEF CountInv, TypeInv, TypeOK, CallOK, BufferOK, DroppedOK, Uncounted, Getting,
   Putting, Committing, Writing
<1>1. ASSUME Registration PROVE BufferOK'
  BY <1>1 DEF Registration, RegisterPredictor, RegisterMonitor, DeregisterPredictor,
     DeregisterMonitor, tables, store, call, program
<1>2. ASSUME NEW f \in Function, NEW o \in Object, HookGet(f, o) PROVE BufferOK'
  BY <1>2 DEF HookGet, MayGet, Running, Goto, store
<1>3. ASSUME NEW f \in Function, NEW o \in Object, PlainGet(f, o) PROVE BufferOK'
  BY <1>3 DEF PlainGet, MayGet, Running, Goto, tables, store
<1>4. ASSUME NEW f \in Function, NEW o \in Object, HookPut(f, o) PROVE BufferOK'
  BY <1>4 DEF HookPut, MayPut, Running, HasMonitor, Goto, tables, store, program
<1>5. ASSUME NEW f \in Function, NEW o \in Object, PlainPut(f, o) PROVE BufferOK'
  <2>1. PICK l \in Writing : pc' = [pc EXCEPT ![f] = l]
    BY <1>5 DEF PlainPut
  <2>2. pc[f] = "idle" /\ UNCHANGED <<buffer, idx, toRead, dropped>>
    BY <1>5 DEF PlainPut, MayPut, Running, tables, program
  <2> QED
    BY <2>1, <2>2
<1>6. ASSUME NEW f \in Function, HookGetThrows(f) PROVE BufferOK'
  BY <1>6 DEF HookGetThrows, MayGet, Running, Throw, Goto, tables, store, program
<1>7. ASSUME NEW f \in Function, HookPutThrows(f) PROVE BufferOK'
  BY <1>7 DEF HookPutThrows, MayPut, Running, Throw, Goto, tables, store, program
<1>8. ASSUME NEW f \in Function, LookUp(f) PROVE BufferOK'
  BY <1>8 DEF LookUp, tables, store, program
<1>9. ASSUME NEW f \in Function, Read(f) PROVE BufferOK'
  BY <1>9 DEF Read, Goto, tables, store, program
<1>10. ASSUME NEW f \in Function, Dec(f) PROVE BufferOK'
  BY <1>10, DecBuffer
<1>11. ASSUME NEW f \in Function, TestZero(f) PROVE BufferOK'
  BY <1>11 DEF TestZero, tables, store, program
<1>12. ASSUME NEW f \in Function, TestInUse(f) PROVE BufferOK'
  BY <1>12 DEF TestInUse, tables, store, program
<1>13. ASSUME NEW f \in Function, TestThrows(f) PROVE BufferOK'
  BY <1>13 DEF TestThrows, Throw, Goto, tables, store, program
<1>14. ASSUME NEW f \in Function, Release(f) PROVE BufferOK'
  BY <1>14 DEF Release, program
<1>15. ASSUME NEW f \in Function, ReleaseThrows(f) PROVE BufferOK'
  BY <1>15 DEF ReleaseThrows, Throw, Goto, tables, program
<1>16. ASSUME NEW f \in Function, Touch(f) PROVE BufferOK'
  BY <1>16 DEF Touch, store, program
<1>17. ASSUME NEW f \in Function, Store(f) PROVE BufferOK'
  BY <1>17 DEF Store, StoreGranted, StoreRefused, tables, store, program
<1>18. ASSUME NEW f \in Function, StoreThrows(f) PROVE BufferOK'
  BY <1>18 DEF StoreThrows, Throw, Goto, tables, store, program
<1>19. ASSUME NEW f \in Function, Write(f) PROVE BufferOK'
  BY <1>19 DEF Write, Goto, tables
<1>20. ASSUME UNCHANGED vars PROVE BufferOK'
  BY <1>20 DEF vars, tables, store, call, program
<1> QED
  BY <1>1, <1>2, <1>3, <1>4, <1>5, <1>6, <1>7, <1>8, <1>9, <1>10,
     <1>11, <1>12, <1>13, <1>14, <1>15, <1>16, <1>17, <1>18, <1>19, <1>20 DEF Next, Call, Continue

LEMMA DroppedStep ==
  ASSUME GoesOn = FALSE, CountInv, [Next]_vars
  PROVE  DroppedOK'
<1> USE DEF CountInv, TypeInv, TypeOK, CallOK, BufferOK, DroppedOK, Uncounted, Getting,
   Putting, Committing, Writing
<1>1. ASSUME Registration PROVE DroppedOK'
  BY <1>1 DEF Registration, RegisterPredictor, RegisterMonitor, DeregisterPredictor,
     DeregisterMonitor, tables, store, call, program
<1>2. ASSUME NEW f \in Function, NEW o \in Object, HookGet(f, o) PROVE DroppedOK'
  BY <1>2 DEF HookGet, MayGet, Running, Goto, store
<1>3. ASSUME NEW f \in Function, NEW o \in Object, PlainGet(f, o) PROVE DroppedOK'
  BY <1>3 DEF PlainGet, MayGet, Running, Goto, tables, store
<1>4. ASSUME NEW f \in Function, NEW o \in Object, HookPut(f, o) PROVE DroppedOK'
  BY <1>4 DEF HookPut, MayPut, Running, HasMonitor, Goto, tables, store, program
<1>5. ASSUME NEW f \in Function, NEW o \in Object, PlainPut(f, o) PROVE DroppedOK'
  BY <1>5 DEF PlainPut, MayPut, Running, tables, program
<1>6. ASSUME NEW f \in Function, HookGetThrows(f) PROVE DroppedOK'
  BY <1>6 DEF HookGetThrows, MayGet, Running, Throw, Goto, tables, store, program
<1>7. ASSUME NEW f \in Function, HookPutThrows(f) PROVE DroppedOK'
  BY <1>7 DEF HookPutThrows, MayPut, Running, Throw, Goto, tables, store, program
<1>8. ASSUME NEW f \in Function, LookUp(f) PROVE DroppedOK'
  BY <1>8 DEF LookUp, tables, store, program
<1>9. ASSUME NEW f \in Function, Read(f) PROVE DroppedOK'
  BY <1>9 DEF Read, Goto, tables, store, program
<1>10. ASSUME NEW f \in Function, Dec(f) PROVE DroppedOK'
  BY <1>10, DecDropped
<1>11. ASSUME NEW f \in Function, TestZero(f) PROVE DroppedOK'
  BY <1>11 DEF TestZero, tables, store, program
<1>12. ASSUME NEW f \in Function, TestInUse(f) PROVE DroppedOK'
  BY <1>12 DEF TestInUse, tables, store, program
<1>13. ASSUME NEW f \in Function, TestThrows(f) PROVE DroppedOK'
  BY <1>13 DEF TestThrows, Throw, Goto, tables, store, program
<1>14. ASSUME NEW f \in Function, Release(f) PROVE DroppedOK'
  BY <1>14 DEF Release, program
<1>15. ASSUME NEW f \in Function, ReleaseThrows(f) PROVE DroppedOK'
  BY <1>15 DEF ReleaseThrows, Throw, Goto, tables, program
<1>16. ASSUME NEW f \in Function, Touch(f) PROVE DroppedOK'
  BY <1>16 DEF Touch, store, program
<1>17. ASSUME NEW f \in Function, Store(f) PROVE DroppedOK'
  BY <1>17 DEF Store, StoreGranted, StoreRefused, tables, store, program
<1>18. ASSUME NEW f \in Function, StoreThrows(f) PROVE DroppedOK'
  BY <1>18 DEF StoreThrows, Throw, Goto, tables, store, program
<1>19. ASSUME NEW f \in Function, Write(f) PROVE DroppedOK'
  BY <1>19 DEF Write, Goto, tables
<1>20. ASSUME UNCHANGED vars PROVE DroppedOK'
  BY <1>20 DEF vars, tables, store, call, program
<1> QED
  BY <1>1, <1>2, <1>3, <1>4, <1>5, <1>6, <1>7, <1>8, <1>9, <1>10,
     <1>11, <1>12, <1>13, <1>14, <1>15, <1>16, <1>17, <1>18, <1>19, <1>20 DEF Next, Call, Continue

-----------------------------------------------------------------------------
(* The counts                                                              *)

\* Who is declared to read a counted object is one of its readers, and its
\* producer is one of the reader's parents.
LEMMA ReaderOf ==
  ASSUME NEW f \in Function, NEW o \in Input[f]
  PROVE  /\ o \in Tracked => f \in Readers[o]
         /\ \A p \in Function : o \in Output[p] => p \in Parents[f] /\ o \in Tracked
<1>1. o \in Object
  BY WorkflowAssumption
<1>2. ASSUME NEW p \in Function, o \in Output[p] PROVE f \in Children[p] /\ p \in Piped /\ p \in Parents[f]
  <2>1. f \in Children[p]
    BY <1>1, <1>2, WiringAssumption DEF Children
  <2> QED
    BY <2>1 DEF Piped, Parents
<1>3. o \in Tracked => \E p \in Piped : o \in Output[p]
  BY DEF Tracked
<1>4. Piped \subseteq Function
  BY DEF Piped
<1> QED
  BY <1>1, <1>2, <1>3, <1>4 DEF Tracked, Readers

LEMMA DecCount ==
  ASSUME CountInv, NEW f \in Function, Dec(f)
  PROVE  RefsExact'
<1> DEFINE e == Entry(f)
<1>1. /\ e \in Input[f] /\ f \notin dropped[e] /\ e \in Object
      /\ stage \notin {"none", "predictor"} /\ stage' = stage
  <2>1. pc[f] = "commit" /\ idx[f] \in DOMAIN buffer[f] /\ e \in Object /\ stage' = stage
    BY DecEffect DEF CountInv
  <2>2. e \in Input[f] /\ stage \notin {"none", "predictor"}
    BY <2>1 DEF CountInv, BufferOK, DroppedOK, Committing, Entry
  <2>3. idx[f] \in Uncounted(f)
    BY <2>1 DEF CountInv, TypeInv, TypeOK, Uncounted
  <2>4. f \notin dropped[e]
    BY <2>1, <2>3 DEF CountInv, BufferOK, Entry
  <2> QED
    BY <2>1, <2>2, <2>4
<1>2. CASE e \in Tracked
  <2>1. refs' = [refs EXCEPT ![e] = refs[e] - 1] /\ dropped' = [dropped EXCEPT ![e] = dropped[e] \cup {f}]
    BY <1>2, DecEffect DEF Dec, Decremented, CountInv
  <2>2. refs \in [Tracked -> Int] /\ dropped \in [Object -> SUBSET Function] /\ Tracked \subseteq Object
    BY TrackedType DEF CountInv, TypeInv, TypeOK
  <2>3. \A o \in Tracked : refs[o] = Cardinality(Readers[o] \ dropped[o])
    BY <1>1 DEF CountInv, RefsExact
  <2> DEFINE S == Readers[e] \ dropped[e]
  <2>4. f \in S /\ IsFiniteSet(S)
    <3>1. f \in Readers[e]
      BY <1>1, <1>2, ReaderOf
    <3>2. S \in SUBSET Function
      BY <1>1, TrackedType
    <3> QED
      BY <1>1, <3>1, <3>2, CountType
  <2>5. Cardinality(S \ {f}) = Cardinality(S) - 1
    BY <2>4, FS_RemoveElement
  <2>6. Readers[e] \ dropped'[e] = S \ {f}
    BY <1>1, <2>1, <2>2
  <2>7. refs'[e] = Cardinality(Readers[e] \ dropped'[e])
    BY <1>2, <2>1, <2>2, <2>3, <2>5, <2>6
  <2>8. \A o \in Tracked : o # e => refs'[o] = refs[o] /\ dropped'[o] = dropped[o]
    BY <2>1, <2>2
  <2> QED
    BY <2>3, <2>7, <2>8 DEF RefsExact
<1>3. CASE e \notin Tracked
  BY <1>1, <1>3, DecEffect DEF CountInv, RefsExact, Dec
<1> QED
  BY <1>2, <1>3

LEMMA RegistrationCount ==
  ASSUME CountInv, Registration
  PROVE  RefsExact'
<1>1. UNCHANGED dropped
  BY DEF Registration
<1>2. CASE RegisterMonitor
  <2>1. \A o \in Object : dropped[o] = {}
    BY <1>2 DEF RegisterMonitor, CountInv, DroppedOK
  <2>2. ASSUME NEW o \in Tracked PROVE refs'[o] = Cardinality(Readers[o] \ dropped'[o])
    <3>1. Readers[o] \ dropped'[o] = Readers[o]
      BY <1>1, <2>1, TrackedType
    <3> QED
      BY <1>2, <3>1 DEF RegisterMonitor, InitialRefs
  <2> QED
    BY <2>2 DEF RefsExact
<1>3. CASE ~RegisterMonitor
  BY <1>1, <1>3 DEF Registration, RegisterPredictor, DeregisterPredictor, DeregisterMonitor,
     tables, CountInv, RefsExact
<1> QED
  BY <1>2, <1>3

LEMMA CountStep ==
  ASSUME GoesOn = FALSE, CountInv, [Next]_vars
  PROVE  CountInv'
<1> USE DEF CountInv, RefsExact
<1>1. ASSUME Registration PROVE RefsExact'
  BY <1>1, RegistrationCount
<1>2. ASSUME NEW f \in Function, NEW o \in Object, HookGet(f, o) PROVE RefsExact'
  BY <1>2 DEF HookGet, MayGet, Running, Goto, store
<1>3. ASSUME NEW f \in Function, NEW o \in Object, PlainGet(f, o) PROVE RefsExact'
  BY <1>3 DEF PlainGet, MayGet, Running, Goto, tables, store
<1>4. ASSUME NEW f \in Function, NEW o \in Object, HookPut(f, o) PROVE RefsExact'
  BY <1>4 DEF HookPut, MayPut, Running, HasMonitor, Goto, tables, store, program
<1>5. ASSUME NEW f \in Function, NEW o \in Object, PlainPut(f, o) PROVE RefsExact'
  BY <1>5 DEF PlainPut, MayPut, Running, tables, program
<1>6. ASSUME NEW f \in Function, HookGetThrows(f) PROVE RefsExact'
  BY <1>6 DEF HookGetThrows, MayGet, Running, Throw, Goto, tables, store, program
<1>7. ASSUME NEW f \in Function, HookPutThrows(f) PROVE RefsExact'
  BY <1>7 DEF HookPutThrows, MayPut, Running, Throw, Goto, tables, store, program
<1>8. ASSUME NEW f \in Function, LookUp(f) PROVE RefsExact'
  BY <1>8 DEF LookUp, tables, store, program
<1>9. ASSUME NEW f \in Function, Read(f) PROVE RefsExact'
  BY <1>9 DEF Read, Goto, tables, store, program
<1>10. ASSUME NEW f \in Function, Dec(f) PROVE RefsExact'
  BY <1>10, DecCount
<1>11. ASSUME NEW f \in Function, TestZero(f) PROVE RefsExact'
  BY <1>11 DEF TestZero, tables, store, program
<1>12. ASSUME NEW f \in Function, TestInUse(f) PROVE RefsExact'
  BY <1>12 DEF TestInUse, tables, store, program
<1>13. ASSUME NEW f \in Function, TestThrows(f) PROVE RefsExact'
  BY <1>13 DEF TestThrows, Throw, Goto, tables, store, program
<1>14. ASSUME NEW f \in Function, Release(f) PROVE RefsExact'
  BY <1>14 DEF Release, program
<1>15. ASSUME NEW f \in Function, ReleaseThrows(f) PROVE RefsExact'
  BY <1>15 DEF ReleaseThrows, Throw, Goto, tables, program
<1>16. ASSUME NEW f \in Function, Touch(f) PROVE RefsExact'
  BY <1>16 DEF Touch, store, program
<1>17. ASSUME NEW f \in Function, Store(f) PROVE RefsExact'
  BY <1>17 DEF Store, StoreGranted, StoreRefused, tables, store, program
<1>18. ASSUME NEW f \in Function, StoreThrows(f) PROVE RefsExact'
  BY <1>18 DEF StoreThrows, Throw, Goto, tables, store, program
<1>19. ASSUME NEW f \in Function, Write(f) PROVE RefsExact'
  BY <1>19 DEF Write, Goto, tables
<1>20. ASSUME UNCHANGED vars PROVE RefsExact'
  BY <1>20 DEF vars, tables, store, call, program
<1>21. RefsExact'
  BY <1>1, <1>2, <1>3, <1>4, <1>5, <1>6, <1>7, <1>8, <1>9, <1>10,
     <1>11, <1>12, <1>13, <1>14, <1>15, <1>16, <1>17, <1>18, <1>19, <1>20 DEF Next, Call, Continue
<1> QED
  BY <1>21, TypeStep, BufferStep, DroppedStep

LEMMA CountInit == Init => CountInv
<1>1. Init => BufferOK /\ DroppedOK
  BY WorkflowAssumption DEF Init, BufferOK, DroppedOK, Getting, Committing, Label
<1> QED
  BY <1>1, TypeInit DEF Init, CountInv, RefsExact

\* For any workflow and any interleaving of its functions' commits, a count is
\* the number of readers that have still to commit.
THEOREM CountsExact ==
  ASSUME GoesOn = FALSE
  PROVE  Spec => []RefsExact
<1>1. CountInv => RefsExact
  BY DEF CountInv
<1>2. CountInv /\ [Next]_vars => CountInv'
  BY CountStep
<1> QED
  BY <1>1, <1>2, CountInit, PTL DEF Spec

-----------------------------------------------------------------------------
(* The releases                                                            *)

\* A function that has ended makes no further call.
LEMMA EndedStays ==
  ASSUME TypeInv, [Next]_vars, NEW q \in Function, Ended(q)
  PROVE  Ended(q)'
<1> USE DEF TypeInv, TypeOK, Ended
<1>1. ASSUME Registration PROVE Ended(q)'
  BY <1>1 DEF Registration, RegisterPredictor, RegisterMonitor, DeregisterPredictor,
     DeregisterMonitor, tables, store, call, program
<1>2. ASSUME NEW f \in Function, NEW o \in Object, HookGet(f, o) PROVE Ended(q)'
  BY <1>2 DEF HookGet, MayGet, Running, Goto, store
<1>3. ASSUME NEW f \in Function, NEW o \in Object, PlainGet(f, o) PROVE Ended(q)'
  BY <1>3 DEF PlainGet, MayGet, Running, Goto, tables, store
<1>4. ASSUME NEW f \in Function, NEW o \in Object, HookPut(f, o) PROVE Ended(q)'
  BY <1>4 DEF HookPut, MayPut, Running, HasMonitor, Goto, tables, store, program
<1>5. ASSUME NEW f \in Function, NEW o \in Object, PlainPut(f, o) PROVE Ended(q)'
  BY <1>5 DEF PlainPut, MayPut, Running, tables, program
<1>6. ASSUME NEW f \in Function, HookGetThrows(f) PROVE Ended(q)'
  BY <1>6 DEF HookGetThrows, MayGet, Running, Throw, Goto, tables, store, program
<1>7. ASSUME NEW f \in Function, HookPutThrows(f) PROVE Ended(q)'
  BY <1>7 DEF HookPutThrows, MayPut, Running, Throw, Goto, tables, store, program
<1>8. ASSUME NEW f \in Function, LookUp(f) PROVE Ended(q)'
  BY <1>8 DEF LookUp, tables, store, program
<1>9. ASSUME NEW f \in Function, Read(f) PROVE Ended(q)'
  BY <1>9 DEF Read, Goto, tables, store, program
<1>10. ASSUME NEW f \in Function, Dec(f) PROVE Ended(q)'
  BY <1>10 DEF Dec, store, program
<1>11. ASSUME NEW f \in Function, TestZero(f) PROVE Ended(q)'
  BY <1>11 DEF TestZero, tables, store, program
<1>12. ASSUME NEW f \in Function, TestInUse(f) PROVE Ended(q)'
  BY <1>12 DEF TestInUse, tables, store, program
<1>13. ASSUME NEW f \in Function, TestThrows(f) PROVE Ended(q)'
  BY <1>13 DEF TestThrows, Throw, Goto, tables, store, program
<1>14. ASSUME NEW f \in Function, Release(f) PROVE Ended(q)'
  BY <1>14 DEF Release, program
<1>15. ASSUME NEW f \in Function, ReleaseThrows(f) PROVE Ended(q)'
  BY <1>15 DEF ReleaseThrows, Throw, Goto, tables, program
<1>16. ASSUME NEW f \in Function, Touch(f) PROVE Ended(q)'
  BY <1>16 DEF Touch, store, program
<1>17. ASSUME NEW f \in Function, Store(f) PROVE Ended(q)'
  BY <1>17 DEF Store, StoreGranted, StoreRefused, tables, store, program
<1>18. ASSUME NEW f \in Function, StoreThrows(f) PROVE Ended(q)'
  BY <1>18 DEF StoreThrows, Throw, Goto, tables, store, program
<1>19. ASSUME NEW f \in Function, Write(f) PROVE Ended(q)'
  BY <1>19 DEF Write, Goto, tables
<1>20. ASSUME UNCHANGED vars PROVE Ended(q)'
  BY <1>20 DEF vars, tables, store, call, program
<1> QED
  BY <1>1, <1>2, <1>3, <1>4, <1>5, <1>6, <1>7, <1>8, <1>9, <1>10,
     <1>11, <1>12, <1>13, <1>14, <1>15, <1>16, <1>17, <1>18, <1>19, <1>20 DEF Next, Call, Continue

\* A function's first get comes after its parents' end.
LEMMA ReadsWhenRunning ==
  ASSUME TypeInv, [Next]_vars, NEW q \in Function
  PROVE  toRead'[q] = toRead[q] \/ \A p \in Parents[q] : Ended(p)
<1> USE DEF TypeInv, TypeOK
<1> DEFINE Goal == toRead'[q] = toRead[q] \/ \A p \in Parents[q] : Ended(p)
<1>1. ASSUME Registration PROVE Goal
  BY <1>1 DEF Registration, RegisterPredictor, RegisterMonitor, DeregisterPredictor,
     DeregisterMonitor, tables, store, call, program
<1>2. ASSUME NEW f \in Function, NEW o \in Object, HookGet(f, o) PROVE Goal
  BY <1>2 DEF HookGet, MayGet, Running, Goto, store
<1>3. ASSUME NEW f \in Function, NEW o \in Object, PlainGet(f, o) PROVE Goal
  BY <1>3 DEF PlainGet, MayGet, Running, Goto, tables, store
<1>4. ASSUME NEW f \in Function, NEW o \in Object, HookPut(f, o) PROVE Goal
  BY <1>4 DEF HookPut, MayPut, Running, HasMonitor, Goto, tables, store, program
<1>5. ASSUME NEW f \in Function, NEW o \in Object, PlainPut(f, o) PROVE Goal
  BY <1>5 DEF PlainPut, MayPut, Running, tables, program
<1>6. ASSUME NEW f \in Function, HookGetThrows(f) PROVE Goal
  BY <1>6 DEF HookGetThrows, MayGet, Running, Throw, Goto, tables, store, program
<1>7. ASSUME NEW f \in Function, HookPutThrows(f) PROVE Goal
  BY <1>7 DEF HookPutThrows, MayPut, Running, Throw, Goto, tables, store, program
<1>8. ASSUME NEW f \in Function, LookUp(f) PROVE Goal
  BY <1>8 DEF LookUp, tables, store, program
<1>9. ASSUME NEW f \in Function, Read(f) PROVE Goal
  BY <1>9 DEF Read, Goto, tables, store, program
<1>10. ASSUME NEW f \in Function, Dec(f) PROVE Goal
  BY <1>10 DEF Dec, store, program
<1>11. ASSUME NEW f \in Function, TestZero(f) PROVE Goal
  BY <1>11 DEF TestZero, tables, store, program
<1>12. ASSUME NEW f \in Function, TestInUse(f) PROVE Goal
  BY <1>12 DEF TestInUse, tables, store, program
<1>13. ASSUME NEW f \in Function, TestThrows(f) PROVE Goal
  BY <1>13 DEF TestThrows, Throw, Goto, tables, store, program
<1>14. ASSUME NEW f \in Function, Release(f) PROVE Goal
  BY <1>14 DEF Release, program
<1>15. ASSUME NEW f \in Function, ReleaseThrows(f) PROVE Goal
  BY <1>15 DEF ReleaseThrows, Throw, Goto, tables, program
<1>16. ASSUME NEW f \in Function, Touch(f) PROVE Goal
  BY <1>16 DEF Touch, store, program
<1>17. ASSUME NEW f \in Function, Store(f) PROVE Goal
  BY <1>17 DEF Store, StoreGranted, StoreRefused, tables, store, program
<1>18. ASSUME NEW f \in Function, StoreThrows(f) PROVE Goal
  BY <1>18 DEF StoreThrows, Throw, Goto, tables, store, program
<1>19. ASSUME NEW f \in Function, Write(f) PROVE Goal
  BY <1>19 DEF Write, Goto, tables
<1>20. ASSUME UNCHANGED vars PROVE Goal
  BY <1>20 DEF vars, tables, store, call, program
<1>21. Goal
  BY <1>1, <1>2, <1>3, <1>4, <1>5, <1>6, <1>7, <1>8, <1>9, <1>10,
     <1>11, <1>12, <1>13, <1>14, <1>15, <1>16, <1>17, <1>18, <1>19, <1>20 DEF Next, Call, Continue
<1> QED
  BY <1>21

LEMMA OrderStep ==
  ASSUME TypeInv, OrderOK, [Next]_vars
  PROVE  OrderOK'
<1>1. ASSUME NEW q \in Function, Input[q] \ toRead'[q] # {}, NEW p \in Parents[q] PROVE Ended(p)'
  <2>1. p \in Function
    BY <1>1 DEF Parents
  <2>2. Ended(p)
    BY <1>1, ReadsWhenRunning DEF OrderOK
  <2> QED
    BY <2>1, <2>2, EndedStays
<1> QED
  BY <1>1 DEF OrderOK

\* While an object is still to be put, nobody has read it.
LEMMA NotRead ==
  ASSUME CountInv, OrderOK, NEW f \in Function, NEW o \in toPut[f]
  PROVE  /\ o \in Object /\ dropped[o] = {}
         /\ \A g \in Function : o \in Input[g] => o \in toRead[g]
<1>1. o \in Output[f] /\ o \in Object /\ dropped[o] \subseteq Function
  BY WorkflowAssumption DEF CountInv, TypeInv, TypeOK, CallOK
<1>2. ASSUME NEW g \in Function, o \in Input[g] \ toRead[g] PROVE FALSE
  <2>1. f \in Parents[g]
    BY <1>1, <1>2, ReaderOf
  <2>2. Ended(f)
    BY <1>2, <2>1 DEF OrderOK
  <2> QED
    BY <2>2 DEF Ended
<1>3. dropped[o] = {}
  BY <1>1, <1>2 DEF CountInv, DroppedOK
<1> QED
  BY <1>1, <1>2, <1>3

\* A count of 0 says that all readers have counted down.
LEMMA ZeroMeansRead ==
  ASSUME CountInv, NEW o \in Tracked, stage \notin {"none", "predictor"}
  PROVE  refs[o] = 0 <=> Readers[o] \subseteq dropped[o]
<1>1. Readers[o] \ dropped[o] \in SUBSET Function
  BY TrackedType
<1>2. IsFiniteSet(Readers[o] \ dropped[o])
  BY <1>1, CountType
<1>3. refs[o] = 0 <=> Readers[o] \ dropped[o] = {}
  BY <1>2, FS_EmptySet DEF CountInv, RefsExact
<1> QED
  BY <1>3

LEMMA EntryObject ==
  ASSUME TypeInv, NEW f \in Function, pc[f] \in {"test", "release"}
  PROVE  Entry(f) \in Object
  BY DEF TypeInv, TypeOK, Entry

LEMMA DecRelease ==
  ASSUME ReleaseInv, NEW f \in Function, Dec(f)
  PROVE  ReleaseOK'
<1>1. /\ pc[f] = "commit" /\ pc' = [pc EXCEPT ![f] = "test"]
      /\ UNCHANGED <<buffer, idx>>
      /\ Entry(f) \in Object
      /\ Entry(f) \in Tracked => dropped' = [dropped EXCEPT ![Entry(f)] = dropped[Entry(f)] \cup {f}]
      /\ Entry(f) \notin Tracked => dropped' = dropped
  BY DecEffect DEF ReleaseInv, CountInv
<1>2. pc \in [Function -> Label] /\ dropped \in [Object -> SUBSET Function]
  BY DEF ReleaseInv, CountInv, TypeInv, TypeOK
<1>3. \A o \in Object : dropped[o] \subseteq dropped'[o]
  BY <1>1, <1>2
<1>4. ASSUME NEW g \in Function, pc'[g] = "release" PROVE AllRead(Entry(g))'
  <2>1. pc[g] = "release" /\ Entry(g)' = Entry(g) /\ Entry(g) \in Object
    BY <1>1, <1>2, <1>4, EntryObject DEF Entry, ReleaseInv, CountInv
  <2>2. AllRead(Entry(g))
    BY <2>1 DEF ReleaseInv, ReleaseOK
  <2> QED
    BY <1>3, <2>1, <2>2 DEF AllRead
<1> QED
  BY <1>4 DEF ReleaseOK

LEMMA TestRelease ==
  ASSUME ReleaseInv, NEW f \in Function, TestZero(f)
  PROVE  ReleaseOK'
<1>1. /\ pc[f] = "test" /\ Entry(f) \in Tracked /\ refs[Entry(f)] = 0
      /\ pc' = [pc EXCEPT ![f] = "release"] /\ UNCHANGED <<buffer, idx, dropped>>
  BY DEF TestZero, Unread, tables
<1>2. AllRead(Entry(f))
  <2>1. stage \notin {"none", "predictor"}
    BY <1>1 DEF ReleaseInv, CountInv, DroppedOK, Committing
  <2> QED
    BY <1>1, <2>1, ZeroMeansRead DEF ReleaseInv, AllRead
<1>3. ASSUME NEW g \in Function, pc'[g] = "release" PROVE AllRead(Entry(g))'
  <2>1. AllRead(Entry(g))
    BY <1>1, <1>2, <1>3 DEF ReleaseInv, ReleaseOK, CountInv, TypeInv, TypeOK
  <2> QED
    BY <1>1, <2>1 DEF AllRead, Entry
<1> QED
  BY <1>3 DEF ReleaseOK

LEMMA ReleaseStep ==
  ASSUME ReleaseInv, [Next]_vars
  PROVE  ReleaseOK'
<1> USE DEF ReleaseInv, CountInv, TypeInv, TypeOK, ReleaseOK, AllRead, Entry
<1>1. ASSUME Registration PROVE ReleaseOK'
  BY <1>1 DEF Registration, RegisterPredictor, RegisterMonitor, DeregisterPredictor,
     DeregisterMonitor, tables, store, call, program
<1>2. ASSUME NEW f \in Function, NEW o \in Object, HookGet(f, o) PROVE ReleaseOK'
  BY <1>2 DEF HookGet, MayGet, Running, Goto, store
<1>3. ASSUME NEW f \in Function, NEW o \in Object, PlainGet(f, o) PROVE ReleaseOK'
  BY <1>3 DEF PlainGet, MayGet, Running, Goto, tables, store
<1>4. ASSUME NEW f \in Function, NEW o \in Object, HookPut(f, o) PROVE ReleaseOK'
  BY <1>4 DEF HookPut, MayPut, Running, HasMonitor, Goto, tables, store, program
<1>5. ASSUME NEW f \in Function, NEW o \in Object, PlainPut(f, o) PROVE ReleaseOK'
  BY <1>5 DEF PlainPut, MayPut, Running, tables, program
<1>6. ASSUME NEW f \in Function, HookGetThrows(f) PROVE ReleaseOK'
  BY <1>6 DEF HookGetThrows, MayGet, Running, Throw, Goto, tables, store, program
<1>7. ASSUME NEW f \in Function, HookPutThrows(f) PROVE ReleaseOK'
  BY <1>7 DEF HookPutThrows, MayPut, Running, Throw, Goto, tables, store, program
<1>8. ASSUME NEW f \in Function, LookUp(f) PROVE ReleaseOK'
  BY <1>8 DEF LookUp, tables, store, program
<1>9. ASSUME NEW f \in Function, Read(f) PROVE ReleaseOK'
  BY <1>9 DEF Read, Goto, tables, store, program
<1>10. ASSUME NEW f \in Function, Dec(f) PROVE ReleaseOK'
  BY <1>10, DecRelease
<1>11. ASSUME NEW f \in Function, TestZero(f) PROVE ReleaseOK'
  BY <1>11, TestRelease
<1>12. ASSUME NEW f \in Function, TestInUse(f) PROVE ReleaseOK'
  BY <1>12 DEF TestInUse, tables, store, program
<1>13. ASSUME NEW f \in Function, TestThrows(f) PROVE ReleaseOK'
  BY <1>13 DEF TestThrows, Throw, Goto, tables, store, program
<1>14. ASSUME NEW f \in Function, Release(f) PROVE ReleaseOK'
  BY <1>14 DEF Release, program
<1>15. ASSUME NEW f \in Function, ReleaseThrows(f) PROVE ReleaseOK'
  BY <1>15 DEF ReleaseThrows, Throw, Goto, tables, program
<1>16. ASSUME NEW f \in Function, Touch(f) PROVE ReleaseOK'
  BY <1>16 DEF Touch, store, program
<1>17. ASSUME NEW f \in Function, Store(f) PROVE ReleaseOK'
  BY <1>17 DEF Store, StoreGranted, StoreRefused, tables, store, program
<1>18. ASSUME NEW f \in Function, StoreThrows(f) PROVE ReleaseOK'
  BY <1>18 DEF StoreThrows, Throw, Goto, tables, store, program
<1>19. ASSUME NEW f \in Function, Write(f) PROVE ReleaseOK'
  BY <1>19 DEF Write, Goto, tables
<1>20. ASSUME UNCHANGED vars PROVE ReleaseOK'
  BY <1>20 DEF vars, tables, store, call, program
<1> QED
  BY <1>1, <1>2, <1>3, <1>4, <1>5, <1>6, <1>7, <1>8, <1>9, <1>10,
     <1>11, <1>12, <1>13, <1>14, <1>15, <1>16, <1>17, <1>18, <1>19, <1>20 DEF Next, Call, Continue


\* A put is of an object nobody has read.
LEMMA PutReleased ==
  ASSUME ReleaseInv, NEW f \in Function, NEW o \in toPut[f], pc[f] \notin {"test", "release"},
         UNCHANGED <<buffer, idx, dropped>>,
         \A q \in Object \ {o} : index'[q] = index[q],
         \A g \in Function \ {f} : pc'[g] = pc[g]
  PROVE  ReleasedWhenRead'
<1>1. dropped[o] = {}
  BY NotRead DEF ReleaseInv
<1>2. ASSUME NEW q \in Tracked, Readers[q] # {}, Readers[q] \subseteq dropped[q], index[q] # "none"
      PROVE  \E g \in Function : pc'[g] \in {"test", "release"} /\ Entry(g)' = q
  <2>1. PICK g \in Function : pc[g] \in {"test", "release"} /\ Entry(g) = q
    BY <1>2 DEF ReleaseInv, ReleasedWhenRead
  <2> QED
    BY <2>1 DEF Entry
<1> QED
  BY <1>1, <1>2, TrackedType DEF ReleasedWhenRead

\* Counting the last reader of an object down is followed by the test.
LEMMA DecReleased ==
  ASSUME ReleaseInv, NEW f \in Function, Dec(f)
  PROVE  ReleasedWhenRead'
<1>1. /\ pc[f] = "commit" /\ pc' = [pc EXCEPT ![f] = "test"]
      /\ UNCHANGED <<buffer, index, idx>>
      /\ \A o \in Object, g \in Function : g \in dropped'[o] =>
           g \in dropped[o] \/ (g = f /\ o = Entry(f))
  BY DecEffect DEF ReleaseInv, CountInv
<1>2. pc \in [Function -> Label]
  BY DEF ReleaseInv, CountInv, TypeInv, TypeOK
<1>3. ASSUME NEW o \in Tracked, Readers[o] # {}, Readers[o] \subseteq dropped'[o], index[o] # "none"
      PROVE  \E g \in Function : pc'[g] \in {"test", "release"} /\ Entry(g)' = o
  <2>1. CASE o = Entry(f)
    BY <1>1, <1>2, <2>1 DEF Entry
  <2>2. CASE o # Entry(f)
    <3>1. Readers[o] \subseteq dropped[o]
      BY <1>1, <1>3, <2>2, TrackedType
    <3>2. PICK g \in Function : pc[g] \in {"test", "release"} /\ Entry(g) = o
      BY <1>3, <3>1 DEF ReleaseInv, ReleasedWhenRead
    <3> QED
      BY <1>1, <1>2, <3>2 DEF Entry
  <2> QED
    BY <2>1, <2>2
<1> QED
  BY <1>1, <1>3, TrackedType DEF ReleasedWhenRead

\* A commit passes an entry it leaves there only if someone is still to read it.
LEMMA PassReleased ==
  ASSUME ReleaseInv, NEW f \in Function, pc[f] \in {"test", "release"},
         UNCHANGED <<buffer, dropped>>,
         \A g \in Function \ {f} : pc'[g] = pc[g] /\ idx'[g] = idx[g],
         \A q \in Object \ {Entry(f)} : index'[q] = index[q],
         \/ index'[Entry(f)] = "none"
         \/ Readers[Entry(f)] = {} \/ ~(Readers[Entry(f)] \subseteq dropped[Entry(f)])
  PROVE  ReleasedWhenRead'
<1>1. ASSUME NEW o \in Tracked, Readers[o] # {}, Readers[o] \subseteq dropped[o], index'[o] # "none"
      PROVE  \E g \in Function : pc'[g] \in {"test", "release"} /\ Entry(g)' = o
  <2>1. o # Entry(f) /\ index[o] # "none"
    BY <1>1, TrackedType
  <2>2. PICK g \in Function : pc[g] \in {"test", "release"} /\ Entry(g) = o
    BY <1>1, <2>1 DEF ReleaseInv, ReleasedWhenRead
  <2> QED
    BY <2>1, <2>2 DEF Entry
<1> QED
  BY <1>1 DEF ReleasedWhenRead

\* Steps that leave the commits under way and the entries of the store alone.
LEMMA SameReleased ==
  ASSUME ReleaseInv, UNCHANGED <<index, dropped>>,
         \A g \in Function : pc[g] \in {"test", "release"} =>
           pc'[g] \in {"test", "release"} /\ Entry(g)' = Entry(g)
  PROVE  ReleasedWhenRead'
<1>1. ASSUME NEW o \in Tracked, Readers[o] # {}, Readers[o] \subseteq dropped[o], index[o] # "none"
      PROVE  \E g \in Function : pc'[g] \in {"test", "release"} /\ Entry(g)' = o
  <2>1. PICK g \in Function : pc[g] \in {"test", "release"} /\ Entry(g) = o
    BY <1>1 DEF ReleaseInv, ReleasedWhenRead
  <2> QED
    BY <2>1
<1> QED
  BY <1>1 DEF ReleasedWhenRead

LEMMA ReleasedStep ==
  ASSUME GoesOn = FALSE, ReleaseInv, [Next]_vars
  PROVE  ReleasedWhenRead'
<1>0. TypeOK /\ CallOK
  BY DEF ReleaseInv, CountInv, TypeInv
<1>1. ASSUME Registration PROVE ReleasedWhenRead'
  <2>1. /\ UNCHANGED <<index, dropped>>
        /\ \A g \in Function : pc[g] \in {"test", "release"} =>
             pc'[g] \in {"test", "release"} /\ buffer'[g] = buffer[g] /\ idx'[g] = idx[g]
    BY <1>0, <1>1 DEF TypeOK, Registration, RegisterPredictor, RegisterMonitor,
       DeregisterPredictor, DeregisterMonitor, tables, store, call, program
  <2> QED
    BY <2>1, SameReleased DEF Entry
<1>2. ASSUME NEW f \in Function, NEW o \in Object, HookGet(f, o) PROVE ReleasedWhenRead'
  <2>1. /\ UNCHANGED <<index, dropped>>
        /\ \A g \in Function : pc[g] \in {"test", "release"} =>
             pc'[g] \in {"test", "release"} /\ buffer'[g] = buffer[g] /\ idx'[g] = idx[g]
    BY <1>0, <1>2 DEF TypeOK, HookGet, MayGet, Running, Goto, store
  <2> QED
    BY <2>1, SameReleased DEF Entry
<1>3. ASSUME NEW f \in Function, NEW o \in Object, PlainGet(f, o) PROVE ReleasedWhenRead'
  <2>1. /\ UNCHANGED <<index, dropped>>
        /\ \A g \in Function : pc[g] \in {"test", "release"} =>
             pc'[g] \in {"test", "release"} /\ buffer'[g] = buffer[g] /\ idx'[g] = idx[g]
    BY <1>0, <1>3 DEF TypeOK, PlainGet, MayGet, Running, Goto, tables, store
  <2> QED
    BY <2>1, SameReleased DEF Entry
<1>4. ASSUME NEW f \in Function, NEW o \in Object, HookPut(f, o) PROVE ReleasedWhenRead'
  <2>1. /\ UNCHANGED <<index, dropped>>
        /\ \A g \in Function : pc[g] \in {"test", "release"} =>
             pc'[g] \in {"test", "release"} /\ buffer'[g] = buffer[g] /\ idx'[g] = idx[g]
    BY <1>0, <1>4 DEF TypeOK, HookPut, MayPut, Running, HasMonitor, Goto, tables, store, program
  <2> QED
    BY <2>1, SameReleased DEF Entry
<1>5. ASSUME NEW f \in Function, NEW o \in Object, PlainPut(f, o) PROVE ReleasedWhenRead'
  <2>1. /\ o \in toPut[f] /\ pc[f] = "idle" /\ UNCHANGED <<buffer, idx, dropped>>
        /\ \A q \in Object \ {o} : index'[q] = index[q]
        /\ \A g \in Function \ {f} : pc'[g] = pc[g]
    BY <1>0, <1>5 DEF TypeOK, PlainPut, MayPut, Running, tables, program
  <2> QED
    BY <2>1, PutReleased
<1>6. ASSUME NEW f \in Function, HookGetThrows(f) PROVE ReleasedWhenRead'
  <2>1. /\ UNCHANGED <<index, dropped>>
        /\ \A g \in Function : pc[g] \in {"test", "release"} =>
             pc'[g] \in {"test", "release"} /\ buffer'[g] = buffer[g] /\ idx'[g] = idx[g]
    BY <1>0, <1>6 DEF TypeOK, HookGetThrows, MayGet, Running, Throw, Goto, tables, store, program
  <2> QED
    BY <2>1, SameReleased DEF Entry
<1>7. ASSUME NEW f \in Function, HookPutThrows(f) PROVE ReleasedWhenRead'
  <2>1. /\ UNCHANGED <<index, dropped>>
        /\ \A g \in Function : pc[g] \in {"test", "release"} =>
             pc'[g] \in {"test", "release"} /\ buffer'[g] = buffer[g] /\ idx'[g] = idx[g]
    BY <1>0, <1>7 DEF TypeOK, HookPutThrows, MayPut, Running, Throw, Goto, tables, store, program
  <2> QED
    BY <2>1, SameReleased DEF Entry
<1>8. ASSUME NEW f \in Function, LookUp(f) PROVE ReleasedWhenRead'
  <2>1. /\ UNCHANGED <<index, dropped>>
        /\ \A g \in Function : pc[g] \in {"test", "release"} =>
             pc'[g] \in {"test", "release"} /\ buffer'[g] = buffer[g] /\ idx'[g] = idx[g]
    BY <1>0, <1>8 DEF TypeOK, LookUp, tables, store, program
  <2> QED
    BY <2>1, SameReleased DEF Entry
<1>9. ASSUME NEW f \in Function, Read(f) PROVE ReleasedWhenRead'
  <2>1. /\ UNCHANGED <<index, dropped>>
        /\ \A g \in Function : pc[g] \in {"test", "release"} =>
             pc'[g] \in {"test", "release"} /\ buffer'[g] = buffer[g] /\ idx'[g] = idx[g]
    BY <1>0, <1>9 DEF TypeOK, Read, Goto, tables, store, program
  <2> QED
    BY <2>1, SameReleased DEF Entry
<1>10. ASSUME NEW f \in Function, Dec(f) PROVE ReleasedWhenRead'
  BY <1>10, DecReleased
<1>11. ASSUME NEW f \in Function, TestZero(f) PROVE ReleasedWhenRead'
  <2>1. /\ UNCHANGED <<index, dropped>>
        /\ \A g \in Function : pc[g] \in {"test", "release"} =>
             pc'[g] \in {"test", "release"} /\ buffer'[g] = buffer[g] /\ idx'[g] = idx[g]
    BY <1>0, <1>11 DEF TypeOK, TestZero, tables, store, program
  <2> QED
    BY <2>1, SameReleased DEF Entry
<1>12. ASSUME NEW f \in Function, TestInUse(f) PROVE ReleasedWhenRead'
  <2>1. /\ pc[f] \in {"test", "release"} /\ UNCHANGED <<buffer, dropped>>
        /\ \A g \in Function \ {f} : pc'[g] = pc[g] /\ idx'[g] = idx[g]
        /\ \A q \in Object \ {Entry(f)} : index'[q] = index[q]
    BY <1>0, <1>12 DEF TypeOK, TestInUse, tables, store
  <2>2. ~(Readers[Entry(f)] \subseteq dropped[Entry(f)])
    <3>1. stage \notin {"none", "predictor"}
      BY <1>12 DEF TestInUse, ReleaseInv, CountInv, DroppedOK, Committing
    <3> QED
      BY <1>12, <3>1, ZeroMeansRead DEF TestInUse, Unread, ReleaseInv
  <2> QED
    BY <2>1, <2>2, PassReleased
<1>13. ASSUME NEW f \in Function, TestThrows(f) PROVE ReleasedWhenRead'
  <2>1. /\ pc[f] \in {"test", "release"} /\ UNCHANGED <<buffer, dropped>>
        /\ \A g \in Function \ {f} : pc'[g] = pc[g] /\ idx'[g] = idx[g]
        /\ \A q \in Object \ {Entry(f)} : index'[q] = index[q]
    BY <1>0, <1>13 DEF TypeOK, TestThrows, Throw, Goto, tables, store
  <2>2. Readers[Entry(f)] = {}
    BY <1>0, <1>13, EntryObject DEF TestThrows, Readers, Tracked, TypeInv
  <2> QED
    BY <2>1, <2>2, PassReleased
<1>14. ASSUME NEW f \in Function, Release(f) PROVE ReleasedWhenRead'
  <2>1. /\ pc[f] \in {"test", "release"} /\ UNCHANGED <<buffer, dropped>>
        /\ \A g \in Function \ {f} : pc'[g] = pc[g] /\ idx'[g] = idx[g]
        /\ \A q \in Object \ {Entry(f)} : index'[q] = index[q]
    BY <1>0, <1>14 DEF TypeOK, Release, Removed
  <2>2. index'[Entry(f)] = "none"
    BY <1>0, <1>14, EntryObject DEF Release, Removed, TypeInv, TypeOK
  <2> QED
    BY <2>1, <2>2, PassReleased
<1>15. ASSUME NEW f \in Function, ReleaseThrows(f) PROVE ReleasedWhenRead'
  <2>1. /\ pc[f] \in {"test", "release"} /\ UNCHANGED <<buffer, dropped>>
        /\ \A g \in Function \ {f} : pc'[g] = pc[g] /\ idx'[g] = idx[g]
        /\ \A q \in Object \ {Entry(f)} : index'[q] = index[q]
    BY <1>0, <1>15 DEF TypeOK, ReleaseThrows, Removed, Throw, Goto, tables
  <2>2. index'[Entry(f)] = "none"
    BY <1>0, <1>15, EntryObject DEF ReleaseThrows, Removed, TypeInv, TypeOK
  <2> QED
    BY <2>1, <2>2, PassReleased
<1>16. ASSUME NEW f \in Function, Touch(f) PROVE ReleasedWhenRead'
  <2>1. /\ UNCHANGED <<index, dropped>>
        /\ \A g \in Function : pc[g] \in {"test", "release"} =>
             pc'[g] \in {"test", "release"} /\ buffer'[g] = buffer[g] /\ idx'[g] = idx[g]
    BY <1>0, <1>16 DEF TypeOK, Touch, store, program
  <2> QED
    BY <2>1, SameReleased DEF Entry
<1>17. ASSUME NEW f \in Function, Store(f) PROVE ReleasedWhenRead'
  <2>1. /\ pc[f] = "store" /\ UNCHANGED <<buffer, idx, dropped>>
        /\ \A q \in Object \ {obj[f]} : index'[q] = index[q]
        /\ \A g \in Function \ {f} : pc'[g] = pc[g]
    BY <1>0, <1>17 DEF TypeOK, Store, StoreGranted, StoreRefused, tables, store
  <2>2. obj[f] \in toPut[f]
    BY <1>0, <2>1 DEF CallOK, Putting
  <2> QED
    BY <2>1, <2>2, PutReleased
<1>18. ASSUME NEW f \in Function, StoreThrows(f) PROVE ReleasedWhenRead'
  <2>1. /\ UNCHANGED <<index, dropped>>
        /\ \A g \in Function : pc[g] \in {"test", "release"} =>
             pc'[g] \in {"test", "release"} /\ buffer'[g] = buffer[g] /\ idx'[g] = idx[g]
    BY <1>0, <1>18 DEF TypeOK, StoreThrows, Throw, Goto, tables, store, program
  <2> QED
    BY <2>1, SameReleased DEF Entry
<1>19. ASSUME NEW f \in Function, Write(f) PROVE ReleasedWhenRead'
  <2>1. /\ UNCHANGED <<index, dropped>>
        /\ \A g \in Function : pc[g] \in {"test", "release"} =>
             pc'[g] \in {"test", "release"} /\ buffer'[g] = buffer[g] /\ idx'[g] = idx[g]
    BY <1>0, <1>19 DEF TypeOK, Write, Goto, tables
  <2> QED
    BY <2>1, SameReleased DEF Entry
<1>20. ASSUME UNCHANGED vars PROVE ReleasedWhenRead'
  <2>1. /\ UNCHANGED <<index, dropped>>
        /\ \A g \in Function : pc[g] \in {"test", "release"} =>
             pc'[g] \in {"test", "release"} /\ buffer'[g] = buffer[g] /\ idx'[g] = idx[g]
    BY <1>0, <1>20 DEF TypeOK, vars, tables, store, call, program
  <2> QED
    BY <2>1, SameReleased DEF Entry
<1> QED
  BY <1>1, <1>2, <1>3, <1>4, <1>5, <1>6, <1>7, <1>8, <1>9, <1>10,
     <1>11, <1>12, <1>13, <1>14, <1>15, <1>16, <1>17, <1>18, <1>19, <1>20 DEF Next, Call, Continue

LEMMA ReleaseInit == Init => ReleaseInv
<1>1. ASSUME Init PROVE OrderOK /\ ReleaseOK /\ ReleasedWhenRead
  <2>1. OrderOK
    BY <1>1 DEF Init, OrderOK
  <2>2. ReleaseOK
    BY <1>1 DEF Init, ReleaseOK
  <2>3. ReleasedWhenRead
    BY <1>1, TrackedType DEF Init, ReleasedWhenRead, Tracked
  <2> QED
    BY <2>1, <2>2, <2>3
<1> QED
  BY <1>1, CountInit DEF ReleaseInv

LEMMA ReleaseInvStep ==
  ASSUME GoesOn = FALSE, ReleaseInv, [Next]_vars
  PROVE  ReleaseInv'
<1>1. CountInv' /\ OrderOK'
  BY CountStep, OrderStep DEF ReleaseInv, CountInv
<1> QED
  BY <1>1, ReleaseStep, ReleasedStep DEF ReleaseInv

\* An object all its readers have counted down is gone, or about to be removed:
\* no object a reader still waits for keeps it, and none is forgotten.
THEOREM ReleasedInTime ==
  ASSUME GoesOn = FALSE
  PROVE  Spec => []ReleasedWhenRead
<1>1. ReleaseInv => ReleasedWhenRead
  BY DEF ReleaseInv
<1>2. ReleaseInv /\ [Next]_vars => ReleaseInv'
  BY ReleaseInvStep
<1> QED
  BY <1>1, <1>2, ReleaseInit, PTL DEF Spec

-----------------------------------------------------------------------------
(* Where the content is                                                    *)

LEMMA OneProducer ==
  ASSUME NEW f \in Function, NEW p \in Function, NEW o \in Output[f], o \in Output[p]
  PROVE  p = f
  BY WorkflowAssumption, WiringAssumption

\* Only readers release, and what they release is put and not external.
LEMMA ReleasedIsRead ==
  ASSUME ReleaseInv, NEW f \in Function, pc[f] = "release"
  PROVE  /\ AllRead(Entry(f)) /\ Entry(f) \in Object \ External
         /\ \A p \in Function : Entry(f) \notin toPut[p]
<1>1. AllRead(Entry(f)) /\ Entry(f) \in Object
  BY EntryObject DEF ReleaseInv, ReleaseOK, CountInv
<1>2. Entry(f) \in Input[f]
  BY DEF ReleaseInv, CountInv, TypeInv, TypeOK, BufferOK, Entry
<1>3. f \in dropped[Entry(f)]
  BY <1>1, <1>2, ReaderOf DEF AllRead
<1>4. Entry(f) \notin External
  BY <1>1 DEF AllRead, Tracked, Piped, External
<1> QED
  BY <1>1, <1>3, <1>4, NotRead DEF ReleaseInv

\* Steps that neither put nor write nor remove.
LEMMA QuietPlaced ==
  ASSUME PlaceOK, UNCHANGED <<store, toPut>>,
         \A o \in Object : dropped[o] \subseteq dropped'[o],
         \A g \in Function : pc[g] \in Writing \/ pc'[g] \in Writing =>
           pc'[g] = pc[g] /\ obj'[g] = obj[g]
  PROVE  PlaceOK'
<1>1. \A o : InPlace(o)' <=> InPlace(o)
  BY DEF InPlace, store
<1>2. \A o \in Object : AllRead(o) => AllRead(o)'
  BY DEF AllRead
<1>3. \A p \in Function : Output[p] \subseteq Object
  BY WorkflowAssumption
<1> QED
  BY <1>1, <1>2, <1>3 DEF PlaceOK, Writing, store

\* The entry of the object f begins to write.
LEMMA PutPlaced ==
  ASSUME ReleaseInv, PlaceOK, NEW f \in Function, NEW o \in toPut[f],
         pc[f] \notin Writing, pc'[f] \in Writing, obj'[f] = o,
         UNCHANGED <<bytes, s3, toPut, dropped>>,
         \A q \in Object \ {o} : index'[q] = index[q],
         \A g \in Function \ {f} : pc'[g] = pc[g] /\ obj'[g] = obj[g],
         pc'[f] = "write" => index'[o] = "memory",
         pc'[f] = "s3write" => index'[o] # "memory"
  PROVE  PlaceOK'
<1>1. o \in Output[f] /\ o \in Object /\ o \notin External /\ toPut[f] \subseteq Output[f]
  BY WorkflowAssumption DEF ReleaseInv, CountInv, TypeInv, CallOK, External
<1>2. \A q \in Object \ {o} : InPlace(q)' <=> InPlace(q)
  BY DEF InPlace
<1>3. \A q \in Object : AllRead(q)' <=> AllRead(q)
  BY DEF AllRead
<1>4. \A q \in External : InPlace(q)'
  BY <1>1, <1>2 DEF PlaceOK, External
<1>5. ASSUME NEW p \in Function, NEW q \in Output[p]
      PROVE  /\ q \in toPut[p] /\ ~(pc'[p] \in Writing /\ obj'[p] = q) => index'[q] = "none"
             /\ pc'[p] = "write" /\ obj'[p] = q => index'[q] = "memory"
             /\ pc'[p] = "s3write" /\ obj'[p] = q => index'[q] # "memory"
             /\ q \notin toPut[p] => InPlace(q)' \/ AllRead(q)'
  <2>1. q \in Object
    BY WorkflowAssumption
  <2>2. CASE q = o
    <3>1. p = f
      BY <1>1, <2>2, OneProducer
    <3> QED
      BY <2>2, <3>1
  <2>3. CASE q # o
    <3>1. p = f => obj'[p] # q
      BY <2>3
    <3>2. p = f => pc[p] \notin Writing
      OBVIOUS
    <3> QED
      BY <1>2, <1>3, <2>1, <2>3, <3>1, <3>2 DEF PlaceOK
  <2> QED
    BY <2>2, <2>3
<1> QED
  BY <1>4, <1>5 DEF PlaceOK

LEMMA RemovePlaced ==
  ASSUME ReleaseInv, PlaceOK, NEW f \in Function, pc[f] = "release", pc'[f] \notin Writing,
         Removed(Entry(f)), UNCHANGED <<toPut, dropped>>,
         \A g \in Function \ {f} : pc'[g] = pc[g] /\ obj'[g] = obj[g]
  PROVE  PlaceOK'
<1> DEFINE e == Entry(f)
<1>1. AllRead(e) /\ e \in Object \ External /\ \A p \in Function : e \notin toPut[p]
  BY ReleasedIsRead
<1>2. /\ \A q \in Object \ {e} : (index'[q] = index[q]) /\ (InPlace(q)' <=> InPlace(q))
      /\ index'[e] = "none"
  BY <1>1 DEF Removed, InPlace, ReleaseInv, CountInv, TypeInv, TypeOK
<1>3. \A q \in Object : AllRead(q)' <=> AllRead(q)
  BY DEF AllRead
<1>4. \A q \in External : InPlace(q)'
  BY <1>1, <1>2 DEF PlaceOK, External
<1>5. ASSUME NEW p \in Function, NEW q \in Output[p]
      PROVE  /\ q \in toPut[p] /\ ~(pc'[p] \in Writing /\ obj'[p] = q) => index'[q] = "none"
             /\ pc'[p] = "write" /\ obj'[p] = q => index'[q] = "memory"
             /\ pc'[p] = "s3write" /\ obj'[p] = q => index'[q] # "memory"
             /\ q \notin toPut[p] => InPlace(q)' \/ AllRead(q)'
  <2>1. q \in Object
    BY WorkflowAssumption
  <2>2. pc'[p] \in Writing => p # f /\ pc[p] \in Writing /\ obj'[p] = obj[p] /\ pc'[p] = pc[p]
    OBVIOUS
  <2>3. p = f => pc[p] \notin Writing
    BY DEF Writing
  <2>4. CASE q = e
    <3>1. pc'[p] \in Writing => obj'[p] # q
      BY <1>1, <2>2, <2>4 DEF ReleaseInv, CountInv, TypeInv, CallOK, Putting
    <3> QED
      BY <1>1, <1>3, <2>1, <2>4, <3>1 DEF Writing
  <2>5. CASE q # e
    BY <1>2, <1>3, <2>1, <2>2, <2>3, <2>5 DEF PlaceOK, Writing
  <2> QED
    BY <2>4, <2>5
<1> QED
  BY <1>4, <1>5 DEF PlaceOK

LEMMA WritePlaced ==
  ASSUME ReleaseInv, PlaceOK, NEW f \in Function, Write(f)
  PROVE  PlaceOK'
<1>0. obj[f] \in toPut[f] /\ obj[f] \in Output[f] /\ obj[f] \in Object
  BY WorkflowAssumption DEF Write, ReleaseInv, CountInv, TypeInv, CallOK, Putting, Writing
<1>1. PICK o \in Object : o = obj[f] /\ o \in toPut[f] /\ o \in Output[f]
  BY <1>0
<1>2. /\ \A g \in Function \ {f} : pc'[g] = pc[g] /\ obj'[g] = obj[g] /\ toPut'[g] = toPut[g]
      /\ pc'[f] = "idle" /\ toPut'[f] = toPut[f] \ {o} /\ pc[f] \in Writing
      /\ UNCHANGED <<index, dropped>>
  BY <1>1 DEF Write, Goto, Writing, ReleaseInv, CountInv, TypeInv, TypeOK
<1>3. bytes \subseteq bytes' /\ s3 \subseteq s3'
  BY DEF Write
<1>4. InPlace(o)'
  <2>1. pc[f] = "write" => o \in bytes' /\ index[o] = "memory"
    BY <1>1, <1>2 DEF Write, PlaceOK
  <2>2. pc[f] = "s3write" => o \in s3' /\ index[o] # "memory"
    BY <1>1 DEF Write, PlaceOK
  <2> QED
    BY <1>2, <2>1, <2>2 DEF InPlace, Writing
<1>5. \A q \in Object : InPlace(q) => InPlace(q)'
  BY <1>2, <1>3 DEF InPlace
<1>6. \A q \in Object : AllRead(q)' <=> AllRead(q)
  BY <1>2 DEF AllRead
<1>7. \A q \in External : InPlace(q)'
  BY <1>5 DEF PlaceOK, External
<1>8. ASSUME NEW p \in Function, NEW q \in Output[p]
      PROVE  /\ q \in toPut'[p] /\ ~(pc'[p] \in Writing /\ obj'[p] = q) => index[q] = "none"
             /\ pc'[p] = "write" /\ obj'[p] = q => index[q] = "memory"
             /\ pc'[p] = "s3write" /\ obj'[p] = q => index[q] # "memory"
             /\ q \notin toPut'[p] => InPlace(q)' \/ AllRead(q)'
  <2>1. q \in Object
    BY WorkflowAssumption
  <2>2. CASE p = f
    <3>1. q \in toPut'[p] => q \in toPut[p] /\ q # o
      BY <1>2, <2>2
    <3>2. q \notin toPut'[p] => q \notin toPut[p] \/ q = o
      BY <1>2, <2>2
    <3> QED
      BY <1>1, <1>2, <1>4, <1>5, <1>6, <2>1, <2>2, <3>1, <3>2 DEF PlaceOK, Writing
  <2>3. CASE p # f
    BY <1>2, <1>5, <1>6, <2>1, <2>3 DEF PlaceOK
  <2> QED
    BY <2>2, <2>3
<1> QED
  BY <1>2, <1>7, <1>8 DEF PlaceOK

LEMMA PlaceStep ==
  ASSUME PlaceInv, [Next]_vars
  PROVE  PlaceOK'
<1>0. TypeOK /\ CallOK /\ ReleaseInv /\ PlaceOK
  BY DEF PlaceInv, ReleaseInv, CountInv, TypeInv
<1>1. ASSUME Registration PROVE PlaceOK'
  <2>1. /\ UNCHANGED <<store, toPut, dropped>>
        /\ \A g \in Function : pc[g] \in Writing \/ pc'[g] \in Writing =>
             pc'[g] = pc[g] /\ obj'[g] = obj[g]
    BY <1>0, <1>1 DEF TypeOK, Writing, Registration, RegisterPredictor, RegisterMonitor,
       DeregisterPredictor, DeregisterMonitor, tables, store, call, program
  <2> QED
    BY <1>0, <2>1, QuietPlaced
<1>2. ASSUME NEW f \in Function, NEW o \in Object, HookGet(f, o) PROVE PlaceOK'
  <2>1. /\ UNCHANGED <<store, toPut, dropped>>
        /\ \A g \in Function : pc[g] \in Writing \/ pc'[g] \in Writing =>
             pc'[g] = pc[g] /\ obj'[g] = obj[g]
    BY <1>0, <1>2 DEF TypeOK, Writing, HookGet, MayGet, Running, Goto, store
  <2> QED
    BY <1>0, <2>1, QuietPlaced
<1>3. ASSUME NEW f \in Function, NEW o \in Object, PlainGet(f, o) PROVE PlaceOK'
  <2>1. /\ UNCHANGED <<store, toPut, dropped>>
        /\ \A g \in Function : pc[g] \in Writing \/ pc'[g] \in Writing =>
             pc'[g] = pc[g] /\ obj'[g] = obj[g]
    BY <1>0, <1>3 DEF TypeOK, Writing, PlainGet, MayGet, Running, Goto, tables, store
  <2> QED
    BY <1>0, <2>1, QuietPlaced
<1>4. ASSUME NEW f \in Function, NEW o \in Object, HookPut(f, o) PROVE PlaceOK'
  <2>1. /\ UNCHANGED <<store, toPut, dropped>>
        /\ \A g \in Function : pc[g] \in Writing \/ pc'[g] \in Writing =>
             pc'[g] = pc[g] /\ obj'[g] = obj[g]
    BY <1>0, <1>4 DEF TypeOK, Writing, HookPut, MayPut, Running, HasMonitor, Goto, tables,
       store, program
  <2> QED
    BY <1>0, <2>1, QuietPlaced
<1>5. ASSUME NEW f \in Function, NEW o \in Object, PlainPut(f, o) PROVE PlaceOK'
  <2>1. /\ o \in toPut[f] /\ pc[f] = "idle" /\ obj' = [obj EXCEPT ![f] = o]
        /\ UNCHANGED <<bytes, s3, toPut, dropped>>
    BY <1>5 DEF PlainPut, MayPut, Running, program
  <2>2. index[o] = "none" /\ o \in Object
    BY <1>0, <2>1, NotRead DEF ReleaseInv, CountInv, TypeInv, CallOK, PlaceOK, Writing
  <2>3. CASE index' = [index EXCEPT ![o] = "memory"] /\ pc' = [pc EXCEPT ![f] = "write"]
    <3>1. /\ pc'[f] = "write" /\ index'[o] = "memory" /\ obj'[f] = o
          /\ \A q \in Object \ {o} : index'[q] = index[q]
          /\ \A g \in Function \ {f} : pc'[g] = pc[g] /\ obj'[g] = obj[g]
      BY <1>0, <2>1, <2>2, <2>3 DEF TypeOK
    <3> QED
      BY <1>0, <2>1, <3>1, PutPlaced DEF Writing
  <2>4. CASE index' = index /\ pc' = [pc EXCEPT ![f] = "s3write"]
    <3>1. /\ pc'[f] = "s3write" /\ index'[o] = "none" /\ obj'[f] = o
          /\ \A q \in Object \ {o} : index'[q] = index[q]
          /\ \A g \in Function \ {f} : pc'[g] = pc[g] /\ obj'[g] = obj[g]
      BY <1>0, <2>1, <2>2, <2>4 DEF TypeOK
    <3> QED
      BY <1>0, <2>1, <3>1, PutPlaced DEF Writing
  <2> QED
    BY <1>5, <2>3, <2>4 DEF PlainPut
<1>6. ASSUME NEW f \in Function, HookGetThrows(f) PROVE PlaceOK'
  <2>1. /\ UNCHANGED <<store, toPut, dropped>>
        /\ \A g \in Function : pc[g] \in Writing \/ pc'[g] \in Writing =>
             pc'[g] = pc[g] /\ obj'[g] = obj[g]
    BY <1>0, <1>6 DEF TypeOK, Writing, HookGetThrows, MayGet, Running, Throw, Goto, tables,
       store, program
  <2> QED
    BY <1>0, <2>1, QuietPlaced
<1>7. ASSUME NEW f \in Function, HookPutThrows(f) PROVE PlaceOK'
  <2>1. /\ UNCHANGED <<store, toPut, dropped>>
        /\ \A g \in Function : pc[g] \in Writing \/ pc'[g] \in Writing =>
             pc'[g] = pc[g] /\ obj'[g] = obj[g]
    BY <1>0, <1>7 DEF TypeOK, Writing, HookPutThrows, MayPut, Running, Throw, Goto, tables,
       store, program
  <2> QED
    BY <1>0, <2>1, QuietPlaced
<1>8. ASSUME NEW f \in Function, LookUp(f) PROVE PlaceOK'
  <2>1. /\ UNCHANGED <<store, toPut, dropped>>
        /\ \A g \in Function : pc[g] \in Writing \/ pc'[g] \in Writing =>
             pc'[g] = pc[g] /\ obj'[g] = obj[g]
    BY <1>0, <1>8 DEF TypeOK, Writing, LookUp, tables, store, program
  <2> QED
    BY <1>0, <2>1, QuietPlaced
<1>9. ASSUME NEW f \in Function, Read(f) PROVE PlaceOK'
  <2>1. /\ UNCHANGED <<store, toPut, dropped>>
        /\ \A g \in Function : pc[g] \in Writing \/ pc'[g] \in Writing =>
             pc'[g] = pc[g] /\ obj'[g] = obj[g]
    BY <1>0, <1>9 DEF TypeOK, Writing, Read, Goto, tables, store, program
  <2> QED
    BY <1>0, <2>1, QuietPlaced
<1>10. ASSUME NEW f \in Function, Dec(f) PROVE PlaceOK'
  <2>1. /\ UNCHANGED <<store, toPut>>
        /\ \A g \in Function : pc[g] \in Writing \/ pc'[g] \in Writing =>
             pc'[g] = pc[g] /\ obj'[g] = obj[g]
    BY <1>0, <1>10 DEF TypeOK, Writing, Dec, program
  <2>2. \A o \in Object : dropped[o] \subseteq dropped'[o]
    BY <1>0, <1>10, DecEffect DEF ReleaseInv, CountInv
  <2> QED
    BY <1>0, <2>1, <2>2, QuietPlaced
<1>11. ASSUME NEW f \in Function, TestZero(f) PROVE PlaceOK'
  <2>1. /\ UNCHANGED <<store, toPut, dropped>>
        /\ \A g \in Function : pc[g] \in Writing \/ pc'[g] \in Writing =>
             pc'[g] = pc[g] /\ obj'[g] = obj[g]
    BY <1>0, <1>11 DEF TypeOK, Writing, TestZero, tables, store, program
  <2> QED
    BY <1>0, <2>1, QuietPlaced
<1>12. ASSUME NEW f \in Function, TestInUse(f) PROVE PlaceOK'
  <2>1. /\ UNCHANGED <<store, toPut, dropped>>
        /\ \A g \in Function : pc[g] \in Writing \/ pc'[g] \in Writing =>
             pc'[g] = pc[g] /\ obj'[g] = obj[g]
    BY <1>0, <1>12 DEF TypeOK, Writing, TestInUse, tables, store, program
  <2> QED
    BY <1>0, <2>1, QuietPlaced
<1>13. ASSUME NEW f \in Function, TestThrows(f) PROVE PlaceOK'
  <2>1. /\ UNCHANGED <<store, toPut, dropped>>
        /\ \A g \in Function : pc[g] \in Writing \/ pc'[g] \in Writing =>
             pc'[g] = pc[g] /\ obj'[g] = obj[g]
    BY <1>0, <1>13 DEF TypeOK, Writing, TestThrows, Throw, Goto, tables, store, program
  <2> QED
    BY <1>0, <2>1, QuietPlaced
<1>14. ASSUME NEW f \in Function, Release(f) PROVE PlaceOK'
  <2>1. /\ pc[f] = "release" /\ pc'[f] \notin Writing /\ Removed(Entry(f))
        /\ UNCHANGED <<toPut, dropped>>
        /\ \A g \in Function \ {f} : pc'[g] = pc[g] /\ obj'[g] = obj[g]
    BY <1>0, <1>14 DEF TypeOK, Writing, Release, program
  <2> QED
    BY <1>0, <2>1, RemovePlaced
<1>15. ASSUME NEW f \in Function, ReleaseThrows(f) PROVE PlaceOK'
  <2>1. /\ pc[f] = "release" /\ pc'[f] \notin Writing /\ Removed(Entry(f))
        /\ UNCHANGED <<toPut, dropped>>
        /\ \A g \in Function \ {f} : pc'[g] = pc[g] /\ obj'[g] = obj[g]
    BY <1>0, <1>15 DEF TypeOK, Writing, ReleaseThrows, Throw, Goto, program
  <2> QED
    BY <1>0, <2>1, RemovePlaced
<1>16. ASSUME NEW f \in Function, Touch(f) PROVE PlaceOK'
  <2>1. /\ UNCHANGED <<store, toPut, dropped>>
        /\ \A g \in Function : pc[g] \in Writing \/ pc'[g] \in Writing =>
             pc'[g] = pc[g] /\ obj'[g] = obj[g]
    BY <1>0, <1>16 DEF TypeOK, Writing, Touch, store, program
  <2> QED
    BY <1>0, <2>1, QuietPlaced
<1>17. ASSUME NEW f \in Function, Store(f) PROVE PlaceOK'
  <2>1. /\ pc[f] = "store" /\ UNCHANGED <<bytes, s3, obj, toPut, dropped>>
    BY <1>17 DEF Store, StoreGranted, StoreRefused, store, program
  <2>2. PICK o \in toPut[f] : o = obj[f] /\ o \in Object
    BY <1>0, <2>1, NotRead DEF CallOK, Putting, ReleaseInv
  <2>3. index[o] = "none"
    BY <1>0, <2>1, <2>2 DEF CallOK, PlaceOK, Writing
  <2>4. CASE StoreGranted(f, Predicted[obj[f]])
    <3>1. /\ pc'[f] \in Writing
          /\ pc'[f] = "write" => index'[o] = "memory"
          /\ pc'[f] = "s3write" => index'[o] # "memory"
          /\ \A q \in Object \ {o} : index'[q] = index[q]
          /\ \A g \in Function \ {f} : pc'[g] = pc[g]
      BY <1>0, <2>2, <2>4 DEF TypeOK, StoreGranted, Linked, Writing
    <3> QED
      BY <1>0, <2>1, <2>2, <3>1, PutPlaced DEF Writing
  <2>5. CASE StoreRefused(f)
    <3>1. /\ pc'[f] = "s3write" /\ index'[o] = "none"
          /\ \A q \in Object \ {o} : index'[q] = index[q]
          /\ \A g \in Function \ {f} : pc'[g] = pc[g]
      BY <1>0, <2>2, <2>3, <2>5 DEF TypeOK, StoreRefused, store
    <3> QED
      BY <1>0, <2>1, <2>2, <3>1, PutPlaced DEF Writing
  <2> QED
    BY <1>17, <2>4, <2>5 DEF Store
<1>18. ASSUME NEW f \in Function, StoreThrows(f) PROVE PlaceOK'
  <2>1. /\ UNCHANGED <<store, toPut, dropped>>
        /\ \A g \in Function : pc[g] \in Writing \/ pc'[g] \in Writing =>
             pc'[g] = pc[g] /\ obj'[g] = obj[g]
    BY <1>0, <1>18 DEF TypeOK, Writing, StoreThrows, Throw, Goto, tables, store, program
  <2> QED
    BY <1>0, <2>1, QuietPlaced
<1>19. ASSUME NEW f \in Function, Write(f) PROVE PlaceOK'
  BY <1>0, <1>19, WritePlaced
<1>20. ASSUME UNCHANGED vars PROVE PlaceOK'
  <2>1. /\ UNCHANGED <<store, toPut, dropped>>
        /\ \A g \in Function : pc[g] \in Writing \/ pc'[g] \in Writing =>
             pc'[g] = pc[g] /\ obj'[g] = obj[g]
    BY <1>0, <1>20 DEF TypeOK, Writing, vars, tables, store, call, program
  <2> QED
    BY <1>0, <2>1, QuietPlaced
<1> QED
  BY <1>1, <1>2, <1>3, <1>4, <1>5, <1>6, <1>7, <1>8, <1>9, <1>10,
     <1>11, <1>12, <1>13, <1>14, <1>15, <1>16, <1>17, <1>18, <1>19, <1>20 DEF Next, Call, Continue

\* What a reader has looked up stays where it is while it reads.
LEMMA ServedStays ==
  ASSUME GetServed, bytes \subseteq bytes', s3 \subseteq s3',
         \A g \in Function : pc'[g] \in {"read", "s3read"} => pc'[g] = pc[g] /\ obj'[g] = obj[g]
  PROVE  GetServed'
  BY DEF GetServed

LEMMA RemoveServed ==
  ASSUME PlaceInv, NEW f \in Function, pc[f] = "release", pc'[f] \notin {"read", "s3read"},
         Removed(Entry(f)),
         \A g \in Function \ {f} : pc'[g] = pc[g] /\ obj'[g] = obj[g]
  PROVE  GetServed'
<1>1. AllRead(Entry(f))
  BY ReleasedIsRead DEF PlaceInv
<1>2. ASSUME NEW g \in Function, pc[g] \in {"read", "s3read"} PROVE obj[g] # Entry(f)
  <2>1. obj[g] \in Input[g] /\ g \notin dropped[obj[g]]
    BY <1>2 DEF PlaceInv, ReleaseInv, CountInv, TypeInv, CallOK, DroppedOK, Getting
  <2> QED
    BY <1>1, <2>1, ReaderOf DEF AllRead
<1>3. ASSUME NEW g \in Function, pc'[g] \in {"read", "s3read"}
      PROVE  /\ pc'[g] = "read" => obj'[g] \in bytes'
             /\ pc'[g] = "s3read" => obj'[g] \in s3'
  <2>1. g # f /\ pc'[g] = pc[g] /\ obj'[g] = obj[g]
    BY <1>3
  <2> QED
    BY <1>2, <1>3, <2>1 DEF Removed, PlaceInv, GetServed
<1> QED
  BY <1>3 DEF GetServed

\* A reader finds the content where the inode says.
LEMMA LookUpServed ==
  ASSUME PlaceInv, NEW f \in Function, LookUp(f)
  PROVE  GetServed'
<1>1. /\ pc[f] = "lookup"
      /\ pc' = [pc EXCEPT ![f] = IF index[obj[f]] = "memory" THEN "read" ELSE "s3read"]
      /\ UNCHANGED <<bytes, s3, obj>>
  BY DEF LookUp, store
<1>2. PICK o \in Input[f] \ toRead[f] : o = obj[f] /\ f \notin dropped[o] /\ o \in Object
  BY <1>1, WorkflowAssumption
     DEF PlaceInv, ReleaseInv, CountInv, TypeInv, CallOK, DroppedOK, Getting
<1>3. InPlace(o)
  <2>1. CASE o \in External
    BY <2>1 DEF PlaceInv, PlaceOK
  <2>2. CASE o \notin External
    <3>1. PICK p \in Function : o \in Output[p]
      BY <1>2, <2>2 DEF External
    <3>2. p \in Parents[f] /\ o \in Tracked /\ f \in Readers[o]
      BY <3>1, ReaderOf
    <3>3. toPut[p] = {}
      BY <3>2 DEF PlaceInv, ReleaseInv, OrderOK, Ended
    <3> QED
      BY <1>2, <3>1, <3>2, <3>3 DEF PlaceInv, PlaceOK, AllRead
  <2> QED
    BY <2>1, <2>2
<1>4. pc \in [Function -> Label]
  BY DEF PlaceInv, ReleaseInv, CountInv, TypeInv, TypeOK
<1>5. /\ pc'[f] = "read" => obj[f] \in bytes
      /\ pc'[f] = "s3read" => obj[f] \in s3
  BY <1>1, <1>2, <1>3, <1>4 DEF InPlace
<1>6. \A g \in Function \ {f} : pc'[g] = pc[g]
  BY <1>1, <1>4
<1> QED
  BY <1>1, <1>5, <1>6 DEF GetServed, PlaceInv

LEMMA ServedStep ==
  ASSUME PlaceInv, [Next]_vars
  PROVE  GetServed'
<1>0. TypeOK /\ GetServed
  BY DEF PlaceInv, ReleaseInv, CountInv, TypeInv
<1>1. ASSUME Registration PROVE GetServed'
  <2>1. /\ bytes \subseteq bytes' /\ s3 \subseteq s3'
        /\ \A g \in Function : pc'[g] \in {"read", "s3read"} => pc'[g] = pc[g] /\ obj'[g] = obj[g]
    BY <1>0, <1>1 DEF TypeOK, store, Registration, call
  <2> QED
    BY <1>0, <2>1, ServedStays
<1>2. ASSUME NEW f \in Function, NEW o \in Object, HookGet(f, o) PROVE GetServed'
  <2>1. /\ bytes \subseteq bytes' /\ s3 \subseteq s3'
        /\ \A g \in Function : pc'[g] \in {"read", "s3read"} => pc'[g] = pc[g] /\ obj'[g] = obj[g]
    BY <1>0, <1>2 DEF TypeOK, store, HookGet, MayGet, Running, Goto, store
  <2> QED
    BY <1>0, <2>1, ServedStays
<1>3. ASSUME NEW f \in Function, NEW o \in Object, PlainGet(f, o) PROVE GetServed'
  <2>1. /\ bytes \subseteq bytes' /\ s3 \subseteq s3'
        /\ \A g \in Function : pc'[g] \in {"read", "s3read"} => pc'[g] = pc[g] /\ obj'[g] = obj[g]
    BY <1>0, <1>3 DEF TypeOK, store, PlainGet, MayGet, Running, Goto, tables, store
  <2> QED
    BY <1>0, <2>1, ServedStays
<1>4. ASSUME NEW f \in Function, NEW o \in Object, HookPut(f, o) PROVE GetServed'
  <2>1. /\ bytes \subseteq bytes' /\ s3 \subseteq s3'
        /\ \A g \in Function : pc'[g] \in {"read", "s3read"} => pc'[g] = pc[g] /\ obj'[g] = obj[g]
    BY <1>0, <1>4 DEF TypeOK, store, HookPut, MayPut, Running, HasMonitor, Goto, tables, program
  <2> QED
    BY <1>0, <2>1, ServedStays
<1>5. ASSUME NEW f \in Function, NEW o \in Object, PlainPut(f, o) PROVE GetServed'
  <2>1. /\ bytes \subseteq bytes' /\ s3 \subseteq s3'
        /\ \A g \in Function : pc'[g] \in {"read", "s3read"} => pc'[g] = pc[g] /\ obj'[g] = obj[g]
    BY <1>0, <1>5 DEF TypeOK, store, PlainPut, MayPut, Running, tables, program
  <2> QED
    BY <1>0, <2>1, ServedStays
<1>6. ASSUME NEW f \in Function, HookGetThrows(f) PROVE GetServed'
  <2>1. /\ bytes \subseteq bytes' /\ s3 \subseteq s3'
        /\ \A g \in Function : pc'[g] \in {"read", "s3read"} => pc'[g] = pc[g] /\ obj'[g] = obj[g]
    BY <1>0, <1>6 DEF TypeOK, store, HookGetThrows, MayGet, Running, Throw, Goto, tables, program
  <2> QED
    BY <1>0, <2>1, ServedStays
<1>7. ASSUME NEW f \in Function, HookPutThrows(f) PROVE GetServed'
  <2>1. /\ bytes \subseteq bytes' /\ s3 \subseteq s3'
        /\ \A g \in Function : pc'[g] \in {"read", "s3read"} => pc'[g] = pc[g] /\ obj'[g] = obj[g]
    BY <1>0, <1>7 DEF TypeOK, store, HookPutThrows, MayPut, Running, Throw, Goto, tables, program
  <2> QED
    BY <1>0, <2>1, ServedStays
<1>8. ASSUME NEW f \in Function, LookUp(f) PROVE GetServed'
  BY <1>0, <1>8, LookUpServed
<1>9. ASSUME NEW f \in Function, Read(f) PROVE GetServed'
  <2>1. /\ bytes \subseteq bytes' /\ s3 \subseteq s3'
        /\ \A g \in Function : pc'[g] \in {"read", "s3read"} => pc'[g] = pc[g] /\ obj'[g] = obj[g]
    BY <1>0, <1>9 DEF TypeOK, store, Read, Goto, tables, program
  <2> QED
    BY <1>0, <2>1, ServedStays
<1>10. ASSUME NEW f \in Function, Dec(f) PROVE GetServed'
  <2>1. /\ bytes \subseteq bytes' /\ s3 \subseteq s3'
        /\ \A g \in Function : pc'[g] \in {"read", "s3read"} => pc'[g] = pc[g] /\ obj'[g] = obj[g]
    BY <1>0, <1>10 DEF TypeOK, store, Dec, program
  <2> QED
    BY <1>0, <2>1, ServedStays
<1>11. ASSUME NEW f \in Function, TestZero(f) PROVE GetServed'
  <2>1. /\ bytes \subseteq bytes' /\ s3 \subseteq s3'
        /\ \A g \in Function : pc'[g] \in {"read", "s3read"} => pc'[g] = pc[g] /\ obj'[g] = obj[g]
    BY <1>0, <1>11 DEF TypeOK, store, TestZero, tables, program
  <2> QED
    BY <1>0, <2>1, ServedStays
<1>12. ASSUME NEW f \in Function, TestInUse(f) PROVE GetServed'
  <2>1. /\ bytes \subseteq bytes' /\ s3 \subseteq s3'
        /\ \A g \in Function : pc'[g] \in {"read", "s3read"} => pc'[g] = pc[g] /\ obj'[g] = obj[g]
    BY <1>0, <1>12 DEF TypeOK, store, TestInUse, tables, program
  <2> QED
    BY <1>0, <2>1, ServedStays
<1>13. ASSUME NEW f \in Function, TestThrows(f) PROVE GetServed'
  <2>1. /\ bytes \subseteq bytes' /\ s3 \subseteq s3'
        /\ \A g \in Function : pc'[g] \in {"read", "s3read"} => pc'[g] = pc[g] /\ obj'[g] = obj[g]
    BY <1>0, <1>13 DEF TypeOK, store, TestThrows, Throw, Goto, tables, program
  <2> QED
    BY <1>0, <2>1, ServedStays
<1>14. ASSUME NEW f \in Function, Release(f) PROVE GetServed'
  <2>1. /\ pc[f] = "release" /\ pc'[f] \notin {"read", "s3read"} /\ Removed(Entry(f))
        /\ \A g \in Function \ {f} : pc'[g] = pc[g] /\ obj'[g] = obj[g]
    BY <1>0, <1>14 DEF TypeOK, Release, program
  <2> QED
    BY <1>0, <2>1, RemoveServed
<1>15. ASSUME NEW f \in Function, ReleaseThrows(f) PROVE GetServed'
  <2>1. /\ pc[f] = "release" /\ pc'[f] \notin {"read", "s3read"} /\ Removed(Entry(f))
        /\ \A g \in Function \ {f} : pc'[g] = pc[g] /\ obj'[g] = obj[g]
    BY <1>0, <1>15 DEF TypeOK, ReleaseThrows, Throw, Goto
  <2> QED
    BY <1>0, <2>1, RemoveServed
<1>16. ASSUME NEW f \in Function, Touch(f) PROVE GetServed'
  <2>1. /\ bytes \subseteq bytes' /\ s3 \subseteq s3'
        /\ \A g \in Function : pc'[g] \in {"read", "s3read"} => pc'[g] = pc[g] /\ obj'[g] = obj[g]
    BY <1>0, <1>16 DEF TypeOK, store, Touch, program
  <2> QED
    BY <1>0, <2>1, ServedStays
<1>17. ASSUME NEW f \in Function, Store(f) PROVE GetServed'
  <2>1. /\ bytes \subseteq bytes' /\ s3 \subseteq s3'
        /\ \A g \in Function : pc'[g] \in {"read", "s3read"} => pc'[g] = pc[g] /\ obj'[g] = obj[g]
    BY <1>0, <1>17 DEF TypeOK, store, Store, StoreGranted, StoreRefused, tables, program
  <2> QED
    BY <1>0, <2>1, ServedStays
<1>18. ASSUME NEW f \in Function, StoreThrows(f) PROVE GetServed'
  <2>1. /\ bytes \subseteq bytes' /\ s3 \subseteq s3'
        /\ \A g \in Function : pc'[g] \in {"read", "s3read"} => pc'[g] = pc[g] /\ obj'[g] = obj[g]
    BY <1>0, <1>18 DEF TypeOK, store, StoreThrows, Throw, Goto, tables, program
  <2> QED
    BY <1>0, <2>1, ServedStays
<1>19. ASSUME NEW f \in Function, Write(f) PROVE GetServed'
  <2>1. /\ bytes \subseteq bytes' /\ s3 \subseteq s3'
        /\ \A g \in Function : pc'[g] \in {"read", "s3read"} => pc'[g] = pc[g] /\ obj'[g] = obj[g]
    BY <1>0, <1>19 DEF TypeOK, store, Write, Goto, tables
  <2> QED
    BY <1>0, <2>1, ServedStays
<1>20. ASSUME UNCHANGED vars PROVE GetServed'
  <2>1. /\ bytes \subseteq bytes' /\ s3 \subseteq s3'
        /\ \A g \in Function : pc'[g] \in {"read", "s3read"} => pc'[g] = pc[g] /\ obj'[g] = obj[g]
    BY <1>0, <1>20 DEF TypeOK, store, vars, call
  <2> QED
    BY <1>0, <2>1, ServedStays
<1> QED
  BY <1>1, <1>2, <1>3, <1>4, <1>5, <1>6, <1>7, <1>8, <1>9, <1>10,
     <1>11, <1>12, <1>13, <1>14, <1>15, <1>16, <1>17, <1>18, <1>19, <1>20 DEF Next, Call, Continue

LEMMA PlaceInit == Init => PlaceInv
<1>1. ASSUME Init PROVE PlaceOK /\ GetServed
  <2>1. \A o \in External : InPlace(o) /\ o \in Object
    BY <1>1 DEF Init, InPlace, External
  <2>2. \A p \in Function : \A o \in Output[p] : index[o] = "none" /\ o \in toPut[p] /\ pc[p] = "idle"
    BY <1>1, WorkflowAssumption DEF Init, External
  <2>3. PlaceOK
    BY <2>1, <2>2 DEF PlaceOK, Writing
  <2>4. GetServed
    BY <1>1 DEF Init, GetServed
  <2> QED
    BY <2>3, <2>4
<1> QED
  BY <1>1, ReleaseInit DEF PlaceInv

\* While no function carries on after a call that threw, every function finds
\* its inputs, whatever other functions commit at the same time.
THEOREM GetsAreServed ==
  ASSUME GoesOn = FALSE
  PROVE  Spec => []GetServed
<1>1. PlaceInv => GetServed
  BY DEF PlaceInv
<1>2. PlaceInv /\ [Next]_vars => PlaceInv'
  BY PlaceStep, ServedStep, ReleaseInvStep DEF PlaceInv
<1> QED
  BY <1>1, <1>2, PlaceInit, PTL DEF Spec

-----------------------------------------------------------------------------
(* Monitor implements Collector                                            *)

Waiting == [o \in Object |-> Readers[o] \ dropped[o]]
Kept == {o \in Object : index[o] # "none"}
Step == Abstract!Next \/ UNCHANGED <<Waiting, Kept>>

LEMMA KeepStep ==
  ASSUME NEW o \in Object, UNCHANGED dropped,
         \A q \in Object \ {o} : index'[q] = index[q],
         index'[o] = index[o] \/ index'[o] # "none"
  PROVE  Step
<1>1. Waiting' = Waiting
  BY DEF Waiting
<1>2. CASE index'[o] = index[o]
  <2>1. Kept' = Kept
    BY <1>2 DEF Kept
  <2> QED
    BY <1>1, <2>1 DEF Step
<1>3. CASE index'[o] # "none"
  <2>1. Kept' = Kept \cup {o}
    BY <1>3 DEF Kept
  <2>2. Abstract!Keep(o)
    BY <1>1, <2>1 DEF Abstract!Keep, Waiting, Kept
  <2> QED
    BY <2>2 DEF Abstract!Next, Step
<1> QED
  BY <1>2, <1>3

LEMMA PassStep ==
  ASSUME CountInv, NEW f \in Function, Dec(f)
  PROVE  Step
<1> DEFINE e == Entry(f)
<1>1. /\ pc[f] = "commit" /\ idx[f] \in DOMAIN buffer[f] /\ index' = index /\ e \in Object
      /\ e \in Tracked => dropped' = [dropped EXCEPT ![e] = dropped[e] \cup {f}]
      /\ e \notin Tracked => dropped' = dropped
  BY DecEffect DEF CountInv
<1>2. Kept' = Kept
  BY <1>1 DEF Kept
<1>3. CASE e \in Tracked
  <2>1. PICK o \in Tracked : o = e
    BY <1>3
  <2>2. idx[f] \in Uncounted(f) /\ pc[f] # "failed"
    BY <1>1 DEF CountInv, TypeInv, TypeOK, Uncounted
  <2>3. o \in Object /\ o \in Input[f] /\ f \notin dropped[o]
    BY <1>1, <2>1, <2>2 DEF CountInv, BufferOK, Entry
  <2>4. f \in Readers[o] \ dropped[o]
    BY <2>1, <2>3, ReaderOf
  <2>5. Waiting' = [Waiting EXCEPT ![o] = Waiting[o] \ {f}]
    <3>1. dropped \in [Object -> SUBSET Function] /\ dropped' = [dropped EXCEPT ![o] = dropped[o] \cup {f}]
      BY <1>1, <1>3, <2>1 DEF CountInv, TypeInv, TypeOK
    <3> QED
      BY <2>3, <3>1 DEF Waiting
  <2>6. Abstract!Pass(f, o)
    <3>1. f \in Waiting[o]
      BY <2>3, <2>4 DEF Waiting
    <3> QED
      BY <1>2, <2>5, <3>1 DEF Abstract!Pass, Waiting, Kept
  <2> QED
    BY <2>3, <2>6 DEF Abstract!Next, Step
<1>4. CASE e \notin Tracked
  BY <1>1, <1>2, <1>4 DEF Waiting, Step
<1> QED
  BY <1>3, <1>4

LEMMA CollectStep ==
  ASSUME ReleaseInv, NEW f \in Function, pc[f] = "release", Removed(Entry(f)), UNCHANGED dropped
  PROVE  Step
<1>1. PICK o \in Object : o = Entry(f) /\ AllRead(o)
  BY ReleasedIsRead
<1>2. Waiting' = Waiting /\ Waiting[o] = {}
  BY <1>1 DEF Waiting, AllRead
<1>3. index' = [index EXCEPT ![o] = "none"] /\ index \in [Object -> {"none", "memory", "zero"}]
  BY <1>1 DEF Removed, ReleaseInv, CountInv, TypeInv, TypeOK
<1>4. Kept' = Kept \ {o}
  BY <1>3 DEF Kept
<1>5. Abstract!Collect(o)
  BY <1>2, <1>4 DEF Abstract!Collect, Waiting, Kept
<1> QED
  BY <1>5 DEF Abstract!Next, Step

LEMMA RefinementStep ==
  ASSUME ReleaseInv, [Next]_vars
  PROVE  Step
<1>0. TypeOK /\ CallOK /\ ReleaseInv
  BY DEF ReleaseInv, CountInv, TypeInv
<1>1. ASSUME Registration PROVE Step
  <2>1. UNCHANGED <<index, dropped>>
    BY <1>1 DEF Registration, RegisterPredictor, RegisterMonitor, DeregisterPredictor,
       DeregisterMonitor, tables, store, call, program
  <2> QED
    BY <2>1 DEF Step, Waiting, Kept
<1>2. ASSUME NEW f \in Function, NEW o \in Object, HookGet(f, o) PROVE Step
  <2>1. UNCHANGED <<index, dropped>>
    BY <1>2 DEF HookGet, MayGet, Running, Goto, store
  <2> QED
    BY <2>1 DEF Step, Waiting, Kept
<1>3. ASSUME NEW f \in Function, NEW o \in Object, PlainGet(f, o) PROVE Step
  <2>1. UNCHANGED <<index, dropped>>
    BY <1>3 DEF PlainGet, MayGet, Running, Goto, tables, store
  <2> QED
    BY <2>1 DEF Step, Waiting, Kept
<1>4. ASSUME NEW f \in Function, NEW o \in Object, HookPut(f, o) PROVE Step
  <2>1. UNCHANGED <<index, dropped>>
    BY <1>4 DEF HookPut, MayPut, Running, HasMonitor, Goto, tables, store, program
  <2> QED
    BY <2>1 DEF Step, Waiting, Kept
<1>5. ASSUME NEW f \in Function, NEW o \in Object, PlainPut(f, o) PROVE Step
  <2>1. /\ UNCHANGED dropped
        /\ \A q \in Object \ {o} : index'[q] = index[q]
        /\ index'[o] = index[o] \/ index'[o] # "none"
    BY <1>0, <1>5 DEF TypeOK, PlainPut
  <2> QED
    BY <2>1, KeepStep
<1>6. ASSUME NEW f \in Function, HookGetThrows(f) PROVE Step
  <2>1. UNCHANGED <<index, dropped>>
    BY <1>6 DEF HookGetThrows, MayGet, Running, Throw, Goto, tables, store, program
  <2> QED
    BY <2>1 DEF Step, Waiting, Kept
<1>7. ASSUME NEW f \in Function, HookPutThrows(f) PROVE Step
  <2>1. UNCHANGED <<index, dropped>>
    BY <1>7 DEF HookPutThrows, MayPut, Running, Throw, Goto, tables, store, program
  <2> QED
    BY <2>1 DEF Step, Waiting, Kept
<1>8. ASSUME NEW f \in Function, LookUp(f) PROVE Step
  <2>1. UNCHANGED <<index, dropped>>
    BY <1>8 DEF LookUp, tables, store, program
  <2> QED
    BY <2>1 DEF Step, Waiting, Kept
<1>9. ASSUME NEW f \in Function, Read(f) PROVE Step
  <2>1. UNCHANGED <<index, dropped>>
    BY <1>9 DEF Read, Goto, tables, store, program
  <2> QED
    BY <2>1 DEF Step, Waiting, Kept
<1>10. ASSUME NEW f \in Function, Dec(f) PROVE Step
  BY <1>0, <1>10, PassStep DEF ReleaseInv
<1>11. ASSUME NEW f \in Function, TestZero(f) PROVE Step
  <2>1. UNCHANGED <<index, dropped>>
    BY <1>11 DEF TestZero, tables, store, program
  <2> QED
    BY <2>1 DEF Step, Waiting, Kept
<1>12. ASSUME NEW f \in Function, TestInUse(f) PROVE Step
  <2>1. UNCHANGED <<index, dropped>>
    BY <1>12 DEF TestInUse, tables, store, program
  <2> QED
    BY <2>1 DEF Step, Waiting, Kept
<1>13. ASSUME NEW f \in Function, TestThrows(f) PROVE Step
  <2>1. UNCHANGED <<index, dropped>>
    BY <1>13 DEF TestThrows, Throw, Goto, tables, store, program
  <2> QED
    BY <2>1 DEF Step, Waiting, Kept
<1>14. ASSUME NEW f \in Function, Release(f) PROVE Step
  BY <1>0, <1>14, CollectStep DEF Release
<1>15. ASSUME NEW f \in Function, ReleaseThrows(f) PROVE Step
  BY <1>0, <1>15, CollectStep DEF ReleaseThrows, Throw
<1>16. ASSUME NEW f \in Function, Touch(f) PROVE Step
  <2>1. UNCHANGED <<index, dropped>>
    BY <1>16 DEF Touch, store, program
  <2> QED
    BY <2>1 DEF Step, Waiting, Kept
<1>17. ASSUME NEW f \in Function, Store(f) PROVE Step
  <2>1. PICK o \in Object : o = obj[f]
    BY <1>0, <1>17, WorkflowAssumption DEF TypeOK, CallOK, Store, Putting
  <2>2. /\ UNCHANGED dropped
        /\ \A q \in Object \ {o} : index'[q] = index[q]
        /\ index'[o] = index[o] \/ index'[o] # "none"
    BY <1>0, <1>17, <2>1 DEF TypeOK, Store, StoreGranted, StoreRefused, Linked, store
  <2> QED
    BY <2>2, KeepStep
<1>18. ASSUME NEW f \in Function, StoreThrows(f) PROVE Step
  <2>1. UNCHANGED <<index, dropped>>
    BY <1>18 DEF StoreThrows, Throw, Goto, tables, store, program
  <2> QED
    BY <2>1 DEF Step, Waiting, Kept
<1>19. ASSUME NEW f \in Function, Write(f) PROVE Step
  <2>1. UNCHANGED <<index, dropped>>
    BY <1>19 DEF Write, Goto, tables
  <2> QED
    BY <2>1 DEF Step, Waiting, Kept
<1>20. ASSUME UNCHANGED vars PROVE Step
  <2>1. UNCHANGED <<index, dropped>>
    BY <1>20 DEF vars, tables, store, call, program
  <2> QED
    BY <2>1 DEF Step, Waiting, Kept
<1> QED
  BY <1>1, <1>2, <1>3, <1>4, <1>5, <1>6, <1>7, <1>8, <1>9, <1>10,
     <1>11, <1>12, <1>13, <1>14, <1>15, <1>16, <1>17, <1>18, <1>19, <1>20 DEF Next, Call, Continue

LEMMA RefinementInit == Init => Abstract!Init
  BY TrackedType DEF Init, Abstract!Init

\* Counting operation by operation, the monitor removes an object only when no
\* function is still to read it.
THEOREM MonitorImplementsCollector ==
  ASSUME GoesOn = FALSE
  PROVE  Spec => ImplementsCollector
<1>1. ReleaseInv /\ [Next]_vars => [Abstract!Next]_<<Waiting, Kept>>
  BY RefinementStep DEF Step
<1>2. ReleaseInv /\ [Next]_vars => ReleaseInv'
  BY ReleaseInvStep
<1> QED
  BY <1>1, <1>2, ReleaseInit, RefinementInit, PTL DEF Spec, ImplementsCollector,
     Abstract!Spec, Waiting, Kept

-----------------------------------------------------------------------------
(* Which calls throw                                                       *)

\* A call throws for the reasons CallsServed lists, and for no other.
THEOREM OnlyThoseCallsThrow == Spec => CallsServed
<1> DEFINE Throws == \A f \in Function :
             pc[f] # "failed" /\ pc'[f] = "failed" =>
               \/ stage # "open"
               \/ f \notin Piped
               \/ \E i \in DOMAIN buffer[f] : buffer[f][i] \notin Tracked \cap touched
<1>1. ASSUME TypeInv, [Next]_vars PROVE Throws
  <2>0. TypeOK /\ CallOK
    BY <1>1 DEF TypeInv
  <2>1. ASSUME Registration PROVE Throws
    BY <2>0, <2>1 DEF TypeOK, Registration, RegisterPredictor, RegisterMonitor,
       DeregisterPredictor, DeregisterMonitor, tables, store, call, program
  <2>2. ASSUME NEW f \in Function, NEW o \in Object, HookGet(f, o) PROVE Throws
    BY <2>0, <2>2 DEF TypeOK, HookGet, MayGet, Running, Goto, store
  <2>3. ASSUME NEW f \in Function, NEW o \in Object, PlainGet(f, o) PROVE Throws
    BY <2>0, <2>3 DEF TypeOK, PlainGet, MayGet, Running, Goto, tables, store
  <2>4. ASSUME NEW f \in Function, NEW o \in Object, HookPut(f, o) PROVE Throws
    BY <2>0, <2>4 DEF TypeOK, HookPut, MayPut, Running, HasMonitor, Goto, tables, store, program
  <2>5. ASSUME NEW f \in Function, NEW o \in Object, PlainPut(f, o) PROVE Throws
    BY <2>0, <2>5 DEF TypeOK, PlainPut, MayPut, Running, tables, program
  <2>6. ASSUME NEW f \in Function, HookGetThrows(f) PROVE Throws
    BY <2>0, <2>6 DEF TypeOK, HookGetThrows, MayGet, Running, Throw, Goto, tables, store,
       program, HasMonitor, HasPredictor
  <2>7. ASSUME NEW f \in Function, HookPutThrows(f) PROVE Throws
    BY <2>0, <2>7 DEF TypeOK, HookPutThrows, MayPut, Running, Throw, Goto, tables, store,
       program, HasMonitor, HasPredictor
  <2>8. ASSUME NEW f \in Function, LookUp(f) PROVE Throws
    BY <2>0, <2>8 DEF TypeOK, LookUp, tables, store, program
  <2>9. ASSUME NEW f \in Function, Read(f) PROVE Throws
    BY <2>0, <2>9 DEF TypeOK, Read, Goto, tables, store, program
  <2>10. ASSUME NEW f \in Function, Dec(f) PROVE Throws
    BY <2>0, <2>10 DEF TypeOK, Dec, store, program
  <2>11. ASSUME NEW f \in Function, TestZero(f) PROVE Throws
    BY <2>0, <2>11 DEF TypeOK, TestZero, tables, store, program
  <2>12. ASSUME NEW f \in Function, TestInUse(f) PROVE Throws
    BY <2>0, <2>12 DEF TypeOK, TestInUse, tables, store, program
  <2>13. ASSUME NEW f \in Function, TestThrows(f) PROVE Throws
    <3>1. \A g \in Function : g # f => pc'[g] = pc[g]
      BY <2>0, <2>13 DEF TypeOK, TestThrows, Throw, Goto
    <3>2. idx[f] \in DOMAIN buffer[f] /\ buffer[f][idx[f]] \notin Tracked
      BY <2>0, <2>13 DEF TestThrows, TypeOK, Entry
    <3> QED
      BY <3>1, <3>2
  <2>14. ASSUME NEW f \in Function, Release(f) PROVE Throws
    BY <2>0, <2>14 DEF TypeOK, Release, program
  <2>15. ASSUME NEW f \in Function, ReleaseThrows(f) PROVE Throws
    <3>1. \A g \in Function : g # f => pc'[g] = pc[g]
      BY <2>0, <2>15 DEF TypeOK, ReleaseThrows, Throw, Goto
    <3>2. idx[f] \in DOMAIN buffer[f] /\ buffer[f][idx[f]] \notin touched
      BY <2>0, <2>15 DEF ReleaseThrows, TypeOK, Entry
    <3> QED
      BY <3>1, <3>2
  <2>16. ASSUME NEW f \in Function, Touch(f) PROVE Throws
    BY <2>0, <2>16 DEF TypeOK, Touch, store, program
  <2>17. ASSUME NEW f \in Function, Store(f) PROVE Throws
    BY <2>0, <2>17 DEF TypeOK, Store, StoreGranted, StoreRefused, tables, store, program
  <2>18. ASSUME NEW f \in Function, StoreThrows(f) PROVE Throws
    <3>1. \A g \in Function : g # f => pc'[g] = pc[g]
      BY <2>0, <2>18 DEF TypeOK, StoreThrows, Throw, Goto
    <3>2. stage # "open" \/ f \notin Piped
      BY <2>0, <2>18 DEF StoreThrows, CallOK, Putting, HasPredictor, Intermediate
    <3> QED
      BY <3>1, <3>2
  <2>19. ASSUME NEW f \in Function, Write(f) PROVE Throws
    BY <2>0, <2>19 DEF TypeOK, Write, Goto, tables
  <2>20. ASSUME UNCHANGED vars PROVE Throws
    BY <2>0, <2>20 DEF TypeOK, vars, tables, store, call, program
  <2> QED
    BY <1>1, <2>1, <2>2, <2>3, <2>4, <2>5, <2>6, <2>7, <2>8, <2>9, <2>10,
       <2>11, <2>12, <2>13, <2>14, <2>15, <2>16, <2>17, <2>18, <2>19, <2>20 DEF Next, Call, Continue
<1> QED
  BY <1>1, TypeInit, TypeStep, PTL DEF Spec, CallsServed

=============================================================================
