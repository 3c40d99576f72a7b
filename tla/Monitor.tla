------------------------------ MODULE Monitor ------------------------------
(***************************************************************************)
(* The reference counts of a workflow's objects: hdag_put and hdag_get of  *)
(* the inode service, monitor, the two tables of the predictor it touches, *)
(* and the registration of the workflow.                                   *)
(*                                                                         *)
(* A function is a process that gets its inputs and puts its outputs.  A   *)
(* get is noted in the function's commit buffer; the function's next put   *)
(* commits the buffer: each entry is counted down, and an object that      *)
(* reaches 0 is removed.  Handlers of different functions interleave at    *)
(* every operation on the shared maps.  The blob store's calls are single  *)
(* steps here (BlobStore shows them step by step).                         *)
(***************************************************************************)
EXTENDS Naturals, Integers, Sequences, FiniteSets

CONSTANTS
  Function, Object,
  Input, Output, Successor,   \* a func_node's inputs, outputs and next
  Start,                      \* the functions with isStart
  Predicted,                  \* the model's answer, a lifetime per object
  GoesOn,                     \* a function carries on after a call that threw
  NoObject

ASSUME WorkflowAssumption ==
  /\ IsFiniteSet(Function)
  /\ Input \in [Function -> SUBSET Object]
  /\ Output \in [Function -> SUBSET Object]
  /\ Successor \in [Function -> SUBSET Function]
  /\ Start \subseteq Function
  /\ Predicted \in [Object -> Nat]
  /\ GoesOn \in BOOLEAN
  /\ NoObject \notin Object

\* Every object has one producer, and who reads it is among its successors.
ASSUME WiringAssumption ==
  \A f, g \in Function, o \in Object :
    o \in Output[f] => /\ o \in Output[g] => f = g
                       /\ o \in Input[g] => g \in Successor[f] \ {f}

VARIABLES
  stage,     \* which of the two tables know the workflow
  refs,      \* ref_table
  buffer,    \* commit_buffer
  touched,   \* the keys of timetable
  real,      \* objects whose real_ lifetime was set
  index,     \* the blob store's entry: none, in memory, or lifetime 0
  bytes, s3, \* the objects whose content is there
  pc, obj, idx,
  toRead, toPut,
  dropped    \* history: who has counted an object down

tables == <<refs, buffer, touched, real>>
store == <<index, bytes, s3>>
call == <<pc, obj, idx>>
program == <<toRead, toPut>>
vars == <<stage, tables, store, call, program, dropped>>

Label == {"idle", "failed", "lookup", "read", "s3read", "commit", "test",
          "release", "store", "write", "s3write"}

-----------------------------------------------------------------------------
(* hdag::construct                                                         *)

Children == [f \in Function |-> Successor[f] \ {f}]
Parents == [f \in Function |-> {p \in Function : f \in Children[p]}]

\* Only functions with children get a pipe, and with it a commit buffer.
Piped == {f \in Function : Children[f] # {}}

Tracked == UNION {Output[f] : f \in Piped}

\* A branch's downstreams: the children that read what it carries.
Readers == [o \in Object |->
  {g \in Function :
     \E f \in Piped : o \in Output[f] /\ g \in Children[f] /\ o \in Input[g]}]

IntermediateInputs == UNION {Input[f] : f \in Function \ Start}
Intermediate == UNION ({Input[f] : f \in Function \ Start} \cup {Output[f] : f \in Piped})

External == Object \ UNION {Output[f] : f \in Function}

RefsOfChildren == [o \in Tracked |->
  Cardinality(UNION {Children[f] : f \in {g \in Piped : o \in Output[g]}})]
InitialRefs == [o \in Tracked |-> Cardinality(Readers[o])]

Init ==
  /\ stage = "none"
  /\ refs = [o \in Tracked |-> 0]
  /\ buffer = [f \in Function |-> <<>>]
  /\ touched = {} /\ real = {}
  /\ index = [o \in Object |-> IF o \in External THEN "memory" ELSE "none"]
  /\ bytes = External /\ s3 = {}
  /\ pc = [f \in Function |-> "idle"]
  /\ obj = [f \in Function |-> NoObject]
  /\ idx = [f \in Function |-> 1]
  /\ toRead = Input /\ toPut = Output
  /\ dropped = [o \in Object |-> {}]

-----------------------------------------------------------------------------
(* workflow_register and workflow_deregister: the predictor first.  A      *)
(* registration that fails (no model server) changes nothing, nor does a   *)
(* deregistration whose dump fails.                                        *)

RegisterPredictor == stage = "none" /\ stage' = "predictor" /\ UNCHANGED tables
RegisterMonitor == /\ stage = "predictor" /\ stage' = "open"
                   /\ refs' = InitialRefs
                   /\ UNCHANGED <<buffer, touched, real>>
DeregisterPredictor == stage = "open" /\ stage' = "monitor" /\ UNCHANGED tables
DeregisterMonitor == stage = "monitor" /\ stage' = "gone" /\ UNCHANGED tables

HasPredictor == stage \in {"predictor", "open"}
HasMonitor == stage \in {"open", "monitor"}

-----------------------------------------------------------------------------
(* What a function does: it starts when its parents have ended, reads each *)
(* input once, and its last put comes after its reads.                     *)

Ended(f) == pc[f] = "idle" /\ toRead[f] = {} /\ toPut[f] = {}
Running(f) == pc[f] = "idle" /\ \A p \in Parents[f] : Ended(p)

MayGet(f, o) == Running(f) /\ o \in toRead[f]
MayPut(f, o) == Running(f) /\ o \in toPut[f] /\ (toPut[f] = {o} => toRead[f] = {})

Goto(f, label, o) ==
  /\ pc' = [pc EXCEPT ![f] = label]
  /\ obj' = [obj EXCEPT ![f] = o]

\* An exception of a hook reaches the caller.
Throw(f) ==
  /\ Goto(f, IF GoesOn THEN "idle" ELSE "failed", NoObject)
  /\ UNCHANGED <<stage, tables, idx, program, dropped>>

-----------------------------------------------------------------------------
(* hdag_get, and the get that leaves the monitor out                       *)

HookGet(f, o) ==
  /\ MayGet(f, o)
  /\ HasMonitor /\ f \in Piped
  /\ buffer' = [buffer EXCEPT ![f] = <<o>> \o @]
  /\ toRead' = [toRead EXCEPT ![f] = @ \ {o}]
  /\ Goto(f, "lookup", o)
  /\ UNCHANGED <<stage, refs, touched, real, store, idx, toPut, dropped>>

\* find() of a workflow or of a function's buffer throws.
HookGetThrows(f) ==
  /\ \E o \in Object : MayGet(f, o)
  /\ ~(HasMonitor /\ f \in Piped)
  /\ Throw(f) /\ UNCHANGED store

PlainGet(f, o) ==
  /\ MayGet(f, o)
  /\ toRead' = [toRead EXCEPT ![f] = @ \ {o}]
  /\ Goto(f, "lookup", o)
  /\ UNCHANGED <<stage, tables, store, idx, toPut, dropped>>

LookUp(f) ==
  /\ pc[f] = "lookup"
  /\ pc' = [pc EXCEPT ![f] = IF index[obj[f]] = "memory" THEN "read" ELSE "s3read"]
  /\ UNCHANGED <<stage, tables, store, obj, idx, program, dropped>>

Read(f) ==
  /\ pc[f] \in {"read", "s3read"}
  /\ Goto(f, "idle", NoObject)
  /\ UNCHANGED <<stage, tables, store, idx, program, dropped>>

-----------------------------------------------------------------------------
(* hdag_put: hook_put, predict, blob_store::put; then the client writes    *)

HookPut(f, o) ==
  /\ MayPut(f, o)
  /\ HasMonitor /\ HasPredictor /\ f \in Piped
  /\ Goto(f, "commit", o)
  /\ idx' = [idx EXCEPT ![f] = 1]
  /\ UNCHANGED <<stage, tables, store, program, dropped>>

HookPutThrows(f) ==
  /\ \E o \in Object : MayPut(f, o)
  /\ ~(HasMonitor /\ HasPredictor /\ f \in Piped)
  /\ Throw(f) /\ UNCHANGED store

Entry(f) == buffer[f][idx[f]]

Decremented(o) == refs[o] - 1

\* update_fn(obj_name, dec_ref), which does nothing for an unknown name.
Dec(f) ==
  /\ pc[f] = "commit" /\ idx[f] <= Len(buffer[f])
  /\ IF Entry(f) \in Tracked
       THEN /\ refs' = [refs EXCEPT ![Entry(f)] = Decremented(Entry(f))]
            /\ dropped' = [dropped EXCEPT ![Entry(f)] = @ \cup {f}]
       ELSE UNCHANGED <<refs, dropped>>
  /\ pc' = [pc EXCEPT ![f] = "test"]
  /\ UNCHANGED <<stage, buffer, touched, real, store, obj, idx, program>>

UnreadByMost(o) == refs[o] <= 1
Unread(o) == refs[o] = 0

TestZero(f) ==
  /\ pc[f] = "test" /\ Entry(f) \in Tracked
  /\ Unread(Entry(f))
  /\ pc' = [pc EXCEPT ![f] = "release"]
  /\ UNCHANGED <<stage, tables, store, obj, idx, program, dropped>>

TestInUseOnly(f) ==
  /\ pc[f] = "test" /\ Entry(f) \in Tracked
  /\ ~Unread(Entry(f))
  /\ idx' = [idx EXCEPT ![f] = @ + 1]
  /\ UNCHANGED <<stage, tables, store, pc, obj, program, dropped>>

TestInUse(f) ==
  /\ pc[f] = "test" /\ Entry(f) \in Tracked
  /\ ~Unread(Entry(f))
  /\ idx' = [idx EXCEPT ![f] = @ + 1]
  /\ pc' = [pc EXCEPT ![f] = "commit"]
  /\ UNCHANGED <<stage, tables, store, obj, program, dropped>>

\* find() of an object no branch carries throws, with the buffer as it is.
TestThrows(f) ==
  /\ pc[f] = "test" /\ Entry(f) \notin Tracked
  /\ Throw(f) /\ UNCHANGED store

RemovedBytes(o) == bytes' = bytes \ {o} /\ UNCHANGED <<index, s3>>

\* blob_store::remove; the space may hold something else at once.
Removed(o) ==
  /\ index' = [index EXCEPT ![o] = "none"]
  /\ bytes' = bytes \ {o}
  /\ UNCHANGED s3

\* remove, then the object's lifetime since it was touched...
Release(f) ==
  /\ pc[f] = "release" /\ Entry(f) \in touched
  /\ Removed(Entry(f))
  /\ real' = real \cup {Entry(f)}
  /\ idx' = [idx EXCEPT ![f] = @ + 1]
  /\ pc' = [pc EXCEPT ![f] = "commit"]
  /\ UNCHANGED <<stage, refs, buffer, touched, obj, program, dropped>>

\* ... which throws for an object that was put without hdag_put.
ReleaseThrows(f) ==
  /\ pc[f] = "release" /\ Entry(f) \notin touched
  /\ Removed(Entry(f))
  /\ Throw(f)

TouchOnly(f) ==
  /\ pc[f] = "commit" /\ idx[f] > Len(buffer[f])
  /\ touched' = touched \cup {obj[f]}
  /\ pc' = [pc EXCEPT ![f] = "store"]
  /\ UNCHANGED <<stage, buffer, refs, real, store, obj, idx, program, dropped>>

\* buf->clear(), and touch(obj_name).
Touch(f) ==
  /\ pc[f] = "commit" /\ idx[f] > Len(buffer[f])
  /\ buffer' = [buffer EXCEPT ![f] = <<>>]
  /\ touched' = touched \cup {obj[f]}
  /\ pc' = [pc EXCEPT ![f] = "store"]
  /\ UNCHANGED <<stage, refs, real, store, obj, idx, program, dropped>>

\* An inode with lifetime 0 sends the client to S3, whoever chose the 0.
Linked(o, lifetime) == IF lifetime = 0 THEN "zero" ELSE "memory"

StoreGranted(f, lifetime) ==
  /\ index' = [index EXCEPT ![obj[f]] = Linked(obj[f], lifetime)]
  /\ pc' = [pc EXCEPT ![f] = IF lifetime = 0 THEN "s3write" ELSE "write"]
  /\ UNCHANGED <<stage, tables, bytes, s3, obj, idx, program, dropped>>

StoreRefused(f) ==
  /\ pc' = [pc EXCEPT ![f] = "s3write"]
  /\ UNCHANGED <<stage, tables, store, obj, idx, program, dropped>>

Store(f) ==
  /\ pc[f] = "store"
  /\ HasPredictor /\ obj[f] \in Intermediate
  /\ StoreGranted(f, Predicted[obj[f]]) \/ StoreRefused(f)

StoreRetries(f) ==
  /\ pc[f] = "store"
  /\ ~(HasPredictor /\ obj[f] \in Intermediate)
  /\ UNCHANGED vars

StoreThrows(f) ==
  /\ pc[f] = "store"
  /\ ~(HasPredictor /\ obj[f] \in Intermediate)
  /\ Throw(f) /\ UNCHANGED store

\* A put that leaves the monitor out.
PlainPut(f, o) ==
  /\ MayPut(f, o)
  /\ obj' = [obj EXCEPT ![f] = o]
  /\ \/ /\ index' = [index EXCEPT ![o] = "memory"]
        /\ pc' = [pc EXCEPT ![f] = "write"]
     \/ /\ pc' = [pc EXCEPT ![f] = "s3write"]
        /\ UNCHANGED index
  /\ UNCHANGED <<stage, tables, bytes, s3, idx, program, dropped>>

Write(f) ==
  /\ \/ pc[f] = "write" /\ bytes' = bytes \cup {obj[f]} /\ UNCHANGED s3
     \/ pc[f] = "s3write" /\ s3' = s3 \cup {obj[f]} /\ UNCHANGED bytes
  /\ toPut' = [toPut EXCEPT ![f] = @ \ {obj[f]}]
  /\ Goto(f, "idle", NoObject)
  /\ UNCHANGED <<stage, tables, index, idx, toRead, dropped>>

-----------------------------------------------------------------------------

Registration ==
  /\ \/ RegisterPredictor \/ RegisterMonitor
     \/ DeregisterPredictor \/ DeregisterMonitor
  /\ UNCHANGED <<store, call, program, dropped>>

Call(f) ==
  \/ \E o \in Object : HookGet(f, o) \/ PlainGet(f, o) \/ HookPut(f, o) \/ PlainPut(f, o)
  \/ HookGetThrows(f) \/ HookPutThrows(f)

Continue(f) ==
  \/ LookUp(f) \/ Read(f)
  \/ Dec(f) \/ TestZero(f) \/ TestInUse(f) \/ TestThrows(f)
  \/ Release(f) \/ ReleaseThrows(f) \/ Touch(f) \/ Store(f) \/ StoreThrows(f) \/ Write(f)

Next == Registration \/ \E f \in Function : Call(f) \/ Continue(f)

Spec == Init /\ [][Next]_vars

FairSpec == Spec /\ \A f \in Function : WF_vars(Continue(f))

-----------------------------------------------------------------------------
(* Properties                                                              *)

TypeOK ==
  /\ stage \in {"none", "predictor", "open", "monitor", "gone"}
  /\ refs \in [Tracked -> Int]
  /\ buffer \in [Function -> Seq(Object)]
  /\ touched \subseteq Object /\ real \subseteq Object
  /\ index \in [Object -> {"none", "memory", "zero"}]
  /\ bytes \subseteq Object /\ s3 \subseteq Object
  /\ pc \in [Function -> Label]
  /\ obj \in [Function -> Object \cup {NoObject}]
  /\ idx \in [Function -> Nat \ {0}]
  /\ toRead \in [Function -> SUBSET Object]
  /\ toPut \in [Function -> SUBSET Object]
  /\ dropped \in [Object -> SUBSET Function]
  /\ \A f \in Function : pc[f] \in {"test", "release"} => idx[f] \in DOMAIN buffer[f]

\* "<object, references>" (monitor_types.h:37): from the registration on, the
\* count is the number of readers whose next put is still to come, whatever
\* commits run at the same time.
RefsExact ==
  stage \notin {"none", "predictor"} =>
    \A o \in Tracked : refs[o] = Cardinality(Readers[o] \ dropped[o])

\* "Get an object for workflow" (hive_client.h:127): a function finds each of
\* its inputs where the inode says, though others commit meanwhile, and though
\* a refused object or one with lifetime 0 is in S3 only.
GetServed ==
  \A f \in Function : /\ pc[f] = "read" => obj[f] \in bytes
                      /\ pc[f] = "s3read" => obj[f] \in s3

\* An object all readers have committed is gone, unless one of them is just
\* about to remove it: counting down and testing for 0 are two operations, but
\* whoever counts last sees 0.
ReleasedWhenRead ==
  \A o \in Tracked :
    Readers[o] # {} /\ Readers[o] \subseteq dropped[o] =>
      \/ index[o] = "none"
      \/ \E f \in Function : pc[f] \in {"test", "release"} /\ Entry(f) = o

\* A call throws for one of these reasons only: the workflow is not (or no
\* longer) registered, its function has no children, or it read something the
\* monitor does not count or was never told of.
CallsServed ==
  [][\A f \in Function :
       pc[f] # "failed" /\ pc'[f] = "failed" =>
         \/ stage # "open"
         \/ f \notin Piped
         \/ \E i \in DOMAIN buffer[f] : buffer[f][i] \notin Tracked \cap touched]_vars

\* The operation-by-operation counting implements a collector that knows who is
\* still to read an object.
Abstract == INSTANCE Collector
  WITH waiting <- [o \in Object |-> Readers[o] \ dropped[o]],
       kept <- {o \in Object : index[o] # "none"}
ImplementsCollector == Abstract!Spec

\* Every call returns or throws.
EveryCallReturns ==
  \A f \in Function : pc[f] \notin {"idle", "failed"} ~> pc[f] \in {"idle", "failed"}
=============================================================================
