# FuncStore: specifications, model checking and proofs

FuncStore is an in-memory object store for serverless workflows. Functions put
and get named objects. A metadata server decides where the bytes of an object
live, storage servers hold them, and S3 takes what does not fit. This directory
holds TLA+ specifications of its concurrent core, TLC configurations, and TLAPS
proofs. Paths below are relative to the repository (`src/` is its root, so the
C++ code is under `src/src/`).

Contents: 1 the system, 2 the modules, 3 the runs, 4 bounds and fairness,
5 what is proved, 6 findings, 7 what is not modelled, 8 plan.

## 1. The system

### Parts, state and operations

| part | state | operations | calls |
|---|---|---|---|
| Block allocator `metadata/block/random_block_allocator.cpp` | `free_blocks_` (lock-free queue of names), `allocated_blocks_` (concurrent map) | `allocate`, `free`, `add_blocks`, counters | - |
| Block registration `metadata/block/block_registration_*` | - | `register_blocks`, `deregister_blocks` | block allocator |
| Slice pools and buckets `metadata/blob/{slice_pool,bucket,bucket_allocator}.cpp` | `current_`, `immutable_buckets_`, `mtx_`; per bucket `cur_offset_`, `freed_memory_`, a mutex | `alloc`, `free` | block allocator, one block per bucket |
| Blob store `metadata/blob/blob_store.cpp` | `index_table_` (concurrent map name to inode), `slice_pools_` by lifetime, `mtx_` | `put`, `get`, `remove` | slice pools, block allocator |
| Inode service `metadata/blob/inode_management_*` | - | `put_lf`, `put`, `get`, `remove`, `hdag_put`, `hdag_get` | blob store, monitor, predictor |
| Client library `client/hive_client.cpp` | a connection per storage server, an S3 client | `put_lf`, `put`, `get`, `remove`; asynchronous, vectored and workflow variants | inode service, storage servers, S3 |
| Storage server `storage/*`, `server/storage_server.cpp` | one array of `num_blocks * blocksize` bytes | start (registers its blocks), `put`, `get` of a slice | block registration |
| Workflow monitor `monitor/*` | per workflow: `ref_table`, `commit_buffer`, `timetable` | `create`, `remove`, `hook_get`, `hook_put` | blob store (`remove`), predictor |
| Lifetime predictor `predictor/*` | per workflow: features, predicted and real lifetime of each state | `create`, `remove`, `predict`, `info` | model server |
| Workflow service and DAG `workflow/*`, `utils/hdag_utils.cpp` | - | `workflow_register`, `workflow_deregister` | predictor, then monitor |
| Block usage tracker `metadata/block/block_usage_tracker.cpp` | `stop_`, one thread | `start`, `stop` | block allocator |
| Metadata server start-up `server/metadata_server.cpp` | - | wires the parts together | all |
| Thrift transport and stubs | - | one thread per connection, one handler at a time | - |

### How they interact

- A **put** is two phases: the metadata server allocates space, indexes the
  inode and answers; the client then writes each slice to its storage server.
  A refused put is answered with lifetime 0 and the client writes to S3.
- A **get** is two phases as well: look the inode up, read the slices. Lifetime
  0 sends it to S3.
- A **remove** unlinks the inode under `blob_store::mtx_` and gives the space
  back after dropping the mutex. It speaks neither to the storage servers nor
  to S3.
- An object smaller than a block takes one slice of a bucket, in the slice pool
  that its lifetime selects. Any other takes whole blocks. `remove` works out
  which it was from the inode.
- A **workflow** is registered as a graph of functions with their inputs and
  outputs. Its functions may call `hdag_get` and `hdag_put` instead. `hdag_get`
  notes the object in the function's commit buffer, then looks it up. `hdag_put`
  first commits the buffer: every object in it is counted down and removed from
  the blob store at 0. Then the predictor answers a lifetime and the object is put.
- The **asynchronous and vectored** calls send several requests before they take
  the first reply, on a connection to the metadata server and one per slice to
  the storage servers. Replies are matched by their position.
- All handlers of the metadata server run concurrently, one thread per
  connection, on shared lock-free structures.

### What is hard, and what makes each part correct

- **Block allocator.** Its mutex is commented out, so a call is a sequence of
  single queue and map operations and others run in between. Correct: a block
  has one user; a failed allocate loses none; the map says what is in use; a
  legitimate free is never refused; the counters add up; and, to its callers,
  the whole behaves like a pool that hands out whole requests.
- **Slice pools.** Three kinds of lock and two shared structures without one.
  Correct: two objects never share a byte, a block goes back only when all its
  slices are freed, once, and in the end it does go back.
- **Blob store and its callers.** `mtx_` excludes removes only. Correct: an
  inode has its places to itself, a remove frees what it found, once and where
  it came from; no space is orphaned; a get returns what the put wrote.
- **Failures.** A refused allocate half way through, an allocator exception
  with a pool's mutex held, a restarted storage server, a lost reply.
- **Workflow monitor.** References are counted down by the functions' next
  puts, without a lock. Correct: an object is removed when, and only when,
  every consumer has read it.
- **Pipelined client calls.** Storage servers answer in any order, some objects
  are refused or missing, a hook throws half way. Correct: each answer reaches
  its own place in its own object, and nothing stays behind for the next call.

`PROJECT.json` lists every hazard at its line with the properties that cover it.

## 2. The modules

| module | models | extends |
|---|---|---|
| `BlockPool` | what the block allocator promises: `Register`, `Take`, `GiveBack` of whole requests | - |
| `BlockAllocator` | `random_block_allocator`, registration | - (instantiates `BlockPool` as `Pool`) |
| `SliceSpace` | what a slice pool promises: `Hand` out and `TakeBack` of slices, `Lease` and `GiveUp` of blocks | - |
| `SlicePool` | `slice_pool`, `bucket`, `bucket_allocator` | `BlockPool` (instantiates `SliceSpace` as `Space`) |
| `BlobStore` | `blob_store`, the inode handlers, `hive_client`'s synchronous calls, slice bytes, S3 | `BlockPool` |
| `Collector` | what the monitor promises: `Keep`, `Pass`, `Collect` of objects with readers to come | - |
| `Monitor` | `monitor`, `hdag_get`, `hdag_put`, workflow registration, the predictor's tables, `hdag::construct` | - (instantiates `Collector` as `Abstract`) |
| `Client` | `async_put`, `async_get`, `vput`, `vget`, their `hdag_` forms, the connections they use | - |
| `MCBlockAllocator`, `MCSlicePool`, `MCBlobStore`, `MCMonitor`, `MCClient` | values and symmetry for TLC | the above |
| `BlockAllocatorProofs` | type correctness, exclusive use | `BlockAllocator`, `TLAPS` |
| `BlockAllocatorRefinement` | the map, `NothingLost`, whole grants, refinement of `BlockPool` | `BlockAllocatorProofs` |
| `BlockAllocatorCounts` | `CopiesBounded`, `TotalIsRegistered` | `BlockAllocatorRefinement` |
| `SlicePoolProofs` | type correctness, slices never shared, blocks released by their owner, refinement of `SliceSpace`; with one thread, every block comes back | `SlicePool`, `TLAPS` |
| `BlobStoreProofs` | type correctness, `ErasedIsFound`, `SpaceIsOwned` | `BlobStore`, `TLAPS` |
| `BlobStoreContent` | for disciplined callers: `NothingLeaked`, `GetReturnsPut` | `BlobStoreProofs` |
| `MonitorProofs` | type correctness, the counts, release in time, gets served, exceptions, refinement of `Collector` | `Monitor`, `TLAPS` |
| `ClientProofs` | type correctness; for clients that stop after an exception: every answer reaches its place, also slices that are late, replies match their requests, no call gets stuck | `Client`, `TLAPS` |

`BlockPool` is the seam of the composition: `BlockAllocator` is shown to
implement it, by TLC and by proof, and `SlicePool` and `BlobStore` use it where
the code calls the allocator. `SliceSpace` is the other one: `SlicePool` is shown
to implement it, and it is why `BlobStore` may take a slice for a place of its own.

**BlockAllocator.** One action per queue or map operation. `free` is the queue
as a bag of names, since a moodycamel queue promises no order between
producers. `allocated` is the key set of the map. A thread serves one call:
`pc` is the loop it is in, `hand` its local vector, `idx` its loop index.
`allocate` is `AllocateThrows` (the size check fails) or `Allocate` ;
`Dequeue`* ; then `Insert`* ; `Grant`, or `Miss` ; `Rollback`*. `free` is
`FreeBlocks` ; `Erase`* ; then `FreeErased` ; `Enqueue`*, or `FreeThrows`.
`add_blocks` is `AddBlocks` ; `Enqueue`*. The queue is vendored
(`thirdparty/include/concurrentqueue/concurrentqueue.h`) and modelled by what its
comments promise. `try_dequeue` "returns false if all producer streams appeared
empty" and the queue is then "likely but not guaranteed to be empty", so `Miss` may
happen at any dequeue. `size_approx()` "is only accurate if the queue has completely
stabilized": `SizeApprox` is any number while another thread is between its
dequeues or enqueues, else `QueueSize`, which takes what a finished call did to be
visible to the others.

**SlicePool.** `heap` holds the bucket objects by address, because the code
compares and shares pointers: one bucket can be `current` and in `immutable`
at once after the allocator threw. `Collect` drops objects nobody points to
(`shared_ptr`). `alloc` takes the mutex (`AllocEnter`), then `GetSlice`, or
`Retire` and `Refill`; `RefillThrows` is the allocator's exception. `free` is
`FreeFromCurrent` (all under the mutex) or `FreeFromImmutable` ; `Find` ;
`PutSlice`, or `PutLastSlice` ; `Release` ; `Erase`. `FindThrows` is the
`out_of_range` of a name that is not in the map. `TakeElsewhere` and
`GiveBackElsewhere` stand for every other user of the allocator. `Space` keeps the
slices of objects and the blocks of the pool and forgets buckets, mutexes and calls.

**BlobStore.** A client and the server thread of its connection are one process,
as the calls are synchronous. `put` is `PutSmall` or `PutLarge` ; `Insert` ;
`WriteSlice`*, or `PutRefused` ; `WriteS3`; `ReplyLost` moves a put that the
server has carried out to the S3 path. `get` is `GetFound` ; `ReadSlice`*, or
`GetMissing` ; `ReadS3`; then `GetReturns`. `remove` is `RemoveMissing`, or
`RemoveFind` ; `Erase` ; `FreeSlice` or `FreeBlocks`. A place is a whole block
or one slice; `live[p]` are the places slice pool `p` has handed out. The bytes
at a place are the number of the put and of the slice that wrote them, which is
all that "the right content" needs. `puts`, `put` and `last` are history: no
guard reads them, apart from the callers' discipline and the bound on puts.
`Overlap` and `Reput` switch on callers the server does not keep apart: two
calls on one name at the same time, a put of a name that exists.

**Monitor.** A function of the workflow is a process. `refs` is `ref_table`,
`buffer` the commit buffers, `touched` the keys of `timetable`, `real` the
lifetimes measured so far; `stage` says which of the two tables, the predictor's
and the monitor's, know the workflow, since registration fills and empties them
one after the other. `Children`, `Piped`, `Readers` and `Intermediate` are
`hdag::construct`: only a function with children gets a pipe, and with it a
buffer; a branch counts the children that read its object. `hdag_get` is
`HookGet` ; `LookUp` ; `Read`. `hdag_put` is `HookPut` ; per entry `Dec`, then
`TestInUse` or `TestZero` ; `Release` ; then `Touch` ; `Store` ; `Write`. The
exceptions are steps of their own: `HookGetThrows` and `HookPutThrows` (the
workflow is not registered, or the function has no buffer), `TestThrows` (the
object has no count), `ReleaseThrows` (it was never touched), `StoreThrows` (the
predictor does not know it). `GoesOn` says whether a function carries on after
an exception. `PlainGet` and `PlainPut` are the calls without the monitor.
Handlers of different functions interleave between any two operations on the
shared maps; calls into the blob store are one step, as `BlobStore` has the
steps. A function starts when its parents have ended, gets each input once, and
ends with a put if it has one. `dropped` is history.

**Client.** The metadata connection is a queue each way that holds `Window`
messages; sending to a full one waits, for the client as for the server.
`SendRequest`* ; then `RecvInode` per name, which sends a request for each
slice ; then `RecvAsync` per slice. `futures` is `slice_futures_map`, keyed by
the name in the reply for a vector and by the one object for `async_put` and
`async_get`. `Serve` is any storage server at any time. `NotInMemory` is the
inode without a name that answers a refused put or a missing object, and
`HookThrows` the exception of a hook. `RecvNothing` is a vector that the name
asked for does not have: `find()` returns `end()`, which is then used
("crashed"). After an exception the client is used again if `Reuse` holds. The
exception closes the slices' connections, but what was sent on them has been flushed:
those writes are `late`, and `ServeLate` is the storage server that serves one of
them after the call has thrown. The call's other requests stay on the metadata
connection and are answered as well. A late read changes nothing and is dropped.

## 3. The runs

| run | instance | checks | shows |
|---|---|---|---|
| `allocator` | 3 threads, 2 servers with 2 and 1 blocks, 2 requests of up to 3 | `TypeOK`, `ExclusiveUse`, `NothingLost`, `MapIsExact`, `FreeNeverRefused`, `TotalIsRegistered`, `GrantsWhole`, `ImplementsPool` | without the mutex, no interleaving gives a block away twice, loses one, or makes the map or the total wrong; a grant has the length asked for whatever the size estimate said; the calls implement `BlockPool` |
| `allocator_reboot` | 2 threads, 1 server started twice, 2 blocks | `CopiesBounded`, `MapIsHeld`, `EveryCallReturns` | after a restart a name has at most as many copies as it was advertised, and the map names nothing that nobody holds, although frees throw; every call ends, refused or thrown ones included |
| `slices` | 2 threads, 3 objects of 1 or 2 in blocks of 3, 2 blocks | `TypeOK`, `SlicesDisjoint`, `ReleasedByOwner`, `ImplementsSpace` | no interleaving of alloc, free and block reuse lets two objects share a byte or gives a block back twice; the calls implement `SliceSpace` |
| `slices_one_thread` | 1 thread, otherwise the same | `AllReturned`, `EveryCallReturns`, `MutexReleased` | without concurrency all blocks but the current bucket's go back; no path keeps the mutex |
| `slices_leak` | 2 threads, 2 objects | `AllReturned` violated | with concurrency a block can stay for ever (finding) |
| `blobs` | 2 clients, 2 names, objects of 1 to 3 in blocks of 2, 3 places, callers kept apart | `TypeOK`, `NothingLeaked`, `GetReturnsPut` | for disciplined callers no space is orphaned and a get returns what the put wrote |
| `blobs_overlap` | 2 clients on 1 name, any overlap, puts repeated, a lost reply | `SpaceIsOwned`, `ErasedIsFound` | space keeps one owner and is freed once, to the right pool, whatever overlaps |
| `blobs_lost_reply` | 1 client, one lost reply | `GetReturnsPut` violated | the object goes to S3 while gets read unwritten slices (finding) |
| `monitor` | 4 functions, 5 objects, registered and deregistered at any moment | `TypeOK`, `RefsExact`, `GetServed`, `ReleasedWhenRead`, `CallsServed`, `ImplementsCollector`, `EveryCallReturns` | commits that interleave count exactly; what all readers have committed is removed, nothing else is; every reader finds its object; calls throw for the listed reasons only |
| `monitor_external` | the same, functions carry on after an exception | `GetServed` violated | a put that is repeated counts a second time and removes what another function is reading (finding) |
| `client` | 1 client, 3 calls, vectors of up to 3 names, up to 3 slices | `TypeOK`, `PutStored`, `PartsInPlace`, `GetReturnsPut`, `NothingLeftBehind`, `CrashNeedsRefusal`, `RepliesMatch`, `NeverStuck`, `EveryCallEnds` | in whatever order storage servers answer, parts reach their places, late ones included, a reply is taken for the request it answers, and the next call finds clean connections; no call gets stuck although connections fill up |
| `client_stale` | the same with 2 calls, the client used again after an exception | `RepliesMatch` violated | the next call takes the reply of the last one for its own (finding) |

To repeat one: `tlc -config blobs.cfg MCBlobStore.tla`.

The runs differ in what the environment may do, and each property is checked
where it can fail. `ExclusiveUse`, `NothingLost`, `MapIsExact` and
`FreeNeverRefused` are stated under `RegisteredOnce`, so they run with one
start per server, and so does `TotalIsRegistered`; `CopiesBounded` and `MapIsHeld` are
what remains when servers restart. Safety
of slices needs two threads, `AllReturned` holds only for one. In `monitor` a
function ends at an exception; `monitor_external` shows what a repeat does.

`PROJECT.json` also holds, for every property of a passing run, a mutated
definition that breaks it: a peek instead of a dequeue, a failed allocate that
forgets its blocks or grants what it has, a free that throws at the first
block it does not find, a bucket reset too early or never, a lock not released, an
index that overwrites, a remove that looks up without the mutex, a test for the
last reference that is off by one, a buffer that is not cleared, slices of an
object that are numbered from 0, an exception reply that is skipped or never sent,
a slice one byte longer than what is left of the bucket. Each stands in
the module before the definition it changes, and `Next` does not use it.

## 4. Bounds and fairness

| bound | why it is enough |
|---|---|
| `MaxCount` 3 with 3 blocks | one request can take everything, two can collide and both be refused half way, and a rollback can meet an allocate |
| `MaxBoots` 1 or 2 | the second start is what creates a copy; a third creates another of the same kind |
| 3 threads (allocator) | an allocate, a free and a registration, or two allocates and a rollback, at the same time |
| 2 threads (slices) | one in the window between two steps of `free`, one that reuses the block; nothing in the code looks at a third |
| `Capacity` 3, sizes 1 and 2 | a bucket that is exactly full, one with room too small, one freed to the last byte and one byte short of it |
| 5 or 6 bucket addresses | one per block in the map, the current one, one per thread's local pointer; `NewAddress` never runs out |
| `Blocksize` 2, sizes 1 to 3 | a slice, exactly one block, one block and a rest |
| 3 places | a two-block object next to a one-place object, or a refusal |
| thresholds 2 and 5, lifetimes 1 and `IntMax` 9 | lifetimes of different pools, the last one for lifetimes above every threshold |
| `MaxPuts` 3 | put, remove, put again, with another object in between |
| 4 functions, 5 objects | a count of 2 with both commits at once (`x`, read by B and C), one of 1 with lifetime 0 (`w`), an object from outside (`cfg`), outputs nobody reads (`y`, `z`), a function with two puts and one without children |
| one invocation per registration, one instance per function | what the monitor's tables hold: counts are set at registration only, and a function has one buffer |
| `Window` 2 | both directions of the connection fill up with a vector of 3 |
| vectors of at most 3, names distinct | more than one direction holds; longer than 2 `Window` deadlocks (section 6) |
| `MaxPieces` 3, `MaxCalls` 3 | three storage servers answer in any order; put, get, and a call that finds what the one before left |
| `MaxLost` 1 | one lost reply leads to every state of the index and S3 that differ |

Symmetry is used over interchangeable threads, requests, clients, names,
objects and blocks, in safety runs only. Bucket addresses are not symmetric:
`NewAddress` chooses one.

*Fairness* is weak, per thread, of the steps inside a call (`Continue`) and
never of entering one. Those steps are running code: the queue and map
operations do not block, and a bucket's mutex is held for a few assignments.
The only wait in the pool is for `slice_pool::mtx_`, which is taken on entry.
An allocate that is refused throws at once; whether its caller tries again is
the caller's affair and no liveness property promises success. In `Monitor` it
is weak, per function, of the steps inside a call: a commit is a loop over a
list that only its own function extends. In `Client` it is weak of the client,
of the metadata server and of the storage servers, which are running code that
can proceed whenever a message is there and the other direction has room.

## 5. What is proved

The theorems hold for every value of the constants that satisfies the named
assumptions of the module: any number of threads, blocks, requests, clients,
names and sizes.

**BlockAllocator.** Assumptions: `ServerAssumption` (a server advertises at
least one name, no name twice, and no two servers share one: names are
host:port:index, `utils/block_utils.h`), `CallerAssumption`.

- `TypeCorrect`: `Spec => []TypeOK`. Needs `BlockToEnqueue`: a thread in an
  enqueuing loop has something left to enqueue.
- `BlocksExclusive`: `Spec => []ExclusiveUse`. A block has one *place*: an entry
  of the queue or a position of one vector. Every action either keeps the
  places, moves one (`PlaceDequeue`, `PlaceEnqueue`, `PlaceMove`), drops some
  (`PlaceDrop`), or adds those of a server that never advertised
  (`PlaceAdvertise`). The strengthening says that idle threads hold nothing and
  that names no server has advertised are nowhere.
- `MapExact`, `FreeSucceeds`: the map holds what requests hold plus the part a
  running loop has inserted or not yet erased; so `erase` always finds its
  block. They are one induction, since each needs the other.
- `BlocksKept`: `Spec => []NothingLost`, from exclusive use and the map.
- `GrantsAreWhole`: `Spec => GrantsWhole`. `WantInv` counts: a thread that inserts
  has as many blocks in hand as it wants, and only `Dequeue` brings it there
  (`OnlyGrant`). That they differ from each other is exclusive use.
- `MapNamesUsers`: `Spec => []MapIsHeld`, for any number of restarts. `Insert` and
  `Erase` only concern blocks of the thread's own vector, and a free drops its
  vector (`FreeThrows`) when it has erased all of it.
- `AllocatorImplementsPool`: for `MaxBoots = 1`, `Spec => ImplementsPool`. The
  refinement mapping puts blocks in transit on the side of the pool they come
  from: a vector being filled, rolled back or enqueued counts as available, one
  being erased as leased. `Grant` is `Take`, `FreeErased` is `GiveBack`,
  `AddBlocks` is `Register`, and everything else stutters.
- `CopiesAreBounded`: `Spec => []CopiesBounded`, for any number of restarts. The
  places of a name in vectors are finitely many; a step moves them (`PlacesMove`),
  takes one off the front of a vector (`PlacesTail`) or adds one at the end
  (`PlacesAppend`), and what an enqueue or a dequeue does to the queue makes up for
  it. Only an advertisement adds a copy, and it counts as a start.
- `TotalIsExact`: for `MaxBoots = 1`, `Spec => []TotalIsRegistered`. Only advertised
  names are anywhere (`RegisteredInv`), and by `NothingLost` all of them are. Between
  calls that means the queue or the map; by exclusive use no name is in both or in
  the queue twice, so the two counters add up.

**SlicePool.** Assumptions: `SizeAssumption` (a slice has at least one byte and
is smaller than a block), `NoneAssumption`, `AddressAssumption` (the heap has an
address for a bucket per block, one per thread and the current one, with one to
spare), `RecordAssumption` (the values that stand for "none" are not records).

- `SliceTypeCorrect`: `Spec => []TypeOK`. Its hard half is that `NewAddress`
  never runs out: `Collect` keeps one bucket per block of the map, one per thread
  and the current one, so by counting some address is free (`NewAddressIsFree`).
- `SlicesNeverShared`: `Spec => []SlicesDisjoint`, and `BlocksReleasedByOwner`:
  `Spec => []ReleasedByOwner`. Both follow from one account of bytes. `Used(b)`
  are the bytes of `b` in live slices and in slices being freed. A bucket
  `Counts` if it is current, if it has less freed than cut off, or if a thread is
  releasing it. A bucket that counts has `Room`: what was freed plus
  `Cardinality(Used(b))` is at most `cur_offset_`, all used bytes lie below
  `cur_offset_`, and the block is the pool's. At most one bucket per block counts.
  So when the last byte is freed nothing in the block is in use, and no other
  thread can come to the same conclusion. "At most" and not "equal": an erase of
  the wrong map entry (`slices_leak`) loses bytes, which is a leak and does not
  touch safety.

- `SlicePoolImplementsSpace`: `Spec => ImplementsSpace`. `GetSlice` is `Hand`: the
  new slice starts at `cur_offset_`, above everything in use, by `Room`. `Release`
  is `GiveUp`, whose guard is `ReleasedIsEmpty`; `Refill` is `Lease`, entering
  `free` is `TakeBack`, everything else stutters.
- `BlocksComeBack`: for one thread (`OneThread`), `Spec => []AllReturned`. Here the
  account must not lose bytes: `AccountOK` says that freed and used bytes together
  reach `cur_offset_`, so a retired bucket is emptied by its last free; `MineOK`
  that a block of the pool has a bucket that counts, `FiledOK` that such a bucket is
  current or named by the map, `FoundOK` that a free has found the bucket its slice
  was cut off. `Release` before `Erase` is what breaks `FiledOK` with a second
  thread (`slices_leak`).

**BlobStore.** Assumptions: `SizeAssumption` (objects are not empty),
`LifetimeAssumption`, `CallerAssumption`, `InodeAssumption`, `BoundAssumption`.
Nothing is assumed of `Overlap` and `Reput` in the first three; the last two are about disciplined
callers (`Overlap = FALSE`, `Reput = FALSE`), which is what the code leaves to them.

- `BlobTypeCorrect`: inodes, index and the locals of calls are well formed.
- `RemoveErasesFound`: `Spec => []ErasedIsFound`. While a remove is between its
  `find` and its `erase` it holds `mtx_`; the other removes are kept out by it,
  and a put's `insert` leaves an entry that exists alone.
- `SpaceHasOneOwner`: `Spec => []SpaceIsOwned`. The invariant adds that
  available and leased space are disjoint and that slices lie in leased space.
  Every action is one of four: inodes change hands (`HoldersMove`: `Insert` from
  put to index, `Erase` from index to remove), a holder gets fresh space
  (`SpaceGrows`), a holder leaves with its space (`SpaceShrinks`), or no holder
  changes. That `remove` recognises a slice by its size is where
  `BlocksAndOdds`, the arithmetic of the division into blocks, is needed.
- `NoSpaceOrphaned`: `Spec => []NothingLeaked`. A put, a remove or a get that
  others must not overlap has its name to itself (`CallersApart`), and a name
  that does not exist is not in the index (`NamesFree`); so `Insert` finds its
  entry empty and links what the put took. Lost replies do no harm here.
- `GetsReturnPuts`: for no lost reply and no lifetime 0, `Spec =>
  []GetReturnsPut`. While nobody puts or removes a name, the index leads to bytes
  that its last put wrote, or S3 holds them (`ObjectOK`); a put has written the
  slices it has passed (`PutOK`), a get has read the same (`GetOK`). A step on
  one name leaves the others alone (`OthersKept`): for `WriteSlice` this is where
  `SpaceIsOwned` is needed.

**Monitor.** Assumptions: `WorkflowAssumption` (the functions are finitely many),
`WiringAssumption` (an object has one producer, and its readers are among the
producer's successors), and `GoesOn = FALSE` in all but the first and the last
theorem: with `TRUE` they are false (`monitor_external`). Any graph is covered,
also one with cycles.

- `MonitorTypeCorrect`: `Spec => []TypeOK`.
- `CountsExact`: `Spec => []RefsExact`. An entry of a buffer is an object its
  function has read and not yet counted down, at a position no commit has passed
  (`BufferOK`), nobody counts an object down before reading it (`DroppedOK`);
  then `Dec` takes one reader out of `Readers[o] \ dropped[o]` and one off the
  count (`CountInv`).
- `ReleasedInTime`: `Spec => []ReleasedWhenRead`. `OrderOK` says that a reader
  can only have an object when its producer has ended, so no put brings it back
  after the last commit; `ReleaseOK` that who counted last is at the test or at
  the release.
- `GetsAreServed`: `Spec => []GetServed`. A reader between its lookup and its
  read has not committed the object, so the count is above 0 and nobody is at its
  release (`ReleaseInv`); an object that is put has its bytes where its inode
  says (`PlaceOK`, `PlaceInv`).
- `OnlyThoseCallsThrow`: `Spec => CallsServed`.
- `MonitorImplementsCollector`: `Spec => ImplementsCollector`. The refinement
  mapping: `waiting[o]` are the readers that have not counted `o` down, `kept`
  the objects with an entry in the index. `Dec` is `Pass`, `Store` and `PlainPut`
  are `Keep`, `Release` is `Collect`, whose guard is where `RefsExact` is
  needed; everything else stutters.

**Client.** Assumptions: `BatchAssumption` (a call names at least one object) and
`BoundAssumption`. Type correctness (`ClientTypeCorrect`, `ClientTypeOK`) needs no
more. The others assume that a client is not used after an exception (`Reuse =
FALSE`; `client_stale` shows why) and that no call names an object twice
(`Distinct`), and hold for vectors of any length, any `Window` and any order of
the storage servers.

- `PutsStored`: `Spec => []PutStored`, `GetsReturnWhatWasPut`: `Spec =>
  []GetReturnsPut`, `NothingStays`: `Spec => []NothingLeftBehind`, and
  `CrashesNeedRefusal`: `Spec => []CrashNeedsRefusal`, from one invariant.
  `QueueInv` counts: replies taken, replies waiting and requests waiting add up to
  the requests sent, and each of them is about the name at its position, which is
  what "the same sequence" in the code comes down to. `FuturesInv` says that a
  vector of slices belongs to one position and that slice `j` is bound for place
  `j` with part `j`; `TakenInv` that replies are taken in order; `MemInv` that an
  object that nobody is putting is whole. `InvAnswer` and `InvRecvInode`, where a
  message moves from one queue to the other and into the vector, carry the proof.
- `PartsStayInPlace`: `Spec => []PartsInPlace`. An exception takes from `futures`
  what was sent, and by `FuturesInv` and `GrantInv` each of these slices carries its
  own part (`OwnParts`). What makes it hold afterwards is that the requests left on
  the connection are for other names that nobody was granted (`UngrantedInv`), so a
  grant never gives a second object to a name that has slices (`GrantsAreNew`).
  `LateInv`, that late slices belong to a dead client, keeps them out of the other
  theorems.
- `RepliesInOrder`: `Spec => []RepliesMatch`, from `QueueInv` at its first reply;
  an exception has no name (`Nameless`).
- `CallsNeverStuck`: `Spec => []NeverStuck` if no vector is longer than 2 `Window`.
  While it sends, fewer messages than names are under way, so a direction has room;
  while it takes replies, some are still to come; and no slice's reply has been
  taken before its turn (`UntakenInv`, which needs `Distinct`). Both conditions are
  necessary (section 6).

Checked by TLC only: the liveness properties `EveryCallReturns`, `MutexReleased`
and `EveryCallEnds`. Every other property of a passing run is a theorem, under the
conditions stated above. The findings are counterexamples.

## 6. Findings

1. `slice_pool.cpp:44`: `free` gives the block to the allocator before it erases
   the bucket from the map. If the block comes back and its new bucket is
   retired in between, the erase removes the wrong entry, later frees throw and
   the block is never returned (`slices_leak`). Erasing first would do.
2. `inode_management_client.cpp:60`: a lost reply is taken for a refusal; the
   object goes to S3 and gets read slices nobody wrote (`blobs_lost_reply`).
3. `monitor_types.cpp:36`: a commit that throws at an object no function puts
   leaves in the buffer what it has counted down already. The function's next put
   counts it down again and removes it under another reader (`monitor_external`).
4. `hive_client.cpp:517`: an exception ends a vectored call with replies still on
   the connection, and the next call takes them for its own (`client_stale`).

The following came up as well. Nothing in the repository promises otherwise, so
no run is kept for them; what to change to see one is said where it is known.

- Two allocates can refuse each other while enough blocks for one of them are
  free; both put everything back (`random_block_allocator.cpp:34`).
- A storage server that restarts registers names that are in the queue or in
  use. They are counted, and can be handed out, twice
  (`random_block_allocator.cpp:67`; `allocator` with `MaxBoots = 2`).
- A put of an existing name allocates, keeps the old inode and orphans the new
  space (`blob_store.cpp:26`; `blobs` with `Reput = TRUE`).
- remove does not touch S3: an object whose put was refused survives it
  (`hive_client.cpp:111`).
- A get between a put's answer and its last write, and a get whose object is
  removed under it, read bytes of something else (`blobs` with `Overlap = TRUE`).
- `put_lf` does not look at lifetime 0 in the answer, so an object with that
  lifetime is in memory for the put and in S3 for the get (`hive_client.cpp:28`).
- `async_put` of a refused object stores nothing and reports success
  (`hive_client.cpp:122`).
- A vector of more names than both directions of the connection hold deadlocks
  (`client` with `Window = 1`), and so does a name given twice (`<<a, a>>`).
- An object of size 0 takes an empty slice. A retired bucket whose other bytes are
  freed is released with the empty slice in it, and freeing that one releases it
  again (`bucket.cpp:44`; `slices` with `Size = {0, 2}` and `SizeAssumption`
  relaxed violates `SlicesDisjoint`).
- Outputs nobody reads start at count 0 and are never removed; a second
  invocation of a registered workflow starts from the counts of the first; a
  function without children has no buffer, so all its `hdag_` calls throw.
- The metadata server starts the usage tracker and destroys it at once
  (`server/metadata_server.cpp`).

## 7. What is not modelled, and why

- Thrift, the generated stubs, sockets: a connection is a thread that runs one
  handler at a time, and a call either returns, throws, or its reply is lost.
- `remove_blocks` has an empty body and `deregister_blocks`, which would call
  it, has no caller.
- The text of exceptions and log lines, timing measurements.
- The parsing of slice names, JSON and configuration: a slice is a record, a
  workflow its three functions `Input`, `Output` and `Successor`.
- The predictor's features, paths, dump and the model server: an oracle that
  answers lifetimes. Its tables count in so far as a call throws when the
  workflow or the object is not in them.
- S3 itself: a map from names to contents, external.
- The cache of connections (`ENABLE_CACHE_CLIENT`): which connection carries a
  slice makes no difference, as each has its own reply.
- `persist_put` and `persist_get`, which are S3 calls only.
- Data races without an outcome the build defines: two instances of one function
  on one commit buffer (a `std::list`), moved-from paths in `findPaths`.
- 32-bit sizes: `full_blocks * block_size` wraps, and the subtraction wraps back
  to the right rest. Objects of size 0
  (section 6): nothing says whether they may be put.
- Start-up and the usage tracker: one thread and one flag, about log lines only.

## 8. Plan

Done: `BlockPool`, `BlockAllocator` with proofs and refinement; `SlicePool` and
`BlobStore` with their safety proofs; `SliceSpace` and its refinement by
`SlicePool`; `Collector` and `Monitor` with proofs and refinement; `Client` with its
safety proofs. What remains, in order of importance:

1. A store of whole objects that `BlobStore` implements for disciplined callers.
2. Storage servers that fail while the client writes.
