# Models and proofs of the erasure-coded storage prototype

The repository is a distributed object store: a client writes stripes of data and
parity blocks coded with a locally repairable code (UniLRC, AzureLRC, OptimalLRC,
UniformLRC), a coordinator keeps all metadata and places blocks, one proxy per
cluster moves the bytes, and datanodes keep one file per block. Control travels by
gRPC, data by plain sockets. This directory holds TLA+ models of it, their TLC
configurations and TLAPS proofs. Paths below are relative to `src/project/src` unless
they say otherwise.

## 1. Inventory

| Component | State | Operations | What makes it correct |
|---|---|---|---|
| Coordinator (`coordinator.cpp`) | `m_cur_stripe_id`, `m_stripe_table`, `m_object_commit_table`, `m_object_updating_table`, `m_stripe_deleting_table`, `m_cur_offset_table`, `m_cluster_table`, `m_node_table`; one mutex, one condition variable | uploadSetValue, uploadSubsetValue, uploadAppendValue, uploadOriginKeyValue (legacy), getValue, getStripe, getBlocks and the degraded reads, getRecovery and full-node and multi-block recovery, delByKey, delByStripe, listStripes, reportCommitAbort, checkCommitAbort, setParameter | a key is committed only after its blocks were handed over; stripe ids are unique; the tables agree with what the threads have done; nobody holds the mutex for ever |
| Client (`client.cpp`) | pre-allocated buffer, one socket acceptor | set, sub_set, get and degraded reads, recovery calls, delete, and set, get and delete of one object by key; append and sub_append are commented out, their planning (get_append_slice_plans) and transfer (async_append_to_proxies) are not | success means every group committed; its cut of the buffer is the coordinator's plan |
| Proxy (`proxy.cpp`) | one data acceptor shared by all its threads | scheduleAppend2Datanode, encodeAndSetObject, decodeAndGetObject, degradedRead (several variants), recovery, deleteBlock, getBlocks | a thread serves its own plan; it reports after its senders joined |
| Datanode (`datanode.cpp`) | one file per block, one data acceptor shared by its handlers | handleAppend, handleMergeParity, handleSet, handleGet, handleRecovery, handleDelete | a block's file holds the block's bytes, in order |
| Object placement (`coordinator.cpp` 2964-3458) | merge groups, free clusters, the start of the shared region | setParameter, generate_placement | a cluster can be lost; the stripes of a merge group lie as the placement type says |
| Placement (`coordinator.cpp` 160-370, 871-1108; `client.cpp` 392-600; `config.cpp` 16-46) | none | four placements, recovery groups, blocks per group on either side | one block per node; a group in one cluster; every recovery group XORs or decodes to the lost block |
| Append planning (`coordinator.cpp` 379-546; `client.cpp` 135-240) | none | slice sizes and offsets of an append | coordinator and client agree; a block's slices are contiguous; the parity slices cover the data |
| Codes (`encoder.cpp`, `lrc.cpp`, assembly) | none | Galois-field products | left to unit tests |

How they interact. `set()` asks the coordinator for a stripe; the coordinator
places the blocks, tells every group's proxy (the proxy starts a detached thread
that waits in `accept()` and returns), notes the keys as updating, and answers the
client. The client opens one connection per group and then blocks in
`checkCommitAbort`. The proxy thread takes a connection, calls `handleAppend` on
each block's datanode (which again starts a detached thread in `accept()`),
connects, writes the bytes, and reports to the coordinator, which wakes the client.

What is hard. Every data socket is shared by all threads of its process and a
connection says nothing of whom it is for. Threads are detached and nobody waits
for them. The report of a write races the coordinator's own note of it. The stripe
counter and most tables are touched without the mutex. A wait has no timeout, and
failed calls are ignored. `PROJECT.json` lists these hazards with their lines.

## 2. Plan

Modules, most important first.

1. `SetPath`, `SetContract`, `SetPathProofs` (done): the stripe write and the commit protocol, its abstract promise, proofs.
2. `LrcLayout`, `StripeLayout`, `StripeLayoutProofs` (done): the four placements, recovery groups, per-group counts and coefficients as operators; a stripe laid out, written, read and repaired by them; proofs for every supported code shape.
3. `DatanodeIO`, `GetPath`, `GetPathProofs` (done): the data socket every handler of a datanode shares, and reads over it.
4. `RepairPath`, `RepairPathProofs` (done): recovery and degraded reads over the same socket.
5. `DeletePath`, `DeletePathProofs` (done): deletion, the coordinator's mutex and condition variable, proofs.
6. `AppendPlan`, `AppendPath`, `AppendPathProofs` (done): the slices of an append on both sides, the block files they build and their merge.
7. `ObjectPlacement`, `ObjectPath`, `ObjectPlacementProofs`, `ObjectPathProofs` (done): objects by key, where a key is written twice and the report of a deletion can meet the new stripe.
8. Extensions, left open: reads by two clients beside a late append in `GetPath`; two datanode handlers of different kinds on one node in `RepairPath`; deletion of a stripe that is being appended to.

Proofs (done): `SetPathProofs`, `DeletePathProofs`, `GetPathProofs`, `RepairPathProofs`,
`AppendPathProofs` (the plan and the system), `ObjectPlacementProofs`, `ObjectPathProofs`,
`StripeLayoutProofs`. Every invariant and action property a passing run checks is a theorem;
what is left to TLC is liveness (section 6).

## 3. Modules and the code they model

`PROJECT.json` ("map") gives the lines each definition stands for. Variables carry the
source's names where the source names the state (`m_object_commit_table`, `map2node`,
`t_cluster_id`, ...); a thread's position is a `pc`-like variable whose values are named
for what the thread is doing. An action is a whole step of a thread between two points
where another thread can interfere: an RPC, a socket operation, a lock section.

**SetPath.** One upload is a client call, the coordinator's handler, one notify thread
and one proxy thread per group, one sender and one datanode handler per block.
`ReadStripeId`/`WriteStripeId` are the two halves of `m_cur_stripe_id++` (a data race: not
atomic). The blocks are then placed one after the other, outside the mutex: `SelectNode` is the
draw of `randomly_select_a_node`, `RecordNode` what `update_stripe_info_in_node` writes, and
`AbortCoordinator` its assertion (coordinator.cpp 2933), when an upload with the same stripe id
recorded the node in between. Once the coordinator is gone, `FailUpload`, `FailCheck` and
`FailSet` are what its clients do (the call fails, `set()` returns false) and `FailReport`
what a proxy's thread does. `EraseCommit`, `ScheduleAppend`, `NoteUpdating` are the notify thread in the
code's order, so that the proxy may report before the key is noted. `AcceptSlice(x, y)`:
thread x accepts *some* connection y of its proxy. `AcceptBlock(c, d)` likewise at the
datanode. `ReportCommit`, `CheckCommit` are the two sides of the commit protocol, and
`CrashNode` stops a datanode: the proxy ignores the failed call and reports all the
same. Bytes are abstracted to the block or slice they belong to.

**SetContract.** What a write promises: the groups of an upload commit one at a time and
stay committed; success is told when all of them are. `SetPath` implements it for one
client under `absPhase`, `absPlanned`, `absCommitted`.

**LrcLayout, StripeLayout.** `LrcLayout` holds the formulas: group of a block, number of
groups, recovery groups, the client's counts per group, the coefficients of encoder and
decoders by row and column. `StripeLayout` runs them as the program does: load and
validate a configuration, place block by block, reply to an upload, let the client cut
its slices, store, then read the stripe or repair one block. One thread; the point is
whether formulas written three times over fit together. A cluster's nodes are alike, so
only how many are used is kept.

**DatanodeIO.** A transfer is a call that starts a handler and a connection for it to
accept; handlers of append, get and recovery wait on one acceptor, and which meets which
is nondeterministic. `GetFromDatanode` returns true whatever happened. `GetPath` and
`RepairPath` extend it. **GetPath**: the client's accepting threads, the coordinator's
calls, the proxy's loop that starts a reader, writes the buffer and joins at the end.
**RepairPath**: helpers decode and send, the destination accepts as many connections as
it has helpers, adds up, and stores or answers. A part is right or garbage.
`get_degraded_read_blocks` is a `Batch` of repairs: the coordinator takes its blocks one
after the other (`GoOn`) and a connection says which of them it brings (`BroughtFor`).

**DeletePath.** A client deletes keys and stripes in any order, another lists and deletes
all. The coordinator notes the deletion under its mutex (`MarkKey`, `MarkStripe`), walks
the stripe without it (`LookUp`, `SendDelete`), the proxy's thread removes files
(`DelInDatanode`) and reports (`Report...`), and the client waits in `checkCommitAbort`
(`CheckCommitAbort`, one turn of the wait loop). A map lookup is one step; a *walk* is
two, and a walk that another thread's change overlaps may miss elements or crash. A handler
that throws between `lock()` and `unlock()` leaks the mutex. `Late` are append handlers
acknowledged and not yet run.

**AppendPlan, AppendPath.** `AppendPlan` numbers the bytes of a stripe along its rows and
holds `generateAppendPlan` and the client's second version of it: the slice of every data
block, the parity slice of each mode, what a group receives. `AppendPath` runs them: the
coordinator keeps a stripe and an offset per client (`m_cur_offset_table`), places a stripe
with its first append, and erases the entry when it is full; a proxy's thread sends the
slices of its group and, when the stripe is full, starts the merge and reports. Handlers
(`waiting`) and the bytes sent to them (`backlog`) outlive the call; `WriteSlice` pairs any
two of a node and writes at the end of the file. `handleMergeParity` is two steps, the
file read and the file rewritten. A file is the sequence of pieces written, each with the
handler that wrote it and the slice whose bytes it took. An assertion or `exit` of a node or
of the coordinator sets `ended`, with the reason. Appends come one at a time, so that a
proxy has one thread and one connection (`SetPath` has more).

**ObjectPlacement.** `generate_placement` as a choice of cluster per *part*: a chunk of g_m +
1 blocks of a local group, or the global parities. `Grouped`, `FreeClusters`, `AggStarts`
are the bookkeeping of merge groups, `Drawn` the parts whose cluster is random, `AggSite`
and `OptSite` those that are counted up from the start of the shared region. `setParameter`
clears everything.

**ObjectPath.** Set, get and delete of a key. `PlaceObject` and `NoteUpdating` are the
coordinator before and after its call to the proxy, `AcceptAndEncode` a proxy's thread that
takes any connection and compares as many bytes as its own key has, `handleSet` the
datanode's write of one block, at any later time. `CopyInfo` is the lookup between `lock()`
and `unlock()` that leaks the mutex when it throws. `ReportSet` commits what was noted
last for the key, `ReportDelete` looks the key up again. `Decoded` and `Spliced` are what
`decode_and_get` makes of the blocks it has: one more than k, or the k data blocks. A
client runs a script of calls. `truth`, `relies` and `contended` are history: which get may
count on which set, and which keys were set and deleted at one time.

The `MC...` modules give values to constants and define nothing else. Definitions named
`...Bug` are slips a later change could make; no specification uses them. They show that
each property can fail.

## 4. Runs

All complete within five minutes on two workers. Distinct states in parentheses.

| Run | Instance | What it shows |
|---|---|---|
| `one_client` (44,661) | one client, two uploads in turn, whole stripe or subset, two groups in two clusters, one datanode may crash | slices never mix at the proxies, a commit has its ObjectInfo, a file has metadata before it exists, success stays committed; the protocol implements `SetContract` |
| `two_clients` (53,695) | two clients, one block each, one cluster with one proxy and two datanodes, one may crash, fair | whatever ids and connections are swapped, commits follow a hand-off and every connection has a thread that can take it; every upload returns success unless two drew one stripe id, when the coordinator may end by its assertion and those that still need it return false; every acknowledged block is written, or its node is down, or the coordinator ended |
| `layout` (7,863) | all small files of the four codes in `Small` that are supported, and the four shipped settings at full size | placement, cut, encoder order, read and repair fit together |
| `append` (about 1,080,000; the reduction by symmetry varies a little) | k=4, r=4, z=2, units of 2 and blocks of 4 bytes, three appends of 5, 11 or 16 bytes by one client, two modes, one setParameter, two nodes, a data block and a parity followed | every append of any size at any offset is cut into its own bytes by coordinator and client; undisturbed files are in order and merged parities whole; what can end a process |
| `object_placement` (373,791) | four placements, six shapes of (k, l, g_m, x), four or six clusters, three stripes (two under Ran) between two setParameter | a cluster can be lost, and merge groups lie as their placement says |
| `object_path` (1,356,552) | k=1 with one local and one global parity, one proxy, two nodes, keys `a` and `ab`, eight scripts of two clients of up to three calls | a get hears what was set, and every call returns but for the causes named |
| `get_one_client` (40,754) | a get of two blocks and a get_blocks of one of them by one client, a late append handler on the block's datanode, one crash, fair | no read takes another's bytes, a read alone is right; both return, unless the append handler accepts the connection of a reader of the get_blocks |
| `repair_two_clients` (63,130) | a recovery and a degraded read by two clients, or a recovery and a degraded read of two blocks by one; one source may crash, fair | a repair alone uses its own parts and gives the block, recovery returns after the write, every repair returns |
| `delete_races` (108,654) | a client deletes an object by key, its stripe by id and an append key in any order; another deletes everything; one late append, one crash, fair | an acknowledged deletion is done, others' data is kept, tables agree, only a leaked mutex keeps a deletion from returning |
| `acked_not_saved`, `block_swapped`, `get_unfilled` | smallest that shows it | the disagreements of section 5, each a counterexample |

*Why the bounds are enough.* Interference needs two: two uploads, reads, repairs or
clients, two groups (a slice can go to a wrong one only if there are two), two nodes of a
cluster. A second upload of one client is what meets the leftovers of the first, and a third
meets the same leftovers. `MaxDown = 1` suffices for the failure path: a
crash affects the connections and handlers of that node only, and nothing counts crashes.
`SubsetSizes` and `StripeIds` hold every size at which a group empties and every residue
the round robin distinguishes. `MayCrash` leaves out the target of a recovery: the proxy's
exception there ends the proxy process, which is not modelled. In `get_one_client` `Late` is
the block both reads ask for: its datanode's append handler is still in `accept()`, as after
an acknowledged set. It may accept a reader's connection, then both read for ever and the
proxy does not join the reader; `GetReturns` names this exception (`Stuck`), which the run reaches. A
get's client waits for no join and returns all the same. The run has one cluster and no
`Missing` block (one a sub_set left out): two clusters, or three transfers beside the late append on
one node, take more than five minutes, and the safety properties are proved for any. In
`repair_two_clients`, for the same reason, no node is both read from and repaired to, so that this
meeting of two kinds of handlers is left out there. In `two_clients` an upload has one
block: with two the instance takes more than five minutes. So no upload there finds its cluster
without a free node, the third case `SetReturns` allows (`Starved`). `Together` keeps a behaviour of `repair_two_clients` to two
clients of one call each or one client of two.

In `append`, sizes 5, 11 and 16 fill a stripe in one, two or three appends and leave it
at a unit's middle, across a row, and at its end; `MaxLate` bounds the slices a node has yet
to write, and two are what it takes to swap. The nodes are symmetric (`Alike`; the run has
no temporal property). `SlicesAreBytes` speaks of every offset and size, and of the
formulas alone, so the states before the first append carry it. `PlanAssumption` asks
for z | k and z | r: without them the sizes of a group do not add up and `splitCharPointer`
asserts. In `object_placement`, `Legal` is `SetParameterByGrpc`'s check and l | k, without
which the last blocks have no cluster, and `Fits` leaves out systems with fewer clusters
than the placement needs, for which it draws for ever or asks `rand_num` for a number
below 0 (undefined). Two stripes show what a group shares, the third
starts the next group. In `object_path` the scripts are the pairs that touch: two sets of a
key, sets of a key and of one it begins, set against delete, delete against delete, and a
get beside each; with k=1 a decoded block is what the other blocks of its group say.

`CHECK_DEADLOCK FALSE` in `delete_races`: a leaked mutex, or a process that ended, really
stops the system. The other models end in an explicit `Finished` step. That of `object_path`
is enabled when a process ended or all is `Quiet` (each client returned, sleeps or waits for
what will not come, each thread is over or cannot go on), so that the deadlock check says that wherever
no thread can run the system is `Quiet`, and `CallsReturn` says which calls may then be left.

*Supported configurations.* `validateConfig` (config.cpp 18-46) admits files the formulas do not
fit. `Supported` (StripeLayout) says what they need besides: z > 1; z divides k (except
UniformLRC); UniLRC: z divides r; AzureLRC: r > k / z and more nodes per cluster than
r; OptimalLRC: r > 1 and r + 1 does not divide k / z; UniformLRC: k = r (z - 1) and more
nodes than r + 1. Outside it the placement may loop for ever (AzureLRC k=2, r=4, z=2
with three nodes per cluster, in `randomly_select_a_node`), the client aborts (OptimalLRC
with r + 1 dividing k / z), or a repair takes a coefficient from beyond its vector.

*Fairness.* Weak fairness of each step of a thread that has been started: operating-system
threads that can run do run, and an `accept()` with a connection waiting returns. The call to a
proxy (`ScheduleAppend`) is fair while the coordinator is up; one that was on its way when it
ended may still be served or may not. No fairness for the start of a client's call, for crashes, or for which of several connections a
thread takes. Nothing stronger is needed: no lock is modelled as contended for
ever, as `m_mutex` is held for a bounded stretch of code (or leaked, which the property
names).

## 5. Where code and documents disagree

1. `acked_not_saved`: the design document says the proxy acknowledges when all blocks are saved; it does when their bytes are in sockets. `AckedBlocksSettle` is what does hold.
2. `block_swapped`: a block's file may hold another block's bytes, with a single client: handlers of successive uploads on one datanode accept each other's connection. With two clients the slices at a proxy swap as well.
3. `get_unfilled`: the proxy sends a block's buffer before the thread that reads it has filled it.

Met while modelling, without a document that says otherwise, and kept in the models:

- Two uploads can read one stripe id (`m_cur_stripe_id++` outside the mutex). If they also draw one node, the assertion of `update_stripe_info_in_node` ends the coordinator; if not, both succeed with one id and one set of keys.
- `SetParameterByGrpc` does not ask that l divides k: with k=5, l=2, b=2, g_m=1 it accepts, and block 4 gets no cluster.
- Client and coordinator count groups by different formulas, and the client's `splitCharPointer` asserts when r + 1 divides k / z under OptimalLRC; a decoder of that code may take a coefficient from beyond `local_vector` (encoder.cpp 552-560).
- A repair with a source down returns success with garbage; the replacement node of a repair is recorded nowhere.
- `delByKey` and `getValue` of a key not committed leak `m_mutex`, and every later call hangs; the client of such a get waits for a connection nobody makes.
- Deleting an append key, or a stripe another client deleted meanwhile, ends the coordinator process; after a key is deleted its stripe stays in `Node::stripes`, for the node's counter stands at two for its one block.
- Append: a handler that meets another's connection writes its bytes; a data block's handler for offset 0 ends the node when a later slice created the file first; a merge may come before a record it should fold in, or before any and end the node; after an append that filled a stripe alone the parity holds no records. `setParameter` keeps the clients' offsets, and the next append of such a client ends the coordinator.
- Objects: two sets of one key share one updating entry, so that the second report commits an ObjectInfo of zeros, and a get of it ends the proxy; a thread that meets a connection with another key encodes and commits zeros, and takes the object of a key that begins with its own; the values a get splices run on to the next zero byte; a late `handleSet` overwrites the blocks of a newer value, for data files are named by key; a set of a committed key leaves its old stripe in the table for ever.
- Object placement never draws the last possible start of a shared region.
- The `..._breakdown` twins collect times in vectors that several threads push to without a lock.

## 6. Proofs

All proofs are by TLAPS, from the constants' named assumptions, which TLC evaluates in
every run of the modules. They hold for any number of clients, calls, groups, blocks,
datanodes and crashes, and any code shape the assumptions admit. What the assumptions
ask for, where it is more than a type:

| Module | Assumption | Why the code justifies it |
|---|---|---|
| SetPath | `NumGroups <= ClusterNum`; block ids are numbers | `validateConfig` asks for it; ids are `int`s, placed in their order |
| DeletePath | a key belongs to one stripe, a stripe has a block | as `generate_placement` leaves it |
| DatanodeIO, GetPath | `None` is no content and no node; block ids are numbers | ids are `int`s |
| RepairPath | `NodesAssumption`: the blocks of a repair are on different nodes, and the replacement is on none of them | the placements draw a node once per stripe, and the coordinator searches the spare among nodes not used |
| RepairPath | the batch of a degraded read has one client and runs whole; everything is finite | it is one call |
| AppendPlan | z divides k and r; a block is whole units | else the counts of a group do not add up and `splitCharPointer` asserts (section 4) |
| AppendPath | an append is 1 to `StripeSize` bytes | the loop of `append` cuts it so |
| StripeLayout | `FilesAssumption`: every file is of one of the four codes and `Supported` | section 4; `validateConfig` is a guard of the model |
| ObjectPath | clients are finitely many, a script has at most `MaxSteps` calls; `None` is no call, no stripe and no state of a thread; one local group and at most one global parity | `MaxSteps` is the model's bound, arbitrary in the proofs; of k + 1 blocks at most one data block is then missing and its local group is there, so that `Decoded` is all the decoding there is (with more parities the matrix is inverted) |
| ObjectPlacement | k, l, b, x at least 1 and l at most k | `SetParameterByGrpc`; `Legal` (its check, and l divides k, which it does not ask) and `Fits` (enough clusters) are guards of the model (section 4), so the theorems speak of those schemas and systems only |

**SetPathProofs.** `TypeCorrect` needs no strengthening. `CommitFollowsHandoff`: that a
committed key has its blocks handed over is not inductive alone, for a report acts for
the plan of its *thread*. `HandoffInv` adds that notify threads run after placement
(`NotifyOrder`) and proxy threads exactly for plans the proxy was called with (`ThreadOrder`).
`AbortsNeedSharedIds` says that the assertion fails only when two uploads drew one id, for any number
of clients and nodes. Its invariant `NodeInv` follows the unlocked window: a node keeps the ids of
the uploads that placed a block there (`OwnNodes`) and no others (`Owned`), and a node selected is not
one the upload recorded before (`SelectedAnew`), so that an id found there is another upload's.
`OneClientNeverAborts` is the consequence for one client.
The one-client theorems (`OneClientSlices`, `OneClientCommits`, `OneClientMetadata`,
`OneClientAcks`) share `OneClientInv`: uploads run one at a time (`OneRuns`), answers
follow notes (`ReplyOrder`), data follows answers (`SendOrder`), so a proxy has at most
one thread accepting and one connection waiting (`OwnSlice`, with `ClusterInjective`:
two groups of a stripe lie in different clusters); stripe ids are fresh (`FreshIds`), hence no
later upload erases an earlier one's keys and the coordinator stays up (`CoordinatorUp`, `NoFailure`); the tables hold exactly what threads have
done (`TablesFollow`), and datanodes hear of blocks from threads that have their slice
(`HandlerOrder`). `OneClientImplementsContract` maps every step to a step of
`SetContract` or a stutter from the same invariant.

**DeletePathProofs.** `DeleteTypes`, `DeletesDone`, `OthersUntouched`,
`TablesConsistent` share `DeleteInv`. What it adds and why:
`EntriesCounted` (in `TypeOK`) ties the number of entries of `m_stripe_deleting_table` to the
set of deletions noted and not reported, so that "no entry left" means every deletion of the
stripe reported, whoever made it; it rests on `Once` (a client deletes a target once).
`Whole` (a stripe's blocks are listed all or none) makes a torn walk harmless: if
another deletion emptied the stripe, what a handler collects is all there was left,
namely nothing (`SendsAll`). `FoundAll` and `JobCovers` carry "every file that
may still be there is still to be removed" from the walk to the proxy's threads;
`FilesGone` takes it to the moment of the report, when the senders have joined.
`JobBlocks` keeps a proxy to blocks of its target, which is why others' data is untouched.
`CommitBlocks` ties a key's commit entry to its blocks, so that a client that waits for
the entry of a *key* to go may conclude that the blocks went with it.

**ConnectionsHaveTakers** (in SetPathProofs) counts at each acceptor. `TakersInv` says: the
threads of a proxy that accept, or that the coordinator has still to start before it answers the client, are
as many as the connections that wait there or are still to be made; and the same at a datanode. Which
thread meets which connection is left open, so that the counts are all there is to say, and
they need finiteness: at any time finitely many uploads have begun.

**GetPathProofs, RepairPathProofs.** `IOInv` (in `DatanodeIO`) is what every user of the
datanodes' socket may count on; each of the two modules proves that the steps of the socket
keep it, with the variables of its own path. A handler that serves has met one connection
of its own node, and each connection is met once; a transfer that ended met a handler, or
its node is down. When all transfers at a node that is up have ended, the pairing is
a bijection of a finite set with itself, and so nothing waits there (`QuietNode`). Two
consequences carry the rest. *Alone*: if no other transfer ever uses the node, the handler met its
own (`AloneIsRight`). *One after the other*: a client's read, and a repair's
destination, takes as many connections as are made for it before it returns; by counting
what it took against what was made, none is left for the next one (`OwnBlocks`, `OwnParts`).
For repairs the second is stated per client, and "no other runs beside it" is read off
`began` and `ended`; `RepairedIsSaved` and `DegradedIsOriginal` then follow the bytes from the
file through the part to the answer, each step under the condition that
makes it right.

**AppendPathProofs.** First the plan. Bytes are numbered along the rows of a stripe, and a
unit is d = `UnitSize` bytes, so that most lemmas are about quotients, remainders and products with unknown
factors. `DataIsTiled` says that the slices of the data blocks are the places of the
append's bytes; `SizesAgree` that coordinator and client count the same bytes for a group; both by
the number of units that begin in an interval. Sums over sets of blocks are taken by induction on the set.
Then the system. The state of `AppendPath` forgets what earlier appends brought. `Traced` therefore says:
there is a history H of (stripe, offset, size) of which offsets, slices under way, files and
threads are the outcome. It is inductive (each step extends H or keeps it) until a
setParameter clears the offsets, and `EndsExplained` and `FilesInOrder` follow from it: the
appends of H fill a stripe in turn, so the slices of a data block lie one behind the other, and
slices merged and slices too late are together those of the block.

**ObjectPlacementProofs.** The chunks of a local group are counted by numbering them, which gives
`required_cluster_num` = l * ceil + 1 for every schema whose l divides k. `PlacementInv` says that the
setup is legal (`Setup`), that the shared region keeps to the clusters (`RegionKept`), stripes
are numbered (`Numbered`), every block is placed (`AllPlaced`), stripes of a
merge group that share do so part by part (`MatesAlike`), and the newest
stripe is in the last group (`NewestJoined`). The list that is drawn from is then long enough for each
draw, which is what makes the types hold; a cluster gets at most one part, and a part can be
computed from the rest, which is `SurvivesClusterLoss`.

**ObjectPathProofs.** Three invariants, each a conjunction of named parts. `Ground` gives
`TypeCorrect`: besides the types it says where a client and its thread are (`Positions`,
`ThreadsFit`), that what the tables note names a stripe that was placed (`InfosFit`), that at each
proxy as many threads accept as connections wait or are still to be made (`Connected`, the
counting argument of `SetPath`), and that stripe ids are counted up, one to a set (`Numbered`). Types
are not inductive without it: an id is one because there are no more sets than calls.
`Truthful` gives `GetsTheSetValue`. Bytes are followed back to a set of the key, or of a
key it begins (`FilesSourced`, `ReadsSourced`); deletions remove files of their key
(`LeftNamed`). `TruthHolds` says what a set leaves behind that was alone: its stripe, its entries and
its files are there (`Kept`), and nobody who could change them is under way (`Undisturbed`);
`ReliesHold` that a get which counts on a set copies that set's entry, asks for its files and takes
its bytes. A step of another call keeps this because a set or a deletion of the key would have
withdrawn the truth when it began (`NoteStart`). `CallsReturn` needs `Contended` (a set and a
deletion of a key under way at one time were recorded) and `Woken`: who sleeps for a key that is not contended
has a thread that is to report it (`SetComing`, `DeletionComing`) and that wakes everyone; with
`Connected`, a thread that is to report is not left without a connection when all is `Quiet`.

**StripeLayoutProofs.** The same numbers are computed three times in the code: block by block
by the coordinator's placement, group by group by the client's cut, and by which groups and
blocks a repair reads. `Layout` is what the first two have in common, proved once for each
code (`UniLaid`, `AzureLaid`, `UniformLaid`, `OptimalLaid`): the groups of a stripe cut its
data, its global and its local parities into runs, in order, each run as long as the client
counts, and a group is smaller than a cluster. From it follow `NodeLeft` (sizes), `GroupsApart` (with
the round robin, which comes back to a cluster only after all the others: `RoundRobin`),
`GetReadsData`, and `CutAgrees`: the plans of an upload list blocks of a group in ascending order, so that
what the client counts off a slice is a run (`RunsCut`), and a sub_set drops the same groups on either side (`SameGroups`).
For a repair the codes are looked at one by one: the groups `get_recovery_group_ids` names are
those that keep blocks of one equation (`NamesEquation`), what is read of them is the
rest of it (`EquationRead`), and for a global parity of AzureLRC it is k rows (`RowsAreK`).
That the k rows can be inverted is arithmetic of the field and is not claimed.

*Induction over data.* The library's induction theorems take an operator as a parameter and cannot be
used. Where an induction was needed (sums, counts, histories) it is done by
a least counterexample: `LeastNumber` (a nonempty set of naturals has a least element) or
`MinimalSet` (a nonempty set of finite sets has a minimal one), which take sets.

**Model-checked only.** Liveness (`SetReturns`, `AckedBlocksSettle`, `GetReturns`,
`RepairReturns`, `DeleteReturns`), which TLAPS does not prove under fairness. That the states of
`ObjectPath` in which no thread can run are those of `Quiet` is the deadlock check of its run: it is a
statement about ENABLED. `CallsReturn` itself speaks of `Quiet` and is proved.

## 7. Not modelled

- The `..._breakdown` twins of degraded reads and recovery, which add timing to what is modelled.
- `Client::append` and `sub_append` themselves, which are commented out: `AppendPath` starts at the request they would make. Overlapping appends at a proxy, where threads take each other's connection as in `SetPath`.
- The branch of `handleSet` in which a datanode pulls from a proxy: nobody asks for it.
- Galois-field products, matrix generation and inversion: arithmetic of data; which coefficient meets which block is in `LrcLayout`.
- In `SetPath`, a set() begun after the coordinator ended, the ABORT branch of a report and the proxy thread whose socket throws (proxy.cpp 589): a thread that throws reports nothing, and its client waits.
- The `std::map`s and `std::set`s several threads of the coordinator change without a lock (`Node::stripes` among them) are modelled as if each access were one step; what such a race does to the memory of the program is left out.
- Crash and restart of proxies, and restart of the coordinator: nothing is persisted and nothing reconnects, so a restart is a new system.
- Deletion of a stripe that is being uploaded or appended to: in `DeletePath` a key keeps its stripe. `ObjectPath` has keys that are set while they are deleted.
- XML reading, command-line drivers, logging, timing, generated and vendored code, simulation scripts.
