# RedKnot in TLA+

A model of RedKnot, a fork of SGLang that adds head-aware reuse of KV computed offline.
It covers the places where KV memory is shared: between the requests of a scheduler
process (page allocator, radix tree, batches), between device, host and storage
(hierarchical cache), between a prefill and a decode server (KV transfer), between the
heads of a layer (head classes, SegPaged decode) and between the queries of RedKnot's
offline segments. Source paths are relative to `src/python/sglang/srt/`; `redknot/` is
short for `layers/attention/redknot/`.

## 1. Inventory

| Part | Code | State | Operations | What makes it hard |
|---|---|---|---|---|
| Offline segment cache | `redknot/offline_cache.py` | an OrderedDict of segments, two byte totals | `put`, `get`, `drop`, `to_device`, `offload`, `clear` | eviction loops that call themselves through `to_device` while they iterate over an old list of keys |
| Attention backend | `layers/attention/redknot_backend.py` | the plan of the batch, the cache | build a segment, look segments up, attend | the cache changes between two layers of one forward pass |
| Chunk policy | `redknot/scheduler.py` | chunks with reuse counts, used bytes | `tick`, `get`, `admit` | multiplicative priorities, an eviction loop |
| Head classes | `redknot/head_config.py`, `mask_plan.py`, `pd_transfer.py`, `per_head_storage.py` | class, window and sink of each head; cached tensors; KV cut to them | set a window, merge retrieval heads, ship, trim, decode | windows change while derived tensors are cached and KV is already cut |
| SegPaged decode | `redknot/segpaged.py` | pages and page tables of each rank | add a head's segment, gather, attend | partly filled pages, sinks and windows that overlap, slices of ranks |
| Radix cache | `mem_cache/radix_cache.py` | tree, lock counts, three aggregates | match, insert, split, lock, unlock, evict | splits of locked nodes, totals kept by hand |
| Page allocator | `mem_cache/allocator.py`, `common.py` | free pages | alloc for extend and decode, free, evict to make room | double frees, pages needed only at page boundaries |
| Scheduler | `managers/scheduler.py`, `schedule_policy.py`, `schedule_batch.py`, `scheduler_components/` | waiting queue, running batch, chunked request, result queue, budgets | event loop, prefill pass, decode, retraction, abort, pause, flush | results arrive one batch late under overlap; requests restart after retraction |
| Hierarchical cache | `mem_cache/hiradix_cache.py`, `managers/cache_controller.py` | tree with device and host pages, transfers, prefetches, backups | back up, demote, load back, prefetch, revoke, evict on both tiers | three threads and two copy streams work on nodes that are split, evicted and revived meanwhile |
| PD disaggregation | `disaggregation/prefill.py`, `decode.py`, `utils.py` | queues, metadata buffers and pages of both servers | bootstrap, preallocate, transfer, commit, abort, time out | each server releases memory without asking the other |
| KV transfer engine | `disaggregation/common/conn.py`, `mooncake/conn.py` | room tables shared by threads without a lock | transfer worker, bootstrap thread, decode listener, heartbeat checker | check-then-act on tables; late failures; a crash |

How they interact: a request waits, is matched against the tree (which may split a node),
locks the matched node and gets pages; its tokens are computed; each result either puts
its pages into the tree or releases them. With the hierarchical cache the match may end in
nodes whose KV is on the host, which admission loads back, and an arriving request starts a
prefetch from storage. With disaggregation the prompt is computed on one server and written
page by page into memory that another has reserved. A build request is an ordinary prefill
at whose last layer the backend copies the KV out of the pool into the offline cache; a
query names segments, which the backend fetches in every layer.

`PROJECT.json` lists the parts that are not modelled with the reason, and the hazards with
the line where each one bites.

## 2. Modules

| Module | Models | Runs |
|---|---|---|
| `ByteCounts` | the bytes of a set of segments or chunks | through the caches |
| `OfflineKVCache` | the segment cache, one action per public operation | through `OfflineServing` |
| `OfflineKVCacheSteps` | the same with the loops of `_enforce_limits` one iteration at a time; implements `OfflineKVCache` | `offline_cache` |
| `OfflineServing` | builds and queries, composed with `OfflineKVCache` | `offline_serving`, `serving_chunked` |
| `ChunkEntry`, `ChunkAdmission` | a chunk and its priority; what the chunk cache promises, an admission being one step | through `HeadAwareCachePolicy` |
| `HeadAwareCachePolicy` | the chunk cache, with the loop of `admit` one eviction at a time; implements `ChunkAdmission` | `chunk_policy` |
| `HeadClassKV` | what each head keeps and reads, with SegPaged decode and without; a decode step is one step | through `SegPagedKV` |
| `SegPagedKV` | ranks, page tables and pages of a decode step; implements `HeadClassKV` | `head_kv` |
| `RadixCache` | operators on a tree record | through `Scheduler`, `HiRadixCache` |
| `Scheduler` | event loops, requests, allocator, tree | `scheduler`, `scheduler_strip`, `pause_resume` |
| `HiRadixCache` | operators on the tree with a host tier | through `HiCache` |
| `HiCache` | scheduler, copy streams, storage threads, storage | `hicache` |
| `PDCommon`, `PDPrefill`, `PDDecode` | messages and memory between the servers; each server with its threads | through `PDDisagg` |
| `PDDisagg` | the composition of the two servers | `kv_transfer`, `kv_transfer_crash`, `kv_timeout` |
| `*Proofs` | the theorems about the module they are named after, and about what it composes (section 5) | |

`MC*` modules give the constants of the instances. Definitions marked `mutant` are for the
sensitivity checks at the end of section 3 and are used nowhere else.

### OfflineKVCache

`segments` is the dictionary, `older` its order as a relation (`<<a, b>>` when `a` comes
first), `deviceBytes` and `hostBytes` the totals. Every public method holds the re-entrant
lock from its first to its last statement, so it is one action. `EnforceLimits` gives the
result of the two loops in closed form: `Offloaded` is what the first loop moves to the
host, `Evicted` what the second removes. Sizes are counted as cardinalities of sets of byte
cells (`ByteCounts`), so that the proofs use the library's facts on cardinality and no
recursion. One GPU
and one host are modelled; a move between two GPUs is not.

`OfflineKVCacheSteps` justifies the closed form. It keeps the order as a sequence and a
stack `frames` of active `_enforce_limits` calls, each with the list of keys it took when
it began. While the stack is not empty the lock is held, and the refinement mapping shows
the state from before the operation; when the outermost call returns, the new state appears
in one step.

### OfflineServing

A forward batch of one or two requests runs layer by layer and, in a layer, request by
request; `BuildStep`, `ResolveSegment` and `Attend` are the three bodies of the loop of
`forward_extend`. The cache is the one of `OfflineKVCache`, extended and not copied. A
token takes a byte. The radix cache is off, as the design document asks for build requests.

### HeadAwareCachePolicy and ChunkAdmission

Priorities are compared by cross-multiplication, so that the fractions of
`ChunkEntry.priority` stay integers. Costs are natural numbers; ties are broken either way.
An `admit` of a new chunk is a call (`AdmitCalled`), an `Evict` per iteration of its loop,
and `AdmitReturns`; `used` is the total the loop keeps by hand. `ChunkAdmission` has neither
loop nor total: its `Admit` makes the chunk resident at once and removes a set of chunks that
no remaining one should have gone before, without the last of which there was no room. The
refinement mapping shows the entries as they were when the last call returned (`settled`).

### HeadClassKV and SegPagedKV

One request and one layer. A configuration gives each KV head a class, a distance and a
sink (`head_config.py`); `Strategy` is `get_strategy`, `tensors` the bundle `as_tensors`
caches. `held` is the set of positions whose KV a head really has: `Ship`
(`build_transfer_payload` and `restore_payload`) and `Trim` (`trim_segment_per_head` and
`expand_to_dense`) cut it down, and what is cut away comes back as zeros. A decode step
writes a token and records in `read` the positions each head attends to: the sink and window
of a local head with `use_segpaged_decode` (`Decode`), the whole sequence of every head
without it (`DecodeDense`), which is the default of the server. `segpaged` is the setting,
`cut` and `read` are history variables.

`SegPagedKV` refines `Decode`: each rank takes its slice of the heads (`BuildPlan`), stores
the visible KV of one head after another in pages (`StoreHead`), gathers it through the
page table (`Attend`), and the step ends when all ranks are done (`EndDecode`). A slot of a
page names the head and the position whose KV it holds, so that tokens of another head and
unwritten slots are told apart. Heads are
divided evenly among ranks; replication of KV heads over more ranks is excluded by
`PagedAssumption`. `per_head_storage.py` and `pd_transfer.py` are exported by the package
and have no caller in the server itself.

### RadixCache and Scheduler

A node is named by the tokens on its path, so a split renames nothing. Values are kept per
page. `Evictions` is the set of outcomes `evict` can have under any eviction strategy.
`Scheduler` holds `mem` (tree, free pages, pages freed twice, what each page holds,
failure), `req` (the fields of a request that concern memory), `args` (the server
arguments, fixed by `Init`) and the loop's own variables. One iteration of the event loop
is several actions, in the order of the code:

* `BeginPass`, `BeginPassChunked`: merge the last extend batch, stash the chunked request,
  start the prefill pass;
* `AddOneReq`, `RejectReq`, `NoPrefill`: the loop over the waiting queue;
* `RunExtend` (with the running batch mixed in under `args.mixed`), or `NoBatch`,
  `RetractOne`, `RunDecode`: the batch that is launched;
* `ProcessSkip`, `ProcessToken`, `EndIteration`: the results, of this batch or, with
  `args.overlap`, of the one before it.

`Arrive`, `AbortWaiting`, `Pause`, `Continue` and `FlushCache` are requests received at the
top of an iteration; a retracting pause goes on through `PauseMerge`, `PauseRetract` and
`PauseDone`.

Left open, because the properties must not depend on them: the order of the waiting queue
(any schedule policy), the victims of eviction, the token sampled, the moment a request
stops, and the share of `new_token_ratio` that the pass sets aside for running requests
(any whole number of tokens from nothing to all). `mem.kv` records which request and
position a page was filled for; no action reads it.

### HiRadixCache and HiCache

`HiRadixCache` extends the tree record with host pages, host reference counts, hit counts,
the two sets of leaves, both pools with what each page holds, and the transfers in flight.
Its operators are the methods of that class in the code: `HiMatched`, `HiInsert`,
`HiSplit`, `WriteBackup`, `LoadBack`, `EvictDevice`, `EvictHost` and the rest. Pages
hold one token (`HierarchyAssumption`); the host pool is larger than the device pool, as
`memory_pool_host.py` asserts. `c.fail` names the assertion or allocation that failed.

`HiCache` runs the tree: `Arrive` (match and `prefetch_from_storage`), `CheckEvents`
(acknowledgements of writes, loads and backups, revocations and released host memory),
`CheckPrefetchProgress`, `AddOneReq` with its load back, `Launch`, `Finish`, `Abort`; the
copy streams (`WriteDone`, `LoadDone`); `PrefetchThread`, `AuxGet` and `AuxCount` (the I/O
thread between writing a page and counting it), `BackupThread`. A request finishes with its
first token, and the same prompt may come again. Content is modelled by what a page holds:
a prefix, or nothing. Storage is a set of pairs of a prefix and a content; any read or
write may fail. The stop policies are modelled by when they let a prefetch end; a timeout
may happen at any time.

### PDCommon, PDPrefill, PDDecode, PDDisagg

A bootstrap room names a request on both servers. A chunk of a prompt fills one page;
`mem` and `dbuf` are what RDMA has written into the decode server's pages and metadata
buffers. The schedulers move a request from queue to queue (`pstage`, `dstage`), one
request of a queue at a time. The transfer worker, the bootstrap thread, the decode
listener and the heartbeat checker are modelled one table access at a time, because they
share `request_status`, `transfer_infos` and the response table with the schedulers without
a lock; a `KeyError` that a race causes ends the thread, as it does in the code, and the
properties are checked with such dead threads. `Faults` selects what may go wrong: aborts,
timeouts, failed RDMA writes, polls that report failure, a probe that readmits a
blacklisted session, lost heartbeats, and a crash of the prefill server. ZMQ channels are
FIFO; ZMQ and RDMA are external. `overtaken` is a history variable: memory of a transfer in
progress has been given away, or a blacklisted session readmitted during one.

The decode server admits the first ready request of its queue (`Preallocate`) when a request
slot and a metadata buffer are free and the budget of `_allocatable_token_budgets` covers it
(`Fits`): the prompt with `num_reserved_decode_tokens`, beside that reserve for every active
request and beside what one request of the running batch needs to end alone. Which committed
requests the batch has taken up is left open (`Admitted`). `Init` chooses the reserve from
`Reserves`. A buffer keeps what its last user received; `MetadataGate` only looks whether
there is something in it, as `_apply_metadata_gate` does.

## 3. Runs

State counts are distinct states; times are with two workers.

| Run | Instance | States | Shows |
|---|---|---|---|
| `offline_cache` | 4 segments of 1, 3, 5 or 6 bytes, ceilings 3 and 2 | 54,290 | the nested loops never look up a key that is gone, return, remove in order, and implement the atomic cache |
| `offline_serving` | 3 builds of 2 documents, 2 queries, 2 layers, room for one document on the device | 2,718 | the ceiling holds, a put that fits disturbs nothing, whole snapshots, fetched segments on the device, the same splice in every layer |
| `chunk_policy` | 3 chunks of 1, 2 or 4 bytes, 2 costs, capacity 3, 2 ticks, 2 reuses | 53,103 | exact byte counts within capacity, the order of eviction, and that the loop implements the atomic admission |
| `head_kv` | 4 heads on 2 ranks, 4 configurations, windows 1, 2 and 4, prompts to 4, sequences to 8, pages of 2 | 203,743 | with SegPaged decode each head gets back exactly the tokens of its own sink and window, in order, from bounded pages; no masked head reads zeros; ranks and pages are invisible |
| `scheduler` | both loops, mixed or not; pages of 2 tokens, 7 pages, 2 requests, one pause, flushes | 206,110 | tree, locks, ownership and contents of pages, pool balance, no failed allocation, the last request fits; every request is answered |
| `hicache` | 3 prompts, device 7, host 9, 4 pairs of policies, 2 arrivals with `write_through` and 3 with the others, one fault | 299,202, 1 min | one owner for each page of both pools, exact counters, right KV on every tier; what the scheduler can fail of; gaps between backups; prefetches end |
| `kv_transfer` | 2 requests of 2 chunks, 3 pages, a reserve of 1, 1 buffer on each side; all faults but heartbeats and crash; the requests are symmetric | 779,385, 1 min | one owner for buffers and pages, none lost, own KV, no stale statuses, no unexpected poll, own metadata before success |
| `kv_transfer_crash` | requests of 2 chunks and 1, a reserve of 1 or 2, timeouts and a crash at any point; no symmetry | 260,613, 2 min | both servers answer every queued request, but for one that stands behind a prompt which can never be admitted |

Why the bounds are enough: pools are smaller than what the requests ask for, so that
eviction, refusal, retraction and a second prefill occur; two prompts part inside what one
request cached as one node, so that nodes split and both requests compute the same pages;
prompts and outputs end inside a page; a prompt is longer than a chunk. Two actors suffice
for the races between a request and another one's match, insert, eviction or retraction,
and for pages and buffers that pass from one transfer to another; two requests never hold
pages of the decode server at the same time in these instances, which `BuffersSafe` and
`TransferSafe` (section 5) cover for any number. In the caches there are
more segments than either tier holds, and sizes that meet a ceiling exactly. In `hicache`
all of these occur: two writes in flight, a batch of two, a prefetch cut short by the
capacity limit, a gap, and each of the failures named below. Larger instances were explored
once and agree: three requests under overlap with pauses (3.1 million states), the transfer
with all faults and two retries (20.7 million), the hierarchical cache without a bound
on faults on smaller pools (safety, 4 to 5.6 million per pair of policies) and, with
`write_through`, a third arrival (413,857).

Constants of the code are scaled: `load_back_threshold` (10) and `prefetch_threshold` to 1,
page sizes to 1 or 2 tokens, `_max_ensure_retries` to 1. `MaxPauses`, `MaxArrivals`,
`MaxFaults`, `MaxStep`, `MaxReuse`, `MaxPrompt` and `MaxLen` bound what would otherwise go on
for ever.

Deadlock is checked for the scheduler: its loop always has a step. It is not checked for
the caches, for serving and for the servers, which wait for callers.

Results that hold under conditions, which the properties or the instances state:

* `Served` and `LastOneFits` hold for prompts that leave a page and the margin of five
  tokens (`Margin`, the value of `validate_input_length`) free. A prompt within a page of
  the pool size is accepted (`scheduler.py:1700`) and never admitted.
* `Served` excepts an engine that stays paused and `StuckFull`, the state that
  `pause_resume` shows.
* `NeverFails` is about batches that are not mixed. With mixed chunks the running batch is
  decoded along with a prefill without `check_decode_mem` (`scheduler.py:2721`), and TLC
  finds an allocation that fails.
* `SpliceStable` holds without a host ceiling, the default of `get_global_offline_cache`:
  with one, a build in the batch may remove a segment between two layers.
* `FetchedOnDevice` holds for segments no larger than the device ceiling.
* `ReadsWindow` and `GathersInOrder` are about SegPaged decode. The dense path reads
  everything, although the docstring of `forward_decode` calls it windowed
  (`redknot_backend.py:401`).
* `NoPaddingRead` is stated head by head, for heads that decode masks (`Masked`). TLC reaches
  a read of zeros in each of the cases left out:
  * a local head under dense decode, the default, although `restore_payload` says that "the
    decode-side attention never reads them" (`pd_transfer.py:250`);
  * a window widened after the KV was cut;
  * for trimmed KV, a head on which the trim policy disagrees with `get_strategy`
    (`TrimAgrees`): `from_head_config` ignores `dense_prefix_layers` and the default window,
    and keeps only a budget of a retrieval head, which `expand_to_dense` calls safe
    (`per_head_storage.py:278`).
* `MetadataLanded` promises that a complete transfer finds its own metadata as long as nothing
  was overtaken, also in a buffer that was used before; when something was, only that the
  buffer is not empty, and `_commit_transfer_to_req` compares the room.
* `DecodeAnswers` excepts `Stuck`: a ready prompt that does not fit in an empty pool together
  with the reserve (512 tokens by default) is accepted (`decode.py:518`), never admitted
  (`decode.py:860`), and holds up all that are ready behind it. TLC reaches this with the
  reserve of 2.
* `KVIntact` holds as long as neither server gives memory of a transfer in progress away
  and no blacklisted session is readmitted during one; `kv_timeout` shows the first case.
* `SchedulerSurvives`, `ContiguousBackups` and `PrefetchEnds` name their exceptions, all of
  which TLC reaches in the instance, and show that there are no others:
  * a landing prefetch (`_insert_helper_host`, `hiradix_cache.py:1331`) puts a host-only
    node below a device-only one that is not backed up. This breaks "backed-up nodes must
    form a contiguous prefix from root" (`hiradix_cache.py:694`), and evicting the upper
    node then fails the assertion of `_evict_regular` (`hiradix_cache.py:936`);
  * with `write_back`, `load_back` may evict, that may write back, and that may evict from
    the host the nodes being loaded (`hiradix_cache.py:1013`, `944`). The code goes on with
    the removed nodes; the model stops there and names the case;
  * with `write_back` and a full host, `evict` frees less than `evictable_size_` promised
    (`hiradix_cache.py:891`) and an allocation fails;
  * `prefetch_from_storage` shortens the host pages and not the key
    (`hiradix_cache.py:1294`), the index past the pages raises (`cache_controller.py:908`),
    and the I/O thread dies.

### Disagreements between comments and code

| Run | Property | What happens |
|---|---|---|
| `scheduler_strip` | `PoolBalance` | with `strip_thinking_cache`, a request that was retracted frees pages the tree holds when it finishes |
| `pause_resume` | `ContinuesLater` | a retracting pause that finds the running batch empty leaves `batch_is_full` set; nothing is admitted afterwards |
| `serving_chunked` | `WholeSnapshot` | a document prefilled in chunks is registered with its first chunk only |
| `kv_timeout` | `CommittedKV` | a decode request times out when the prefill server has its metadata, and a page of it goes to another one; after the other's transfer has ended the first is prefilled and written into that page; the check of the room does not notice |

Each is a run with one property that TLC refutes; `PROJECT.json` quotes the comment. Other
observations have no run of their own:

* Offline cache: the order of removal is not least recently used, since offloading a victim
  makes it the most recently used; with no device ceiling, device bytes are charged to the
  host ceiling (`offline_cache.py:237`); `to_device` of a segment above the device ceiling
  returns it on the host.
* Backend: `forward_extend` does not check that a build request started with an empty
  prefix (`redknot_backend.py:339`), although `snapshot_offline_segment` asks its caller to.
  With more ranks than KV heads the offset into the head classes leaves the configuration
  (`redknot_backend.py:500`).
* Head classes: `set_local_window` changes only heads with a positive distance, although
  its docstring begins with every local head.
* Chunk policy: the branch under "Do not evict a higher-priority chunk for a brand-new one"
  in `admit` has no effect (`redknot/scheduler.py:205`).
* Scheduler: after a retracting pause `flush_cache` is refused while the retracted requests
  wait (`scheduler.py:3210`).
* Disaggregation: aborting a chunked prefill request has no effect; aborting a waiting one
  leaves its table entries.
* Hierarchical cache: `reset` (`cache_controller.py:652`) neither joins the I/O thread nor
  clears the queue of released host memory; revoking an older prefetch of a retracted
  request removes the newer entry (`hiradix_cache.py:511`); a node split between its write
  and the acknowledgement has only its lower half stored (`hiradix_cache.py:790`).

### Mutants

Every property of a passing run has a mutant: a definition of the model changed the way a
slip in the code would change it (a lock not taken, a tail not freed, a bound without its
page, a status popped too early, a page counted without a check). TLC finds each property
violated under its mutant. They stand in the modules next to what they change.

## 4. Fairness

* `OfflineKVCacheSteps`: weak fairness of the loops. The caller runs inside the lock and
  nothing blocks it.
* `Scheduler`: the event loop is `while True` and arriving requests cannot prevent it from
  continuing. `LoopSpec` states this as weak fairness of `Loop`, and `pause_resume` refutes
  `ContinuesLater` under it. The passing run uses `FairSpec`: unless the engine stays
  paused, the variables every step of the loop changes, and no request received does, change
  infinitely often. That is the same requirement as long as the loop always has a step: at
  the top of an iteration a pass can begin, and everywhere else the deadlock check shows
  it. It costs TLC far less. Nothing is assumed about which request is admitted, evicted or
  retracted, or when a request finishes before its limit.
* `PDDisagg`: the loops of both schedulers come round to every request, the threads run, and
  the deadlines of waiting requests pass (the timeouts are actions of `PScheduler` and
  `DScheduler`). Nothing is assumed of clients, of the network or of the heartbeats of a live
  server.
* `HiCache`: the prefetch thread and the I/O thread, unless it has died, go on with their
  queues; the event loop drains the revocations; a prefill pass asks every waiting request
  whether its prefetch may end. Stated on the queues rather than with `ENABLED`, which is
  cheaper: the queue is empty, the I/O thread not busy, the revocations drained and no
  prefetch waits that may end, each infinitely often. As only finitely many requests come,
  that is what weak fairness of these steps gives. Nothing is assumed of storage or of the
  timeout.

## 5. What is proved

The theorems hold for every value of the constants that the named assumptions allow; TLC
evaluates the assumptions on every run, and checks the properties named here on the
instances of section 3. Each proof first finds an inductive invariant, shows that every
action preserves it, and reads the properties off it.

| Module | Theorems | Properties |
|---|---|---|
| `OfflineServingProofs` | `CacheSafe`, `FittingPut`, `RemovesOldest` about the cache; `ServingIsCache`, `ServingWithinLimits`, `FetchedIsOnDevice`, `SnapshotsWhole` about serving | `WithinLimits` (with `TypeOK`, `AccountingExact`), `PutThatFitsDisturbsNothing`, `RemovalOrder`, `FetchedOnDevice`, `WholeSnapshot` |
| `OfflineKVCacheStepsProofs` | `LoopsFindTheirKeys`, `LoopsImplementCache` | `NoKeyError`, `ImplementsCache` |
| `HeadAwareCachePolicyProofs` | `PolicyWithinCapacity`, `EvictionRespectsDomination`, `AdmitKeepsPromise` | `CapacityRespected`, `DominatedGoFirst`, `ImplementsAdmission` |
| `SegPagedKVProofs` | `DecodeReadsWindow`, `DecodeReadsHeld` about whole heads; `PagedImplements`, `PagedReads`, `PagedGathers`, `PagedFootprint` about pages | `ReadsWindow`, `NoPaddingRead`, `ImplementsHeadClassKV`, `GathersInOrder`, `FootprintBounded` |
| `PDDisaggProofs` | `BuffersSafe` | `SlotsExclusive`, `PagesExclusive` |
| `PDTransferProofs` | `PollsSafe` | `NoPollution`, `PollsExpected` |
| `PDKVProofs` | `TransferSafe`, `GateOpens`, `BuffersKept` | `KVIntact`, `MetadataLanded`, `NothingLeaks` |
| `ByteCountsProofs` | lemmas on sums of bytes | |

### The segment cache (`OfflineServingProofs`)

For every finite set of segments, every set of natural sizes and every pair of ceilings,
each possibly unset (`SegAssumption`, `SizesAssumption`, `LimitAssumption`). `Inv` puts
`TypeOK`, `AccountingExact` and `WithinLimits` together: `WithinLimits` is not inductive
alone, since the loops decide by the running totals and end by running out of victims.

1. Bytes: the cells of a finite set of segments are finite, and bytes add over disjoint
   sets of segments (`ByteCountsProofs`).
2. Order: `MoveToEnd` and removal keep a strict total order.
3. `Offload` ends within the device ceiling: if any device segment stays, the oldest one
   that stays was reached with the total at or below the ceiling, and what came before it
   is what left; if none stays the total is zero.
4. `Remove(_, Evicted(_))` ends within both ceilings by the same argument over all
   segments.
5. Each operation either only permutes the order, only removes, or ends in
   `EnforceLimits` of a state with exact totals.

`FittingPut` and `RemovesOldest` are action properties from the same invariant. For a put
that fits, both loops find nothing to do. For the order of removal, what `Evicted` takes is
closed downwards in the order that the first loop leaves, and that order differs from the
one before the operation only in what was offloaded or asked for.

`ServingIsCache` maps each step of `OfflineServing` to a step of the cache or to none, with
`ServingTyped` (where the pass is in its batch) as the invariant; the cache's theorems then
hold while serving. `FetchedIsOnDevice` assumes no host ceiling and segments that fit the
device; `SnapshotsWhole` assumes that builds fit in one chunk and that an id names one text,
and its invariant `Registered` says that every segment was copied with all layers and all
tokens. Those are the conditions of section 3, now as hypotheses; `serving_chunked` shows
what happens without the first. `ServingAssumption` asks that `Sizes` contains every length
up to that of a request's text, so that what a build registers is something `put` accepts.

### The loops of `_enforce_limits` (`OfflineKVCacheStepsProofs`)

`StepsInv` says that wherever the loops are, running `_enforce_limits` from the present
state has the outcome that the operation owes (`Owed`): the closed form is invariant under
an iteration. `EnforceOffload` and `EnforceEvict` prove that for an iteration of the first
and of the second loop. What makes the nested loops safe is `LoopRight`. While the device is
over its ceiling, the first loop's list of keys is the present order: an iteration that
offloads starts a nested call with a fresh list, and by the time that call returns the
ceiling holds, so the outer loop breaks before it uses its stale list. The keys of the
second loop are the present order shifted by its index, since each iteration pops the first.
So no key is gone when it is looked up (`LoopsFindTheirKeys`), and when the outermost call
returns, both loops would do nothing and the state is the one owed
(`LoopsImplementCache`). `RemovalOrder` of that module's run follows with `RemovesOldest`.
`StepsAssumption` is that of the atomic cache.

### The chunk policy (`HeadAwareCachePolicyProofs`)

For any chunks, sizes, costs and capacity. `Inv` adds to `CapacityRespected` that no chunk
was used after the present step. The proof that victims respect domination compares the
cross-multiplied priorities, which needs monotonicity of products of naturals, a few lemmas
stated first. For `AdmitKeepsPromise` the invariant also says of a call in its loop what it
has evicted so far: the chunks gone since `settled` come before all that are still there, and
if there are any, the last of them was evicted for want of room. When the loop ends they are
a set of victims of `ChunkAdmission`; it cannot end for want of chunks, since an empty cache
has room for what the call was not refused for.

### Heads and pages (`SegPagedKVProofs`)

For every number of heads, set of configurations, window, prompt and length
(`HeadAssumption`, `NoneAssumption`), and any page size and even division of heads among
ranks (`PagedAssumption`). `HeadInv` says that cached tensors are those of the present
configuration, that the configuration differs from the one the KV was cut with only in
windows and merged classes (`SameLoad`), and that every position a head may see under that
configuration is still held (`HoldsWindow`), unless a trim disagreed with `get_strategy`. The last is what carries over many decode
steps: a window moves only forward, so what it needs was held before or has been written
since. The dense path reads nothing else of a head that is not local, and `Masked` leaves out
the local ones. `LocalVisibleIs` and `VisibleIs` show that the sink and window computed by slices are
the positions the rule describes, where they overlap or exceed the sequence as well.

`PagedInv` adds what each rank has done so far: its plan is its slice of the tensors, the
pages of the heads stored so far hold exactly their visible KV, the last page padded, and
what it has gathered is what it stored. Gathering is shown to be the inverse of cutting into
pages, for any page size; then the end of a step is a step of `HeadClassKV` and the others
are hidden.

### The KV transfer (`PDDisaggProofs`, `PDTransferProofs`, `PDKVProofs`)

For any set of requests, any numbers of chunks, pages and buffers, and any set of faults
(`PDAssumption`; `None` is none of the values it is compared with). Four invariants, each
using the one before:

* `IInv` (`BuffersSafe`). The code frees indices without a check, from several places, so
  that exclusiveness rests on the stages. Four lemmas say that taking from, and giving back
  to, a free list keeps holders apart, for buffers and for pages; every action of a server
  is one of the four for a request in the right stage, or leaves the lists alone.
* `TInv` (`PollsSafe`) is the protocol: the metadata of a room is sent once (`MetadataOnce`);
  chunks are queued only after it has arrived, and nothing of a room after its last chunk
  (`ChunksInOrder`); a success is the last thing reported of a room (`ReportsInOrder`); and
  for each stage the statuses its room may have on either server. That a late failure leaves
  no entry behind needs all of these: the threads set a status only for what the queues
  still hold or has just left them.
* `MInv` adds that metadata on its way, in the table and at the worker is that
  of the pages and buffer the decode server holds for the room, and that the buffer is
  written before the success is reported.
* `KInv` (`TransferSafe`, `GateOpens`) says where the KV of every computed chunk is: in the page it is
  for, at the worker, or in its queue. Its hardest part, `RoomIntact`, holds until
  something is overtaken: while chunks of a room may still be sent, the decode server has
  the room in its transfer queue, so a late write lands in the room's own pages. A
  blacklisted session stops the sending and with it the obligation. The same argument shows
  that a buffer holds the metadata of the room whose success was reported, and not what an
  earlier user of the buffer left there.

`BuffersKept` counts: free and held buffers of either server add up to the pool, and each
page is free or held (`LInv`). The invariants were checked by TLC on small instances before
they were proved.

## 6. Only model-checked

* All liveness (`EnforcementReturns`, `Served`, `DecodeAnswers`, `PrefillAnswers`, `PrefetchEnds`):
  fairness and `ENABLED` are out of the prover's reach.
* `HiRadixCache` and `HiCache`: their loops of eviction and insertion are recursive
  operators, which the prover cannot use.
* `Scheduler` and `RadixCache`: the invariants of the tree and of the pool have no proof
  yet.
* `SpliceStable`: the resolved segments of a query are a `SelectSeq`, an operator that takes
  an operator; what it returns for every list needs induction, which the prover lacks.

## 7. Not modelled

* Scheduler: priority preemption, the bound on request slots, `max_prefill_tokens` apart
  from the chunk, sliding-window and Mamba pools, speculative decoding, sessions, LoRA,
  grammars, pipeline parallelism. They add pools or processes of their own.
* Hierarchical cache: flush and reset, retraction, chunked prefill and decode (a request
  ends with its first token), several ranks, draft KV, prefix keys, the zero-copy batch
  reads. Of the storage backends, only what the file backend stores and which operations fail.
* Disaggregation, prefill server: its KV memory and the admission of its batches (any waiting
  request may be prefilled next, so `PrefillAnswers` assumes that its memory suffices); the
  error path of `process_batch_result_disagg_prefill` for a grammar that rejects the first
  token, which releases KV whose last chunk is queued (`prefill.py:572`); a restart. The
  bootstrap queue is a set: `pop_bootstrapped` goes through it in order and stops where no
  buffer is free (`prefill.py:325`), but over statuses polled before, so that a later request
  can take a buffer before an earlier one whose status has changed since; the model allows
  every order.
* Disaggregation, decode server: retraction and the pages an output grows into (the admission
  counts them, nothing takes them), the decode radix cache, sliding-window budgets.
* Disaggregation, both: several ranks and pipeline stages, staging buffers, hidden-state and
  Mamba payloads.
* Serving: decode, the arithmetic of attention and RoPE relocation. The key of the radix
  tree does not contain the offline segments of a request (`schedule_batch.py:759`); a model
  of that needs the product of `Scheduler` and `OfflineServing`, which is beyond what TLC
  finishes in the time of a run.
* Head classes: loading and saving, byte counts, the second SegPaged implementation
  (`segpaged_v2`), whose visible plan is the modelled one.
* Kernels, profilers, sparse FFN, drivers and model code are numeric; front end, gateway and
  entry points translate protocols. `PROJECT.json` lists them one by one.
