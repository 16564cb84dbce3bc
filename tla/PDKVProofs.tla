----------------------------- MODULE PDKVProofs -----------------------------
(***************************************************************************)
(* The content of a transfer between the servers, for any requests, sizes  *)
(* of the pools and faults: unless something of a transfer in progress is  *)
(* given away, a request that runs has all of its own KV, and its metadata *)
(* before that.  The invariant says where the KV of every chunk computed   *)
(* so far is: in the page it is for, at the worker or in its queue.  At    *)
(* the end: no buffer and no page is lost.                                 *)
(***************************************************************************)
EXTENDS PDTransferProofs

USE SMTT(30)

----------------------------------------------------------------------------
(* The content of the pages                                                 *)

\* a chunk of r has been computed, and its KV is on its way
HasChunk(r, k) == \/ \E c \in Listed(queue) : c.room = r /\ c.k = k
                  \/ /\ worker.pc \in {"look", "send"}
                     /\ worker.chunk.room = r /\ worker.chunk.k = k

\* or has arrived
Delivered(r, k) == mem[dpages[r][k]] = <<r, k>>

\* what a queued chunk says of its request
ChunkOf(c) == /\ c.k \in 1 .. prefilled[c.room]
              /\ c.last <=> c.k = NumChunks[c.room]
              /\ pstage[c.room] \in {"chunked", "inflight", "done"}
              /\ pstage[c.room] # "done" => c.slot = pslot[c.room]

\* the progress of a request on the prefill server
RoomRight(r) ==
  /\ pstage[r] \in {"none", "bootstrap", "waiting"} => prefilled[r] = 0
  /\ pstage[r] = "chunked" => prefilled[r] > 0 /\ prefilled[r] < NumChunks[r]
  /\ pstage[r] = "inflight" => prefilled[r] = NumChunks[r] /\ pbuf[pslot[r]] = r
  /\ pstage[r] \in {"chunked", "inflight"} => held[r]

\* A request that has chunks to send keeps the entry that says where they go.
InfoRight(r) ==
  /\ pstage[r] \in {"waiting", "chunked"} => Known(r)
  /\ pstage[r] \in {"none", "bootstrap"} /\ pstatus[r] = WaitingForInput => Known(r)
  /\ pstage[r] = "inflight" /\ (Queued(r) \/ Looking(r)) => Known(r)
  /\ pstage[r] = "done" /\ (Queued(r) \/ Looking(r)) => transferInfos[r] = None

\* the chunks in the queue and at the worker, and the types of what is written
ChunksRight ==
  /\ \A c \in Listed(queue) : ChunkOf(c)
  /\ worker.pc \notin {"get", "dead"} => ChunkOf(worker.chunk)
  /\ worker.pc \in {"owned", "pop"} =>
       \/ pstage[worker.chunk.room] = "done"
       \/ pstage[worker.chunk.room] = "inflight" /\ ~Queued(worker.chunk.room)
  /\ worker.pc = "aux" => ~badSession
  /\ mem \in [DPage -> (Room \cup {None}) \X Nat]
  /\ held \in [Room -> BOOLEAN] /\ badSession \in BOOLEAN /\ overtaken \in BOOLEAN

\* the prefill server has the metadata of r, or will
Told(r) == \/ InFlight(r)
           \/ pstatus[r] = WaitingForInput
           \/ prefilled[r] > 0
           \/ pstage[r] \in {"waiting", "chunked", "inflight"}

\* A request has a page for each chunk, and runs after its last is sent.
PagesSized(r) ==
  /\ dstage[r] \in {"transfer", "running"} => Len(dpages[r]) = NumChunks[r]
  /\ dstage[r] = "running" => ~Unsent(r)

\* As long as nothing was overtaken: the pages of a transfer that may still be
\* written are its own, and every chunk computed so far is in them or on its way.
RoomIntact(r) ==
  /\ pstatus[r] = Failed /\ pstage[r] = "chunked" => badSession
  /\ ~badSession /\ Unsent(r) /\ Told(r) => dstage[r] = "transfer"
  /\ ~badSession /\ worker.pc # "dead" /\ Unsent(r) /\ dstage[r] = "transfer" /\ pstage[r] # "done" =>
       \A k \in 1 .. prefilled[r] : Delivered(r, k) \/ HasChunk(r, k)
  /\ Succeeded(r) /\ dstage[r] = "transfer" => OwnKV(r) /\ dbuf[dslot[r]] = r
  /\ dstage[r] = "running" => OwnKV(r)

\* the pages of all transfers, and what is written into them now
TransferIntact == ~overtaken =>
  /\ worker.pc \in {"send", "aux"} => pstage[worker.chunk.room] # "done"
  /\ \A r \in Room : RoomIntact(r)
  /\ corrupt = {}

----------------------------------------------------------------------------
(* What each server knows of a request                                      *)

\* The progress of a request stays what its stage says.
LEMMA RoomRightStep ==
  ASSUME TInv, held \in [Room -> BOOLEAN], PNext, NEW r \in Room, RoomRight(r)
  PROVE  RoomRight(r)'
<1>0. /\ \A q \in Room : pslot[q] # None <=> pstage[q] \in {"waiting", "chunked", "inflight"}
      /\ NumChunks \in [Room -> Nat \ {0}] /\ prefilled \in [Room -> Nat]
  BY PDAssumption, Zenon DEF TInv, IInv, PSlotsInv, ChunksTyped
<1>1. CASE PrefillChunk(r)
  <2>1. /\ pstage[r] \in {"waiting", "chunked"} /\ UNCHANGED pslot
        /\ pstage'[r] = IF Last(r) THEN "inflight" ELSE "chunked"
        /\ prefilled'[r] = prefilled[r] + 1 /\ held'[r]
        /\ Last(r) => pbuf'[pslot[r]] = r
    BY <1>1, ForwardPass, Zenon
  <2> QED BY <2>1, <1>0 DEF RoomRight, Last
<1>2. CASE ~PrefillChunk(r)
  <2>1. \/ /\ UNCHANGED <<pstage[r], prefilled[r], held[r], pslot[r]>>
           /\ pslot[r] # None => pbuf'[pslot[r]] = pbuf[pslot[r]]
        \/ /\ pstage'[r] \in {"bootstrap", "waiting"} /\ prefilled[r] = 0 /\ UNCHANGED prefilled[r]
        \/ pstage'[r] = "done"
    BY <1>2, RoomMoves, Zenon DEF RoomRight
  <2> QED BY <1>0, <2>1, Zenon DEF RoomRight
<1> QED BY <1>1, <1>2, Zenon

\* A request with chunks to send keeps its place, and one that ended has none.
LEMMA InfoRightStep ==
  ASSUME TInv, ChunksRight, PNext, NEW r \in Room, InfoRight(r)
  PROVE  InfoRight(r)'
<1>0. /\ Queued(r) \/ Looking(r) =>
           ~InFlight(r) /\ pstage[r] \in {"chunked", "inflight", "done"}
      /\ worker.pc = "pop" /\ worker.chunk.room = r =>
           pstage[r] = "done" \/ (pstage[r] = "inflight" /\ ~Queued(r) /\ ~Looking(r))
      /\ held \in [Room -> BOOLEAN]
  BY Zenon DEF Untold, ChunksRight, Looking, AtWorker, TInv, ChunksInOrder
<1>1. CASE PrefillChunk(r)
  BY <1>0, <1>1, ForwardPass, Zenon DEF InfoRight, Known, tables
<1>2. CASE ~PrefillChunk(r)
  <2>1. Queued(r)' \/ Looking(r)' => Queued(r) \/ Looking(r)
    BY <1>2, QueueMoves, Zenon
  <2>2. \/ UNCHANGED pstage[r]
        \/ pstage[r] = "none" /\ pstage'[r] = "bootstrap"
        \/ /\ pstage[r] = "bootstrap" /\ pstage'[r] = "waiting" /\ pstatus[r] = WaitingForInput
           /\ UNCHANGED transferInfos
        \/ pstage[r] \in {"bootstrap", "waiting"} /\ pstage'[r] = "done"
        \/ pstage[r] = "inflight" /\ pstage'[r] = "done" /\ transferInfos'[r] = None
    BY <1>0, <1>2, RoomMoves, Zenon DEF tables
  <2>3. /\ \/ transferInfos'[r] = transferInfos[r]
           \/ InFlight(r) /\ (Known(r) => Known(r)')
           \/ pstage'[r] = "done" /\ transferInfos'[r] = None
           \/ worker.pc = "pop" /\ worker.chunk.room = r /\ transferInfos'[r] = None
        /\ pstatus'[r] = WaitingForInput => pstatus[r] = WaitingForInput \/ Known(r)'
    BY InfoMoves, Zenon
  <2>4. Known(r) => Known(r)' \/ pstage'[r] = "done" \/ (worker.pc = "pop" /\ worker.chunk.room = r)
    BY <2>3, Zenon DEF Known
  <2> QED BY <1>0, <2>2, <2>4, <2>3, <2>1, Zenon DEF InfoRight, Known
<1> QED BY <1>1, <1>2, Zenon

\* A chunk says the same of its request as long as it is queued.
LEMMA ChunkStays ==
  ASSUME TInv, held \in [Room -> BOOLEAN], PNext, NEW c \in KVChunk, ChunkOf(c)
  PROVE  ChunkOf(c)'
<1> DEFINE r == c.room
<1>0. /\ r \in Room /\ prefilled[r] \in Nat /\ c.k \in 1 .. prefilled[r]
      /\ c.last <=> c.k = NumChunks[r]
      /\ pstage[r] \in {"chunked", "inflight", "done"}
      /\ pstage[r] # "done" => c.slot = pslot[r]
  BY Zenon DEF KVChunk, TInv, ChunksTyped, ChunkOf
<1>1. /\ prefilled'[r] \in {prefilled[r], prefilled[r] + 1}
      /\ pstage'[r] \in {"chunked", "inflight", "done"}
      /\ pstage'[r] # "done" => pstage[r] # "done" /\ pslot'[r] = pslot[r]
  <2>1. CASE PrefillChunk(r)
    BY <1>0, <2>1, ForwardPass, Zenon
  <2>2. CASE ~PrefillChunk(r)
    BY <1>0, <2>2, RoomMoves, Zenon
  <2> QED BY <2>1, <2>2, Zenon
<1> HIDE DEF r
<1> QED BY <1>0, <1>1 DEF ChunkOf, r

\* The chunks in the queue and at the worker are those of their requests.
LEMMA ChunksRightStep ==
  ASSUME TInv, ChunksRight, \A r \in Room : RoomRight(r), PNext, Overtaking
  PROVE  ChunksRight'
<1>0. /\ held \in [Room -> BOOLEAN] /\ Listed(queue)' = Listed(queue')
      /\ worker.pc \notin {"get", "dead"} => worker.chunk \in KVChunk /\ worker.chunk.room \in Room
      /\ \A c \in Listed(queue) : c \in KVChunk
      /\ pstage \in [Room -> PStage] /\ pstatus \in [Room -> KVPoll \cup {None}]
  BY ChunkMoves, Zenon DEF ChunksRight, Listed, TInv, ChunksTyped, KVChunk, IInv, PSlotsInv, PTyped, StatusTyped
<1>1. \A c \in Listed(queue)' : ChunkOf(c)'
  <2> SUFFICES ASSUME NEW c \in Listed(queue') PROVE ChunkOf(c)'
    BY <1>0, Zenon
  <2>1. CASE c \in Listed(queue)
    BY <1>0, <2>1, ChunkStays, Zenon DEF ChunksRight
  <2>2. ASSUME NEW r \in Room, PrefillChunk(r), c = NextChunk(r) PROVE ChunkOf(c)'
    <3>1. /\ pstage[r] \in {"waiting", "chunked"} /\ UNCHANGED pslot
          /\ pstage'[r] \in {"inflight", "chunked"}
          /\ prefilled'[r] = prefilled[r] + 1
      BY <1>0, <2>2, ForwardPass, Zenon
    <3>2. c.room = r /\ c.k = prefilled'[r] /\ (c.last <=> c.k = NumChunks[r]) /\ c.slot = pslot'[r]
      BY <2>2, <3>1, Zenon DEF NextChunk, Last
    <3> QED BY <3>1, <3>2 DEF ChunkOf, TInv, ChunksTyped
  <2> QED BY <2>1, <2>2, ChunkMoves, Zenon
<1>2. (worker.pc \notin {"get", "dead"} => ChunkOf(worker.chunk))'
  <2> SUFFICES ASSUME worker'.pc \notin {"get", "dead"} PROVE ChunkOf(worker.chunk)'
    OBVIOUS
  <2>1. PICK c \in KVChunk : c = worker'.chunk /\ ChunkOf(c)
    BY <1>0, ChunkMoves, Zenon DEF ChunksRight
  <2> QED BY <2>1, <1>0, ChunkStays, Zenon DEF ChunkOf
<1>3. (worker.pc \in {"owned", "pop"} =>
         \/ pstage[worker.chunk.room] = "done"
         \/ pstage[worker.chunk.room] = "inflight" /\ ~Queued(worker.chunk.room))'
  <2> SUFFICES ASSUME worker'.pc \in {"owned", "pop"}
               PROVE  (\/ pstage[worker.chunk.room] = "done"
                       \/ pstage[worker.chunk.room] = "inflight" /\ ~Queued(worker.chunk.room))'
    OBVIOUS
  <2>1. worker.pc \notin {"get", "dead"} /\ worker'.chunk = worker.chunk
    BY <1>0, ChunkMoves, Zenon
  <2>r. PICK r \in Room : r = worker.chunk.room
    BY <1>0, <2>1, Zenon
  <2>2. \/ worker.pc \in {"owned", "pop"}
        \/ UNCHANGED <<pstage, queue>> /\ pstatus[r] \in {None, Success}
    <3>1. ASSUME ~Worker PROVE worker' = worker
      BY <3>1, Zenon DEF PNext, PScheduler, PArrive, BootstrapFailed, Bootstrapped, TransferEnded,
         PAbort, PrefillChunk, Registered, MetadataArrives, MetadataStored, Probe, Crash, threads
    <3>2. ASSUME NEW p, worker' = [worker EXCEPT !.pc = p] PROVE worker'.pc = p
      BY <3>2, Zenon DEF TInv, ChunksTyped
    <3>3. CASE WorkerChecks
      BY <2>r, <3>2, <3>3, Zenon DEF WorkerChecks, Goto, queues
    <3>4. CASE WorkerReadsStatus
      BY <2>r, <3>4, Zenon DEF WorkerReadsStatus, queues, Idle, DeadWorker
    <3>5. CASE WorkerOwns \/ WorkerPops
      BY <3>5, Zenon DEF WorkerOwns, WorkerPops, At
    <3>6. CASE WorkerGets
      BY <2>1, <3>6, Zenon DEF WorkerGets, At
    <3>7. CASE WorkerLooks
      BY <3>7, Zenon DEF WorkerLooks, DeadWorker, Idle, TInv, ChunksTyped
    <3>8. CASE WorkerSends \/ WorkerSendsAux
      BY <3>2, <3>8, Zenon DEF WorkerSends, SendFails, SendSucceeds, WorkerSendsAux, Goto
    <3> QED BY <3>1, <3>3, <3>4, <3>5, <3>6, <3>7, <3>8, Zenon DEF Worker
  <2>3. \/ pstage[r] = "done"
        \/ pstage[r] = "inflight" /\ ~Queued(r)
    <3>1. pstage[r] \in {"chunked", "inflight", "done"}
      BY <2>1, <2>r, Zenon DEF ChunksRight, ChunkOf
    <3>2. CASE pstatus[r] \in {None, Success}
      BY <3>1, <3>2, PollValues, Zenon DEF PStatusOf, TInv, PStatusRight, ReportsInOrder
    <3>3. CASE worker.pc \in {"owned", "pop"}
      BY <2>r, <3>3, Zenon DEF ChunksRight, Queued
    <3> QED BY <2>2, <3>2, <3>3, Zenon
  <2>4. \/ pstage'[r] = "done"
        \/ pstage'[r] = "inflight" /\ ~Queued(r)'
    BY <1>0, <2>1, <2>3, RoomMoves, QueueMoves, Zenon DEF PrefillChunk
  <2> QED BY <2>4, <2>1, <2>r, Zenon DEF Queued
<1>4. (worker.pc = "aux" => ~badSession)'
  <2> SUFFICES ASSUME worker'.pc = "aux" PROVE ~badSession'
    OBVIOUS
  <2>1. ASSUME worker' = worker, badSession' = badSession \/ ~badSession' PROVE ~badSession'
    BY <2>1, Zenon DEF ChunksRight
  <2>2. ASSUME NEW p, worker' = [worker EXCEPT !.pc = p] PROVE worker'.pc = p
    BY <2>2, Zenon DEF TInv, ChunksTyped
  <2>3. CASE WorkerSends
    BY <2>2, <2>3, Zenon DEF WorkerSends, SendFails, SendSucceeds, Goto
  <2>4. CASE WorkerLooks
    BY <2>4, Zenon DEF WorkerLooks, DeadWorker, Idle, TInv, ChunksTyped
  <2>5. CASE WorkerGets \/ WorkerSendsAux \/ WorkerChecks \/ WorkerReadsStatus \/ WorkerOwns \/ WorkerPops
    <3>1. \/ worker'.pc \in {"get", "dead", "check", "look"}
          \/ \E p \in {"check", "owned", "status", "pop"} : worker' = [worker EXCEPT !.pc = p]
      BY <2>5 DEF WorkerGets, WorkerSendsAux, WorkerChecks, WorkerReadsStatus, WorkerOwns, WorkerPops,
         Goto, Idle, DeadWorker
    <3> QED BY <2>2, <3>1, Zenon
  <2>6. CASE ~Worker
    BY <2>1, <2>6, Zenon DEF PNext, PScheduler, PArrive, BootstrapFailed, Bootstrapped,
       TransferEnded, PAbort, PrefillChunk, Registered, MetadataArrives, MetadataStored, Probe,
       Crash, threads
  <2> QED BY <2>3, <2>4, <2>5, <2>6, Zenon DEF Worker
<1>5. (mem \in [DPage -> (Room \cup {None}) \X Nat])'
  <2>1. CASE WorkerSends
    <3>1. CASE UNCHANGED mem
      BY <3>1, Zenon DEF ChunksRight
    <3>2. CASE Sent(worker.chunk)
      <4>1. PICK p, kv : kv \in {<<worker.chunk.room, worker.chunk.k>>, Junk} /\ mem' = [mem EXCEPT ![p] = kv]
        BY <3>2, Zenon DEF Sent
      <4>2. kv \in (Room \cup {None}) \X Nat
        BY <1>0, <2>1, <4>1 DEF Junk, WorkerSends, At, KVChunk
      <4> QED BY <4>1, <4>2, Zenon DEF ChunksRight
    <3> QED BY <2>1, <3>1, <3>2, Zenon DEF WorkerSends, SendFails, SendSucceeds
  <2>2. CASE ~WorkerSends
    <3>1. UNCHANGED mem
      BY <2>2, Zenon DEF PNext, PScheduler, PArrive, BootstrapFailed, Bootstrapped, TransferEnded, PAbort,
         PrefillChunk, Registered, MetadataArrives, MetadataStored, Probe, Crash, shared, Worker,
         WorkerGets, WorkerLooks, WorkerSendsAux, WorkerChecks, WorkerReadsStatus, WorkerOwns, WorkerPops
    <3> QED BY <3>1, Zenon DEF ChunksRight
  <2> QED BY <2>1, <2>2, Zenon
<1>6. (held \in [Room -> BOOLEAN])'
  <2>1. \/ UNCHANGED held
        \/ \E r \in Room, b \in BOOLEAN : held' = [held EXCEPT ![r] = b]
    BY Zenon DEF PNext, PScheduler, PArrive, BootstrapFailed, Bootstrapped, TransferEnded, PAbort,
       PrefillChunk, Registered, MetadataArrives, MetadataStored, Probe, Crash, Worker, WorkerSends,
       WorkerGets, WorkerLooks, WorkerSendsAux, WorkerChecks, WorkerReadsStatus, WorkerOwns, WorkerPops,
       queues
  <2> QED BY <1>0, <2>1, Zenon
<1>7. (badSession \in BOOLEAN)' /\ (overtaken \in BOOLEAN)'
  <2>1. badSession' \in {TRUE, FALSE, badSession}
    BY Zenon DEF PNext, PScheduler, PArrive, BootstrapFailed, Bootstrapped, TransferEnded, PAbort,
       PrefillChunk, Registered, MetadataArrives, MetadataStored, Probe, Crash, Worker, WorkerSends,
       WorkerGets, WorkerLooks, WorkerSendsAux, WorkerChecks, WorkerReadsStatus, WorkerOwns, WorkerPops,
       threads, SendFails, SendSucceeds
  <2> QED BY <2>1, Zenon DEF ChunksRight, Overtaking
<1> QED BY <1>1, <1>2, <1>3, <1>4, <1>5, <1>6, <1>7, Zenon DEF ChunksRight

----------------------------------------------------------------------------
(* The pages of a transfer                                                  *)

\* A live prefill server may still write KV of r exactly while a chunk of r is
\* queued or at the worker, or r has not been through its queues.
LEMMA UnsentMeans ==
  ASSUME NEW r
  PROVE  Unsent(r) <=> up /\ (\/ pstage[r] \in {"none", "bootstrap", "waiting", "chunked"}
                              \/ Queued(r) \/ AtWorker(r))
BY Zenon DEF Unsent, Queued, AtWorker, Listed

\* A room whose chunks are all sent has no more.
LEMMA UnsentForGood ==
  ASSUME TInv, held \in [Room -> BOOLEAN], Next, NEW r \in Room, Unsent(r)'
  PROVE  Unsent(r)
<1>1. CASE DNext(up) /\ Decodes
  BY <1>1, Zenon DEF Decodes, pvars, queues, threads, Unsent
<1>2. CASE PNext /\ Prefills
  <2>1. up
    BY <1>2, Zenon DEF PNext, PScheduler, PArrive, BootstrapFailed, Bootstrapped, TransferEnded,
       PAbort, PrefillChunk, Registered, MetadataArrives, MetadataStored, Probe, Crash, Worker,
       WorkerSends, WorkerGets, WorkerLooks, WorkerSendsAux, WorkerChecks, WorkerReadsStatus,
       WorkerOwns, WorkerPops, At
  <2>2. CASE Queued(r) \/ AtWorker(r)
    BY <2>1, <2>2, UnsentMeans, Zenon
  <2>3. CASE PrefillChunk(r)
    BY <2>1, <2>3, UnsentMeans, Zenon DEF PrefillChunk
  <2>4. CASE ~(Queued(r) \/ AtWorker(r)) /\ ~PrefillChunk(r)
    <3>1. pstage[r] \in {"none", "bootstrap", "waiting", "chunked"}
      BY <1>2, <2>4, QueueMoves, RoomMoves, Zenon DEF Unsent, Queued, AtWorker, Listed
    <3> QED BY <2>1, <3>1, UnsentMeans, Zenon
  <2> QED BY <2>2, <2>3, <2>4, Zenon
<1> QED BY <1>1, <1>2, Zenon DEF Next

\* A request the prefill server hears of, it has heard of or will.
LEMMA ToldMoves ==
  ASSUME TInv, held \in [Room -> BOOLEAN], PNext, NEW r \in Room, Told(r)'
  PROVE  Told(r)
<1>0. prefilled[r] \in Nat
  BY Zenon DEF TInv, ChunksTyped
<1>1. CASE PrefillChunk(r)
  BY <1>1, Zenon DEF PrefillChunk, Told
<1>2. CASE ~PrefillChunk(r)
  BY PrefillHears, InfoMoves, <1>2, RoomMoves, Zenon DEF Told, TInv
<1> QED BY <1>1, <1>2, Zenon

\* What the prefill server has heard of has been announced.
LEMMA ToldIsAnnounced ==
  ASSUME TInv, \A q \in Room : RoomRight(q), NEW r \in Room, Told(r)
  PROVE  ~Unannounced(r) \/ pstage[r] = "done"
<1> QED BY DEF Told, Untold, TInv, MetadataOnce, PStatusRight, RoomRight, IInv, PSlotsInv, PTyped,
           PStage

\* A session is readmitted by a step that does nothing else.
LEMMA SessionMoves ==
  ASSUME PNext, badSession, ~badSession'
  PROVE  UNCHANGED <<queues, tables, queue, worker, toDecode, mem, dbuf, up>>
<1>1. CASE Registered \/ Probe
  BY <1>1, Zenon DEF Registered, Probe, shared
<1>2. CASE ~Registered /\ ~Probe
  BY <1>2, Zenon DEF PNext, PScheduler, PArrive, BootstrapFailed, Bootstrapped, TransferEnded, PAbort,
     PrefillChunk, MetadataArrives, MetadataStored, Crash, Worker, WorkerSends, SendFails, SendSucceeds,
     WorkerGets, WorkerLooks, WorkerSendsAux, WorkerChecks, WorkerReadsStatus, WorkerOwns, WorkerPops, threads
<1> QED BY <1>1, <1>2, Zenon

\* A request fails by an abort, in a queue whose sender is polled, or by a failed
\* write.
LEMMA FailedMoves ==
  ASSUME TInv, PNext, NEW r \in Room, pstatus'[r] = Failed
  PROVE  \/ pstatus[r] = Failed
         \/ UNCHANGED pstage /\ pstage[r] \in {"bootstrap", "inflight", "done"}
         \/ badSession'
<1> DEFINE Goal == \/ pstatus[r] = Failed
                   \/ UNCHANGED pstage /\ pstage[r] \in {"bootstrap", "inflight", "done"}
                   \/ badSession'
<1> SUFFICES Goal
  OBVIOUS
<1>0. pstatus \in [Room -> KVPoll \cup {None}] /\ None # Failed
  BY PollValues, Zenon DEF TInv, StatusTyped
<1>u. \A q \in Room, v \in KVPoll : LET new == UpdateStatus(pstatus, q, v) IN
        /\ \A p \in Room \ {q} : new[p] = pstatus[p]
        /\ v \in {Bootstrapping, WaitingForInput, Success} => (new[q] = Failed => pstatus[q] = Failed)
  BY <1>0, UpdateFacts, PollValues
<1>1. ASSUME NEW q \in Room, NEW v \in {Bootstrapping, WaitingForInput, Success},
             pstatus' = UpdateStatus(pstatus, q, v)
      PROVE  Goal
  <2> DEFINE new == UpdateStatus(pstatus, q, v)
  <2>1. /\ \A p \in Room \ {q} : new[p] = pstatus[p]
        /\ new[q] = Failed => pstatus[q] = Failed
    BY <1>u, PollValues
  <2>2. pstatus' = new
    BY <1>1, Zenon
  <2> HIDE DEF new
  <2> QED BY <2>1, <2>2, Zenon
<1>2. ASSUME NEW q \in Room, pstatus' = UpdateStatus(pstatus, q, Failed), UNCHANGED pstage,
             pstage[q] \in {"bootstrap", "inflight", "done"}
      PROVE  Goal
  BY <1>2, <1>u, PollValues
<1>3. ASSUME NEW q \in Room, NEW why, BootstrapFailed(q, why) \/ TransferEnded(q, why) PROVE Goal
  BY <1>0, <1>3, Zenon DEF BootstrapFailed, TransferEnded, PClear
<1>4. ASSUME NEW q \in Room, PArrive(q) PROVE Goal
  BY <1>1, <1>4, Zenon DEF PArrive
<1>5. ASSUME NEW q \in Room, PAbort(q) PROVE Goal
  <2>1. CASE UNCHANGED pstatus
    BY <2>1, Zenon
  <2> QED BY <1>2, <1>5, <2>1, Zenon DEF PAbort, AbortWaiting, AbortSender
<1>6. CASE MetadataStored
  BY <1>1, <1>6, Zenon DEF MetadataStored, TInv, MessagesTyped, Metadata, tables
<1>7. CASE WorkerSends
  BY <1>7, Zenon DEF WorkerSends, SendFails, SendSucceeds
<1>8. CASE WorkerSendsAux
  <2>1. worker.pc = "aux" /\ worker.chunk \in KVChunk /\ worker.chunk.room \in Room
    BY <1>8, Zenon DEF WorkerSendsAux, At, TInv, ChunksTyped, KVChunk
  <2> QED BY <1>1, <1>2, <2>1, <1>8, Zenon DEF TInv, ChunksInOrder, WorkerSendsAux, Report, queues
<1>9. ASSUME UNCHANGED pstatus PROVE Goal
  BY <1>9, Zenon
<1>10. ASSUME NEW q \in Room, PrefillChunk(q) \/ Bootstrapped(q) PROVE Goal
  BY <1>9, <1>10, Zenon DEF PrefillChunk, Bootstrapped, tables
<1>11. CASE \/ Registered \/ Probe \/ Crash \/ MetadataArrives \/ WorkerGets \/ WorkerLooks
            \/ WorkerChecks \/ WorkerReadsStatus \/ WorkerOwns \/ WorkerPops
  BY <1>9, <1>11, Zenon DEF Registered, Probe, Crash, MetadataArrives, WorkerGets, WorkerLooks,
     WorkerChecks, WorkerReadsStatus, WorkerOwns, WorkerPops, tables
<1> HIDE DEF Goal
<1>12. ASSUME NEW q \in Room, \/ PArrive(q) \/ PAbort(q) \/ PScheduler(q)
                               \/ BootstrapFailed(q, "poll") \/ TransferEnded(q, "poll")
       PROVE  Goal
  BY <1>3, <1>4, <1>5, <1>10, <1>12, Zenon DEF PScheduler
<1>13. CASE Registered \/ MetadataArrives \/ MetadataStored \/ Worker \/ Probe \/ Crash
  BY <1>6, <1>7, <1>8, <1>11, <1>13, Zenon DEF Worker
<1> QED BY <1>12, <1>13, Zenon DEF PNext

\* A request on the decode server: its stage, and what it holds.
LEMMA DecodeMoves ==
  ASSUME TInv, DNext(up), NEW r \in Room
  PROVE     \/ UNCHANGED <<dstage[r], dpages[r], dslot[r]>>
            \/ dstage[r] \in {"none", "prealloc"} /\ dstage'[r] \in {"prealloc", "done"}
            \/ /\ dstage[r] = "prealloc" /\ dstage'[r] = "transfer"
               /\ Len(dpages'[r]) = NumChunks[r]
            \/ /\ dstage[r] \in {"transfer", "running"} /\ dstage'[r] = "done" /\ dpages'[r] = <<>>
               /\ Commit(r) => dbuf[dslot[r]] # r
            \/ /\ Commit(r) /\ dbuf[dslot[r]] = r /\ dstage[r] = "transfer" /\ dstage'[r] = "running"
               /\ UNCHANGED dpages[r]
<1> DEFINE Moved ==
            \/ UNCHANGED <<dstage[r], dpages[r], dslot[r]>>
            \/ dstage[r] \in {"none", "prealloc"} /\ dstage'[r] \in {"prealloc", "done"}
            \/ /\ dstage[r] = "prealloc" /\ dstage'[r] = "transfer"
               /\ Len(dpages'[r]) = NumChunks[r]
            \/ /\ dstage[r] \in {"transfer", "running"} /\ dstage'[r] = "done" /\ dpages'[r] = <<>>
               /\ Commit(r) => dbuf[dslot[r]] # r
            \/ /\ Commit(r) /\ dbuf[dslot[r]] = r /\ dstage[r] = "transfer" /\ dstage'[r] = "running"
               /\ UNCHANGED dpages[r]
<1> SUFFICES Moved
  OBVIOUS
<1>0. /\ dstage \in [Room -> DStage] /\ dpages \in [Room -> Seq(DPage)]
      /\ dslot \in [Room -> DSlot \cup {None}] /\ dfree \in Seq(DPage)
  BY Zenon DEF TInv, IInv, DSlotsInv, DTyped
<1>1. ASSUME UNCHANGED dqueues PROVE Moved
  BY <1>1, Zenon DEF dqueues
<1>2. ASSUME NEW q \in Room, NEW why, DArrive(q, up) \/ HandshakeFailed(q, why)
      PROVE  Moved
  BY <1>0, <1>2, Zenon DEF DArrive, HandshakeFailed
<1>3. ASSUME NEW q \in Room, Preallocate(q) PROVE Moved
  <2>1. /\ dstage[q] = "prealloc" /\ dstage' = [dstage EXCEPT ![q] = "transfer"]
        /\ dpages' = [dpages EXCEPT ![q] = SubSeq(dfree, 1, NumChunks[q])]
        /\ \E b : dslot' = [dslot EXCEPT ![q] = b]
        /\ NumChunks[q] <= Len(dfree)
    BY <1>3, Zenon DEF Preallocate, PreAlloc
  <2>2. Len(SubSeq(dfree, 1, NumChunks[q])) = NumChunks[q]
    <3>1. NumChunks[q] \in Nat
      BY PDAssumption, Zenon
    <3> QED BY <1>0, <2>1, <3>1
  <2> QED BY <1>0, <2>1, <2>2, Zenon
<1>4. ASSUME NEW q \in Room, NEW why, TransferFailed(q, why) PROVE Moved
  <2>1. /\ dstage[q] = "transfer" /\ dstage' = [dstage EXCEPT ![q] = "done"]
        /\ dpages' = [dpages EXCEPT ![q] = <<>>] /\ dslot' = [dslot EXCEPT ![q] = None]
    BY <1>4, Zenon DEF TransferFailed, ReleasePages, ReleaseBuffer
  <2>2. ASSUME q = r PROVE ~Commit(r) \/ dbuf[dslot[r]] # r
    BY <1>0, <2>1, <2>2, Zenon DEF Commit
  <2> QED BY <1>0, <2>1, <2>2, Zenon
<1>5. ASSUME NEW q \in Room, Commit(q) PROVE Moved
  <2>1. dstage[q] = "transfer" /\ dslot' = [dslot EXCEPT ![q] = None]
    BY <1>5, Zenon DEF Commit, ReleaseBuffer
  <2>2. CASE dbuf[dslot[q]] = q
    BY <1>0, <1>5, <2>1, <2>2, Zenon DEF Commit
  <2>3. CASE dbuf[dslot[q]] # q
    <3>1. dstage' = [dstage EXCEPT ![q] = "done"] /\ dpages' = [dpages EXCEPT ![q] = <<>>]
      BY <1>5, <2>3, Zenon DEF Commit, ReleasePages
    <3> QED BY <1>0, <1>5, <2>1, <2>3, <3>1, Zenon
  <2> QED BY <2>2, <2>3, Zenon
<1>6. ASSUME NEW q \in Room, Decoded(q) PROVE Moved
  <2>1. /\ dstage[q] = "running" /\ dstage' = [dstage EXCEPT ![q] = "done"] /\ UNCHANGED dslot
        /\ dpages' = [dpages EXCEPT ![q] = <<>>]
    BY <1>6, Zenon DEF Decoded, ReleasePages
  <2>2. ASSUME q = r PROVE ~Commit(r)
    BY <2>1, <2>2, Zenon DEF Commit
  <2> QED BY <1>0, <2>1, <2>2, Zenon
<1>7. ASSUME NEW q \in Room, HandshakeReady(q) \/ DAbort(q) PROVE Moved
  BY <1>7, Zenon DEF HandshakeReady, DAbort, dqueues
<1>8. CASE \/ ResolvePending(up) \/ StatusArrives \/ StatusCounted \/ StatusMarked
           \/ HeartbeatOk(up) \/ HeartbeatFailed(up) \/ RoomChecked \/ RoomFailed
  BY <1>1, <1>8, Zenon DEF ResolvePending, StatusArrives, StatusCounted, StatusMarked, HeartbeatOk,
     HeartbeatFailed, RoomChecked, RoomFailed
<1> HIDE DEF Moved
<1> QED BY <1>2, <1>3, <1>4, <1>5, <1>6, <1>7, <1>8 DEF DNext, DScheduler

\* A request is found corrupt when the buffer of its complete transfer names
\* another.
LEMMA CorruptMoves ==
  ASSUME DNext(up)
  PROVE  UNCHANGED corrupt \/ \E q \in Room : Commit(q) /\ dbuf[dslot[q]] # q
<1>1. ASSUME NEW q \in Room, Commit(q)
      PROVE  UNCHANGED corrupt \/ dbuf[dslot[q]] # q
  BY <1>1, Zenon DEF Commit
<1>2. ASSUME NEW q \in Room, NEW why,
             \/ DArrive(q, up) \/ HandshakeFailed(q, why) \/ Preallocate(q) \/ TransferFailed(q, why)
             \/ Decoded(q) \/ HandshakeReady(q) \/ DAbort(q)
      PROVE  UNCHANGED corrupt
  BY <1>2, Zenon DEF DArrive, HandshakeFailed, Preallocate, TransferFailed, Decoded, HandshakeReady, DAbort, dqueues
<1>3. CASE \/ ResolvePending(up) \/ StatusArrives \/ StatusCounted \/ StatusMarked
           \/ HeartbeatOk(up) \/ HeartbeatFailed(up) \/ RoomChecked \/ RoomFailed
  BY <1>3, Zenon DEF ResolvePending, StatusArrives, StatusCounted, StatusMarked, HeartbeatOk,
     HeartbeatFailed, RoomChecked, RoomFailed, dqueues
<1> QED BY <1>1, <1>2, <1>3, Zenon DEF DNext, DScheduler

\* A transfer that the decode server finds complete has no chunks to send.
LEMMA CommitIsSuccess ==
  ASSUME TInv, NEW r \in Room, Commit(r)
  PROVE  Succeeded(r) /\ ~Unsent(r)
<1>1. dstage[r] = "transfer" /\ DPoll(r) = Success
  BY Zenon DEF Commit
<1>2. Succeeded(r)
  BY <1>1, PollValues, Zenon DEF Succeeded, DPoll, TInv, DStatusRight
<1> QED BY <1>2, UnsentMeans, Zenon DEF TInv, ReportsInOrder

\* The pages of a request stay as many as its chunks.
LEMMA PagesSizedStep ==
  ASSUME TInv, held \in [Room -> BOOLEAN], Next, NEW r \in Room, PagesSized(r)
  PROVE  PagesSized(r)'
<1>1. Unsent(r)' => Unsent(r)
  BY UnsentForGood, Zenon
<1>2. CASE PNext /\ Prefills
  BY <1>1, <1>2, Zenon DEF PagesSized, Prefills, dvars, dqueues
<1>3. CASE DNext(up) /\ Decodes
  BY <1>1, <1>3, DecodeMoves, CommitIsSuccess, Zenon DEF PagesSized
<1> QED BY <1>2, <1>3, Zenon DEF Next

\* what each request keeps on the two servers
RoomsRight == \A r \in Room : RoomRight(r) /\ InfoRight(r) /\ PagesSized(r)

\* The decode server keeps the pages of a transfer until its chunks are sent, or
\* its transfer is overtaken.
LEMMA DecodeKeepsIntact ==
  ASSUME TInv, ChunksRight, RoomsRight, TransferIntact, DNext(up), Decodes
  PROVE  TransferIntact'
<1> SUFFICES ASSUME ~overtaken' PROVE /\ (worker.pc \in {"send", "aux"} => pstage[worker.chunk.room] # "done")'
                                      /\ \A r \in Room : RoomIntact(r)'
                                      /\ (corrupt = {})'
  BY Zenon DEF TransferIntact
<1>0. ~overtaken /\ \A r \in Room : ~DecodeGaveUp(r)
  BY Zenon DEF Decodes, Overtaking
<1>1. /\ worker.pc \in {"send", "aux"} => pstage[worker.chunk.room] # "done"
      /\ \A r \in Room : RoomIntact(r)
      /\ corrupt = {}
  BY <1>0, Zenon DEF TransferIntact
<1>2. UNCHANGED <<mem, dbuf, pstage, pstatus, prefilled, queue, worker, badSession, up>>
  BY DecodeWritesNothing, Zenon DEF Decodes, pvars, queues, tables, threads
<1>n. Next
  BY Zenon DEF Next
<1>4. \A q \in Room : Commit(q) => Succeeded(q) /\ ~Unsent(q) /\ OwnKV(q) /\ dbuf[dslot[q]] = q
  BY <1>1, CommitIsSuccess, Zenon DEF RoomIntact, Commit
<1>5. corrupt' = {}
  BY <1>1, <1>4, CorruptMoves, Zenon
<1>6. ASSUME NEW r \in Room PROVE RoomIntact(r)'
  <2>0. RoomIntact(r)
    BY <1>1, Zenon
  <2>u. Unsent(r)' <=> Unsent(r)
    BY <1>2, Zenon DEF Unsent
  <2>1. (pstatus[r] = Failed /\ pstage[r] = "chunked" => badSession)'
    BY <1>2, <2>0, Zenon DEF RoomIntact
  \* a transfer keeps its pages, or has all of its KV
  <2>2. dstage[r] = "transfer" =>
          \/ UNCHANGED <<dstage[r], dpages[r], dslot[r]>>
          \/ badSession \/ ~Unsent(r)
    <3>1. ASSUME dstage[r] = "transfer", dpages'[r] = <<>>, ~badSession, Unsent(r) PROVE FALSE
      BY <1>0, <3>1, PDAssumption, Zenon DEF DecodeGaveUp, RoomsRight, PagesSized
    <3> QED BY <1>4, <3>1, DecodeMoves, Zenon
  <2>3. (~badSession /\ Unsent(r) /\ Told(r) => dstage[r] = "transfer")'
    <3> SUFFICES ASSUME ~badSession, Unsent(r), Told(r)' PROVE dstage'[r] = "transfer"
      BY <1>2, <2>u, Zenon
    <3>1. CASE Told(r)
      BY <2>0, <2>2, <3>1, Zenon DEF RoomIntact
    <3>2. CASE ~Told(r)
      <4>1. InFlight(r)' /\ ~InFlight(r)
        BY <1>2, <3>2, Zenon DEF Told
      <4>2. toPrefill \in Seq(Metadata \cup {Register})
        BY Zenon DEF TInv, MessagesTyped
      <4>3. \A m \in Metadata \cup {Register} : Listed(Append(toPrefill, m)) = Listed(toPrefill) \cup {m}
        BY <4>2, AppendToSeq
      <4>4. PICK m \in Listed(toPrefill') : m.room = r /\ m \notin Listed(toPrefill)
        BY <4>1, Zenon DEF InFlight, Decodes, pvars, threads, Listed
      <4>5. Register.room = None /\ None \notin Room
        BY PollValues, Zenon DEF Register
      <4>6. PICK q \in Room : \E x \in Metadata :
                 /\ dstage'[q] = "transfer" /\ x.room = q
                 /\ toPrefill' = Append(toPrefill, x)
        <5>1. \A x \in pending : x \notin ready
          BY Zenon DEF TInv, StatusTyped, DStatusRight
        <5>2. \/ toPrefill' = toPrefill
              \/ toPrefill' = Append(toPrefill, Register)
              \/ \E q \in Room : \E x \in Metadata :
                   /\ dstage'[q] = "transfer" /\ x.room = q
                   /\ toPrefill' = Append(toPrefill, x)
          BY <5>1, DecodeSends, Zenon DEF TInv
        <5> QED BY <4>3, <4>4, <4>5, <5>2, Zenon
      <4> QED BY <4>6, <4>3, <4>4
    <3> QED BY <3>1, <3>2, Zenon
  <2>4. (~badSession /\ worker.pc # "dead" /\ Unsent(r) /\ dstage[r] = "transfer" /\ pstage[r] # "done" =>
           \A k \in 1 .. prefilled[r] : Delivered(r, k) \/ HasChunk(r, k))'
    <3> SUFFICES ASSUME ~badSession, worker.pc # "dead", Unsent(r), dstage'[r] = "transfer",
                        pstage[r] # "done", NEW k \in 1 .. prefilled[r]
                 PROVE  Delivered(r, k)' \/ HasChunk(r, k)'
      BY <1>2, <2>u, Zenon
    <3>1. CASE dstage[r] = "transfer" /\ dpages'[r] = dpages[r]
      <4>1. (Delivered(r, k)' <=> Delivered(r, k)) /\ (HasChunk(r, k)' <=> HasChunk(r, k))
        BY <1>2, <3>1, Zenon DEF Delivered, HasChunk, Listed
      <4> QED BY <2>0, <3>1, <4>1, Zenon DEF RoomIntact
    <3>2. CASE dstage[r] = "prealloc"
      BY <3>2 DEF RoomsRight, RoomRight, TInv, IInv, PSlotsInv, PTyped, PStage, PStatusRight,
         Untold, Unannounced
    <3> QED BY <1>n, <3>1, <3>2, TransferKeeps, Zenon
  <2>5. (Succeeded(r) /\ dstage[r] = "transfer" => OwnKV(r) /\ dbuf[dslot[r]] = r)'
    <3> SUFFICES ASSUME Succeeded(r)', dstage'[r] = "transfer" PROVE OwnKV(r)' /\ dbuf'[dslot'[r]] = r
      OBVIOUS
    <3>1. Succeeded(r)
      <4>1. ~Finishes(r)
        BY <1>2, Zenon DEF Finishes, WorkerSendsAux, Goto, At, TInv, ChunksTyped
      <4> QED BY <1>n, <4>1, ReportsStep, Zenon
    <3>2. dstage[r] = "transfer" /\ dpages'[r] = dpages[r] /\ dslot'[r] = dslot[r]
      BY <1>n, <3>1, TransferKeeps, Zenon DEF TInv, ReportsInOrder, Untold, Unannounced
    <3>3. OwnKV(r) /\ dbuf[dslot[r]] = r
      BY <2>0, <3>1, <3>2, Zenon DEF RoomIntact
    <3> QED BY <1>2, <3>2, <3>3, Zenon DEF OwnKV
  <2>6. (dstage[r] = "running" => OwnKV(r))'
    <3> SUFFICES ASSUME dstage'[r] = "running" PROVE OwnKV(r)'
      OBVIOUS
    <3>1. OwnKV(r) /\ dpages'[r] = dpages[r]
      BY <1>4, <2>0, DecodeMoves, Zenon DEF RoomIntact
    <3> QED BY <1>2, <3>1, Zenon DEF OwnKV
  <2> QED BY <2>1, <2>3, <2>4, <2>5, <2>6, Zenon DEF RoomIntact
<1> QED BY <1>1, <1>2, <1>5, <1>6, Zenon

\* The steps of the prefill server are those of one that is up, and only those of
\* the worker change where it is.
LEMMA WorkerMoves ==
  ASSUME PNext
  PROVE  up /\ (UNCHANGED worker \/ Worker)
<1>1. up
  <2>1. ASSUME NEW q \in Room, NEW why,
               \/ PArrive(q) \/ BootstrapFailed(q, why) \/ Bootstrapped(q) \/ TransferEnded(q, why)
               \/ PAbort(q) \/ PrefillChunk(q)
        PROVE  up
    BY <2>1, Zenon DEF PArrive, BootstrapFailed, Bootstrapped, TransferEnded, PAbort, PrefillChunk
  <2>2. ASSUME Registered \/ MetadataArrives \/ MetadataStored \/ Probe \/ Crash PROVE up
    BY <2>2, Zenon DEF Registered, MetadataArrives, MetadataStored, Probe, Crash
  <2>3. ASSUME Worker PROVE up
    BY <2>3, Zenon DEF Worker, WorkerSends, WorkerGets, WorkerLooks, WorkerSendsAux, WorkerChecks,
       WorkerReadsStatus, WorkerOwns, WorkerPops, At
  <2> QED BY <2>1, <2>2, <2>3, Zenon DEF PNext, PScheduler
<1>2. CASE ~Worker
  BY <1>2, Zenon DEF PNext, PScheduler, PArrive, BootstrapFailed, Bootstrapped, TransferEnded,
     PAbort, PrefillChunk, Registered, MetadataArrives, MetadataStored, Probe, Crash, threads
<1> QED BY <1>1, <1>2, Zenon

\* The worker writes into the pages and the buffer that the decode server holds
\* for the chunk's request.
LEMMA SentFacts ==
  ASSUME MInv, ChunksRight, RoomsRight, TransferIntact, ~overtaken, up, ~badSession,
         worker.pc \in {"send", "aux"}
  PROVE  \E q \in Room :
           /\ q = worker.chunk.room /\ dstage[q] = "transfer" /\ AtWorker(q) /\ Unsent(q)
           /\ held[q] /\ worker.info.pages = dpages[q] /\ worker.info.slot = dslot[q]
           /\ pstage[q] \in {"chunked", "inflight"} /\ worker.chunk.slot = pslot[q]
           /\ worker.chunk.k \in 1 .. NumChunks[q] /\ Len(dpages[q]) = NumChunks[q]
           /\ dpages[q] \in Seq(DPage) /\ dslot[q] \in DSlot
<1>1. PICK q \in Room : q = worker.chunk.room
  BY Zenon DEF MInv, TInv, ChunksTyped, KVChunk
<1>2. /\ pstage[q] # "done" /\ RoomIntact(q)
  BY <1>1, Zenon DEF TransferIntact
<1>3. /\ worker.chunk.k \in 1 .. prefilled[q] /\ pstage[q] \in {"chunked", "inflight"}
      /\ worker.chunk.slot = pslot[q]
  BY <1>1, <1>2, Zenon DEF ChunkOf, ChunksRight
<1>4. AtWorker(q) /\ Unsent(q)
  BY <1>1, Zenon DEF AtWorker, Unsent
<1>5. prefilled[q] \in Nat /\ NumChunks[q] \in Nat
  BY PDAssumption, Zenon DEF MInv, TInv, ChunksTyped
<1>6. dstage[q] = "transfer"
  BY <1>2, <1>4, <1>3, Zenon DEF RoomIntact, Told
<1>7. worker.info = InfoOf(q)
  BY <1>1, <1>6, Zenon DEF MInv, MetadataRight
<1>8. worker.info.pages = dpages[q] /\ worker.info.slot = dslot[q]
  BY <1>7 DEF InfoOf
<1>9. RoomRight(q) /\ PagesSized(q)
  BY Zenon DEF RoomsRight
<1>10. prefilled[q] <= NumChunks[q] /\ held[q]
  BY <1>3, <1>5, <1>9 DEF RoomRight
<1>11. Len(dpages[q]) = NumChunks[q]
  BY <1>6, <1>9, Zenon DEF PagesSized
<1>12. dpages[q] \in Seq(DPage) /\ dslot[q] \in DSlot
  BY <1>6, Zenon DEF MInv, TInv, IInv, DSlotsInv, DTyped
<1>13. worker.chunk.k \in 1 .. NumChunks[q]
  BY <1>3, <1>5, <1>10
<1> QED BY <1>1, <1>3, <1>4, <1>6, <1>8, <1>10, <1>11, <1>12, <1>13

\* A page of the decode server is written by the worker, with the chunk it is for.
LEMMA MemoryMoves ==
  ASSUME MInv, ChunksRight, RoomsRight, TransferIntact, ~overtaken, PNext
  PROVE  \/ UNCHANGED mem
         \/ \E q \in Room : LET k == worker.chunk.k IN
              /\ q = worker.chunk.room /\ dstage[q] = "transfer" /\ dpages[q] \in Seq(DPage)
              /\ k \in 1 .. NumChunks[q] /\ Len(dpages[q]) = NumChunks[q]
              /\ mem' = [mem EXCEPT ![dpages[q][k]] = <<q, k>>]
<1>1. CASE WorkerSends
  <2>1. up /\ worker.pc = "send"
    BY <1>1, Zenon DEF WorkerSends, At
  <2>2. CASE SendFails(worker.chunk)
    BY <2>2, Zenon DEF SendFails
  <2>3. CASE SendSucceeds(worker.chunk)
    <3>1. PICK q \in Room :
           /\ q = worker.chunk.room /\ dstage[q] = "transfer" /\ held[q]
           /\ worker.info.pages = dpages[q] /\ dpages[q] \in Seq(DPage)
           /\ worker.chunk.k \in 1 .. NumChunks[q] /\ Len(dpages[q]) = NumChunks[q]
      BY <2>1, <2>3, SentFacts, Zenon DEF SendSucceeds
    <3> QED BY <3>1, <2>3, Zenon DEF SendSucceeds, Sent
  <2> QED BY <1>1, <2>2, <2>3, Zenon DEF WorkerSends
<1>2. CASE ~WorkerSends
  BY <1>2, Zenon DEF PNext, PScheduler, PArrive, BootstrapFailed, Bootstrapped, TransferEnded, PAbort,
     PrefillChunk, Registered, MetadataArrives, MetadataStored, Probe, Crash, Worker, shared,
     WorkerGets, WorkerLooks, WorkerSendsAux, WorkerChecks, WorkerReadsStatus, WorkerOwns, WorkerPops
<1> QED BY <1>1, <1>2, Zenon

\* A chunk that has arrived stays in its page.
LEMMA DeliveredStays ==
  ASSUME MInv, ChunksRight, RoomsRight, TransferIntact, ~overtaken, PNext, UNCHANGED dpages,
         NEW r \in Room, dstage[r] \in {"transfer", "running"},
         NEW k \in 1 .. NumChunks[r], Delivered(r, k)
  PROVE  Delivered(r, k)'
<1>1. /\ dpages \in [Room -> Seq(DPage)] /\ mem \in [DPage -> (Room \cup {None}) \X Nat]
      /\ NumChunks[r] \in Nat /\ Len(dpages[r]) = NumChunks[r]
  BY PDAssumption, Zenon DEF MInv, TInv, IInv, DSlotsInv, DTyped, ChunksRight, RoomsRight,
     PagesSized
<1>2. dpages[r] \in Seq(DPage) /\ k \in DOMAIN dpages[r] /\ dpages[r][k] \in DPage
  BY <1>1
<1>3. CASE UNCHANGED mem
  BY <1>3, Zenon DEF Delivered
<1>4. ASSUME NEW q \in Room, NEW j,
             dstage[q] = "transfer", dpages[q] \in Seq(DPage),
             j \in 1 .. NumChunks[q], Len(dpages[q]) = NumChunks[q],
             mem' = [mem EXCEPT ![dpages[q][j]] = <<q, j>>]
      PROVE  Delivered(r, k)'
  <2>1. NumChunks[q] \in Nat /\ j \in DOMAIN dpages[q] /\ dpages[q][j] \in DPage
    BY <1>4, PDAssumption
  <2>2. CASE dpages[q][j] # dpages[r][k]
    BY <1>1, <1>2, <1>4, <2>2, Zenon DEF Delivered
  <2>3. CASE dpages[q][j] = dpages[r][k]
    <3>1. q = r
      BY <1>2, <2>1, <2>3, Zenon DEF MInv, TInv, IInv, PagesExclusive
    <3>2. j = k
      BY <1>2, <2>1, <2>3, <3>1, Zenon DEF MInv, TInv, IInv, PagesExclusive, Distinct
    <3> QED BY <1>1, <1>2, <1>4, <3>1, <3>2, Zenon DEF Delivered
  <2> QED BY <2>2, <2>3, Zenon
<1> QED BY <1>3, <1>4, MemoryMoves, Zenon

\* A chunk on its way to a request whose place is known goes on to the worker, and
\* then to its page, unless the session fails.
LEMMA ChunkAdvances ==
  ASSUME MInv, ChunksRight, RoomsRight, TransferIntact, ~overtaken, PNext, UNCHANGED dpages,
         NEW r \in Room, pstage[r] # "done", ~badSession, ~badSession',
         NEW k, HasChunk(r, k)
  PROVE  HasChunk(r, k)' \/ Delivered(r, k)'
<1>0. /\ queue \in Seq(KVChunk) /\ Listed(queue)' = Listed(queue')
      /\ worker \in [pc : WorkerPc, chunk : KVChunk \cup {None}, info : Info \cup {EmptyInfo, None}]
  BY Zenon DEF MInv, TInv, ChunksTyped, Listed
<1>k. Queued(r) \/ Looking(r) => Known(r)
  <2> SUFFICES ASSUME Queued(r) \/ Looking(r) PROVE Known(r)
    OBVIOUS
  <2> QED BY Zenon DEF RoomsRight, InfoRight, MInv, TInv, ChunksInOrder, Looking, AtWorker
<1>1. CASE \E c \in Listed(queue) : c.room = r /\ c.k = k
  <2>1. PICK c \in Listed(queue) : c.room = r /\ c.k = k
    BY <1>1, Zenon
  <2>2. Known(r)
    BY <1>k, <2>1, Zenon DEF Queued
  <2>3. CASE WorkerGets
    <3>1. /\ queue # <<>> /\ queue' = Tail(queue)
          /\ worker' = [pc |-> IF transferInfos[Head(queue).room] = None THEN "check" ELSE "look",
                        chunk |-> Head(queue), info |-> None]
      BY <2>3, Zenon DEF WorkerGets
    <3>2. Listed(queue) = Listed(Tail(queue)) \cup {Head(queue)}
      BY <1>0, <3>1, TakeFromSeq, Zenon
    <3>3. CASE c \in Listed(queue')
      BY <1>0, <2>1, <3>3 DEF HasChunk
    <3>4. CASE c = Head(queue)
      <4>1. worker'.pc = "look" /\ worker'.chunk = c
        BY <2>1, <2>2, <3>1, <3>4, Zenon DEF Known
      <4> QED BY <2>1, <4>1, Zenon DEF HasChunk
    <3> QED BY <3>1, <3>2, <3>3, <3>4, Zenon
  <2>4. CASE ~WorkerGets
    <3>1. UNCHANGED queue \/ \E q \in Room : PrefillChunk(q)
      <4>1. ASSUME NEW q \in Room, NEW why,
                   \/ PArrive(q) \/ BootstrapFailed(q, why) \/ Bootstrapped(q) \/ TransferEnded(q, why)
                   \/ PAbort(q)
            PROVE  UNCHANGED queue
        BY <4>1, Zenon DEF PArrive, BootstrapFailed, Bootstrapped, TransferEnded, PAbort
      <4>2. ASSUME Registered \/ MetadataArrives \/ MetadataStored \/ Probe \/ Crash
            PROVE  UNCHANGED queue
        BY <4>2, Zenon DEF Registered, MetadataArrives, MetadataStored, Probe, Crash
      <4>3. ASSUME Worker PROVE UNCHANGED queue
        BY <2>4, <4>3, Zenon DEF Worker, WorkerSends, WorkerPops, WorkerLooks, WorkerSendsAux,
           WorkerChecks, WorkerReadsStatus, WorkerOwns
      <4> QED BY <4>1, <4>2, <4>3, Zenon DEF PNext, PScheduler
    <3>2. ASSUME NEW q \in Room, PrefillChunk(q) PROVE c \in Listed(queue')
      BY <2>1, <3>2, ForwardPass DEF ChunksRight, MInv
    <3> QED BY <1>0, <2>1, <3>1, <3>2, Zenon DEF HasChunk
  <2> QED BY <2>3, <2>4, Zenon
<1>2. CASE worker.pc \in {"look", "send"} /\ worker.chunk.room = r /\ worker.chunk.k = k
  <2>1. CASE UNCHANGED worker
    BY <1>2, <2>1, Zenon DEF HasChunk
  <2>2. CASE WorkerLooks
    <3>1. worker' = [worker EXCEPT !.pc = "send", !.info = transferInfos[r]]
      BY <1>2, <2>2, <1>k, Zenon DEF WorkerLooks, Known, At, Looking
    <3> QED BY <1>2, <1>0, <3>1, Zenon DEF HasChunk
  <2>3. CASE WorkerSends
    <3>1. SendSucceeds(worker.chunk) /\ up /\ worker.pc = "send"
      BY <2>3, Zenon DEF WorkerSends, At, SendFails
    <3>2. /\ dstage[r] = "transfer" /\ held[r] /\ dpages[r] \in Seq(DPage)
          /\ worker.info.pages = dpages[r]
          /\ k \in 1 .. NumChunks[r] /\ Len(dpages[r]) = NumChunks[r]
      BY <1>2, <3>1, SentFacts, Zenon
    <3>3. mem' = [mem EXCEPT ![dpages[r][k]] = <<r, k>>]
      BY <1>2, <3>1, <3>2, Zenon DEF SendSucceeds, Sent
    <3>4. dpages[r][k] \in DPage /\ mem \in [DPage -> (Room \cup {None}) \X Nat]
      BY <3>2, PDAssumption DEF ChunksRight
    <3> QED BY <3>3, <3>4, Zenon DEF Delivered
  <2> QED BY <1>2, <2>1, <2>2, <2>3, WorkerMoves, Zenon DEF Worker, WorkerGets, WorkerSendsAux, WorkerChecks,
            WorkerReadsStatus, WorkerOwns, WorkerPops, At
<1> QED BY <1>1, <1>2, Zenon DEF HasChunk

\* The prefill server writes no page but those of the transfers in progress, and
\* reports a success when all of the KV has arrived.
LEMMA PrefillKeepsIntact ==
  ASSUME MInv, ChunksRight, RoomsRight, TransferIntact, PNext, Prefills
  PROVE  TransferIntact'
<1> SUFFICES ASSUME ~overtaken' PROVE /\ (worker.pc \in {"send", "aux"} => pstage[worker.chunk.room] # "done")'
                                      /\ \A r \in Room : RoomIntact(r)'
                                      /\ (corrupt = {})'
  BY Zenon DEF TransferIntact
<1>0. ~overtaken /\ \A r \in Room : ~PrefillGaveUp(r) /\ ~Readmitted(r)
  BY Zenon DEF Prefills, Overtaking
<1>1. /\ worker.pc \in {"send", "aux"} => pstage[worker.chunk.room] # "done"
      /\ \A r \in Room : RoomIntact(r)
      /\ corrupt = {}
  BY <1>0, Zenon DEF TransferIntact
<1>2. UNCHANGED <<dstage, dpages, dslot, corrupt>>
  BY Zenon DEF Prefills, dvars, dqueues
<1>n. Next /\ TInv /\ held \in [Room -> BOOLEAN]
  BY Zenon DEF Next, MInv, ChunksRight
<1>t. worker \in [pc : WorkerPc, chunk : KVChunk \cup {None}, info : Info \cup {EmptyInfo, None}]
  BY Zenon DEF MInv, TInv, ChunksTyped
\* the request of a write in progress stays
<1>3. (worker.pc \in {"send", "aux"} => pstage[worker.chunk.room] # "done")'
  <2> SUFFICES ASSUME worker'.pc \in {"send", "aux"} PROVE pstage'[worker'.chunk.room] # "done"
    OBVIOUS
  <2>1. worker.pc \notin {"get", "dead"} /\ worker'.chunk = worker.chunk
    BY <1>n, ChunkMoves, Zenon
  <2>2. PICK q \in Room : q = worker.chunk.room
    BY <2>1, Zenon DEF MInv, TInv, ChunksTyped, KVChunk
  <2>3. pstage[q] \in {"chunked", "inflight", "done"}
    BY <2>1, <2>2, Zenon DEF ChunksRight, ChunkOf
  <2>4. CASE worker.pc \in {"send", "aux"}
    <3>1. pstage[q] # "done"
      BY <1>1, <2>2, <2>4, Zenon
    <3>2. ASSUME pstage'[q] = "done" PROVE FALSE
      <4>1. ~PrefillChunk(q)
        BY <1>n, <3>2, ForwardPass, Zenon
      <4>2. pstage[q] = "inflight" /\ ~held'[q]
        BY <1>n, <2>3, <3>1, <3>2, <4>1, RoomMoves, Zenon
      <4>3. held[q]
        BY <4>2, Zenon DEF RoomsRight, RoomRight
      <4> QED BY <1>0, <2>2, <2>4, <4>2, <4>3, Zenon DEF PrefillGaveUp
    <3> QED BY <2>1, <2>2, <3>2, Zenon
  <2>5. CASE worker.pc \notin {"send", "aux"}
    <3>1. ASSUME NEW p, worker' = [worker EXCEPT !.pc = p] PROVE worker'.pc = p
      BY <1>t, <3>1, Zenon
    <3>2. WorkerLooks
      <4>1. worker' # worker
        BY <2>5, Zenon
      <4>2. Idle.pc = "get" /\ DeadWorker.pc = "dead"
        BY Zenon DEF Idle, DeadWorker
      <4>3. CASE WorkerChecks \/ WorkerReadsStatus \/ WorkerOwns \/ WorkerPops
        <5>1. \/ worker' \in {Idle, DeadWorker}
              \/ \E p \in {"owned", "status", "pop"} : worker' = [worker EXCEPT !.pc = p]
          BY <4>3, Zenon DEF WorkerChecks, WorkerReadsStatus, WorkerOwns, WorkerPops, Goto
        <5> QED BY <3>1, <4>2, <5>1, Zenon
      <4>4. ~WorkerGets /\ ~WorkerSends /\ ~WorkerSendsAux
        BY <2>1, <2>5, Zenon DEF WorkerGets, WorkerSends, WorkerSendsAux, At
      <4> QED BY <4>1, <4>3, <4>4, WorkerMoves, Zenon DEF Worker
    <3>3. worker.pc = "look" /\ UNCHANGED pstage
      BY <3>2, Zenon DEF WorkerLooks, At, queues
    <3>4. transferInfos[q] # None
      BY <2>2, <3>2, Zenon DEF WorkerLooks, DeadWorker, Idle
    <3>5. pstage[q] # "done"
      BY <2>2, <3>3, <3>4, Zenon DEF RoomsRight, InfoRight, Looking
    <3> QED BY <2>1, <2>2, <3>3, <3>5, Zenon
  <2> QED BY <2>4, <2>5, Zenon
<1>4. ASSUME NEW r \in Room PROVE RoomIntact(r)'
  <2>0. RoomIntact(r) /\ RoomRight(r) /\ InfoRight(r) /\ PagesSized(r)
    BY <1>1, Zenon DEF RoomsRight
  <2>n. prefilled[r] \in Nat /\ NumChunks[r] \in Nat
    BY PDAssumption, Zenon DEF MInv, TInv, ChunksTyped
  <2>u. Unsent(r)' => Unsent(r)
    BY <1>n, UnsentForGood, Zenon
  \* a failure that the scheduler has not polled is one of the session
  <2>1. (pstatus[r] = Failed /\ pstage[r] = "chunked" => badSession)'
    <3> SUFFICES ASSUME pstatus'[r] = Failed, pstage'[r] = "chunked", ~badSession' PROVE FALSE
      BY Zenon DEF ChunksRight
    <3>1. CASE pstatus[r] = Failed
      <4>1. pstage[r] # "waiting"
        BY <1>n, <3>1, PollValues, Zenon DEF TInv, PStatusRight, PStatusOf
      <4>2. pstage[r] = "chunked"
        BY <1>n, <4>1, RoomMoves, ForwardPass, Zenon
      <4>3. badSession /\ prefilled[r] > 0 /\ Unsent(r)
        BY <2>0, <3>1, <4>2, WorkerMoves, Zenon DEF RoomIntact, RoomRight, Unsent
      <4> QED BY <1>0, <4>3, Zenon DEF Readmitted
    <3> QED BY <1>n, <3>1, FailedMoves, Zenon
  <2>2. (~badSession /\ Unsent(r) /\ Told(r) => dstage[r] = "transfer")'
    <3> SUFFICES ASSUME ~badSession', Unsent(r)', Told(r)' PROVE dstage[r] = "transfer"
      BY <1>2, Zenon
    <3>1. Unsent(r) /\ Told(r)
      BY <1>n, <2>u, ToldMoves, Zenon
    <3>2. CASE ~badSession
      BY <2>0, <3>1, <3>2, Zenon DEF RoomIntact
    <3>3. CASE badSession
      <4>1. prefilled[r] = 0 /\ dstage[r] # "done"
        BY <1>0, <2>n, <3>1, <3>3 DEF Readmitted
      <4>2. pstage[r] # "done"
        <5>1. Queued(r) \/ AtWorker(r) => prefilled[r] > 0
          BY <2>n DEF Queued, AtWorker, ChunksRight, ChunkOf
        <5> QED BY <3>1, <4>1, <5>1, UnsentMeans
      <4>3. ~Unannounced(r)
        BY <1>n, <3>1, <4>2, ToldIsAnnounced, Zenon DEF RoomsRight
      <4>4. dstage[r] \in {"transfer", "running"}
        BY <4>1, <4>3, Zenon DEF Unannounced, MInv, TInv, IInv, DSlotsInv, DTyped, DStage
      <4> QED BY <2>0, <3>1, <4>4, Zenon DEF PagesSized
    <3> QED BY <3>2, <3>3, Zenon

  \* the chunks computed are in the pages or on their way
  <2>3. (~badSession /\ worker.pc # "dead" /\ Unsent(r) /\ dstage[r] = "transfer" /\ pstage[r] # "done" =>
           \A k \in 1 .. prefilled[r] : Delivered(r, k) \/ HasChunk(r, k))'
    <3> SUFFICES ASSUME ~badSession', worker'.pc # "dead", Unsent(r)', dstage[r] = "transfer",
                        pstage'[r] # "done", NEW k \in 1 .. prefilled'[r]
                 PROVE  Delivered(r, k)' \/ HasChunk(r, k)'
      BY <1>2, Zenon
    <3>1. Unsent(r) /\ worker.pc # "dead"
      BY <1>n, <2>u, ChunkMoves, Zenon
    <3>2. pstage[r] # "done"
      BY <1>n, RoomMoves, ForwardPass, Zenon
    <3>3. CASE badSession
      <4>1. prefilled[r] = 0
        BY <1>0, <2>n, <3>1, <3>3 DEF Readmitted
      <4>2. prefilled'[r] = 0
        BY <3>3, <4>1, SessionMoves, Zenon DEF queues
      <4> QED BY <4>2
    <3>4. CASE ~badSession
      <4>1. CASE k \in 1 .. prefilled[r]
        <5>1. Delivered(r, k) \/ HasChunk(r, k)
          BY <2>0, <3>1, <3>2, <3>4, <4>1, Zenon DEF RoomIntact
        <5>2. CASE Delivered(r, k)
          <6>1. pstage[r] \in PStage
            BY Zenon DEF MInv, TInv, IInv, PSlotsInv, PTyped
          <6>2. prefilled[r] <= NumChunks[r]
            BY <2>0, <2>n, <3>2, <6>1 DEF RoomRight, PStage
          <6>3. k \in 1 .. NumChunks[r]
            BY <2>n, <4>1, <6>2
          <6> QED BY <1>0, <1>2, <5>2, <6>3, DeliveredStays, Zenon
        <5>3. CASE HasChunk(r, k)
          BY <1>0, <1>2, <3>2, <3>4, <5>3, ChunkAdvances, Zenon
        <5> QED BY <5>1, <5>2, <5>3, Zenon
      <4>2. CASE PrefillChunk(r) /\ k = prefilled[r] + 1
        <5>1. pstage[r] \in {"waiting", "chunked"}
          BY <1>n, <4>2, ForwardPass, Zenon
        <5>2. pstatus[r] = WaitingForInput
          BY <1>n, <2>0, <3>4, <5>1, Zenon DEF TInv, PStatusRight, PStatusOf, RoomIntact
        <5>3. transferInfos[r] # None
          BY <2>0, <5>1, Zenon DEF InfoRight, Known
        <5>4. NextChunk(r) \in Listed(queue')
          BY <1>n, <4>2, <5>2, <5>3, ForwardPass, PollValues, Zenon
        <5>5. NextChunk(r).room = r /\ NextChunk(r).k = k
          BY <4>2, Zenon DEF NextChunk
        <5>6. Listed(queue)' = Listed(queue')
          BY Zenon DEF Listed
        <5> QED BY <5>4, <5>5, <5>6, Zenon DEF HasChunk
      <4>3. prefilled'[r] = prefilled[r] \/ (PrefillChunk(r) /\ prefilled'[r] = prefilled[r] + 1)
        BY <1>n, RoomMoves, ForwardPass, Zenon
      <4> QED BY <2>n, <4>1, <4>2, <4>3
    <3> QED BY <3>3, <3>4, Zenon DEF ChunksRight
  \* what has arrived stays
  <2>4. OwnKV(r) /\ dstage[r] \in {"transfer", "running"} => OwnKV(r)'
    <3> SUFFICES ASSUME OwnKV(r), dstage[r] \in {"transfer", "running"}, NEW k \in 1 .. NumChunks[r]
                 PROVE  Delivered(r, k)'
      BY Zenon DEF OwnKV, Delivered
    <3>1. Delivered(r, k)
      BY Zenon DEF OwnKV, Delivered
    <3> QED BY <1>0, <1>2, <3>1, DeliveredStays, Zenon
  <2>5. (Succeeded(r) /\ dstage[r] = "transfer" => OwnKV(r) /\ dbuf[dslot[r]] = r)'
    <3> SUFFICES ASSUME Succeeded(r)', dstage[r] = "transfer"
                 PROVE  OwnKV(r)' /\ dbuf'[dslot[r]] = r
      BY <1>2, Zenon
    <3>d. dbuf \in [DSlot -> Room \cup {None}] /\ dslot[r] \in DSlot
      BY Zenon DEF MInv, TInv, ChunksTyped, IInv, DSlotsInv, DTyped
    <3>1. CASE Succeeded(r)
      <4>1. OwnKV(r)' /\ dbuf[dslot[r]] = r /\ ~AtWorker(r)
        BY <1>n, <2>0, <2>4, <3>1, Zenon DEF RoomIntact, TInv, ReportsInOrder
      <4>2. CASE UNCHANGED dbuf
        BY <4>1, <4>2, Zenon
      <4>3. CASE WorkerSendsAux /\ SendAux(worker.chunk)
        <5>1. up /\ worker.pc = "aux" /\ ~badSession
          BY <4>3, Zenon DEF WorkerSendsAux, At, ChunksRight
        <5>2. PICK q \in Room : AtWorker(q) /\ worker.info.slot = dslot[q] /\ dslot[q] \in DSlot
          BY <1>0, <5>1, SentFacts, Zenon
        <5>3. q # r
          BY <4>1, <5>2, Zenon
        <5>4. dslot[q] # dslot[r]
          BY <3>d, <5>2, <5>3, NoneIsNoIndex, Zenon DEF MInv, TInv, IInv, DSlotsInv, Exclusive
        <5>5. dbuf' = [dbuf EXCEPT ![dslot[q]] = pbuf[worker.chunk.slot]]
          BY <4>3, <5>2, Zenon DEF SendAux
        <5>6. dbuf'[dslot[r]] = dbuf[dslot[r]]
          BY <3>d, <5>4, <5>5, Zenon
        <5> QED BY <4>1, <5>6, Zenon
      <4>4. UNCHANGED dbuf \/ (WorkerSendsAux /\ SendAux(worker.chunk))
        BY Zenon DEF PNext, PScheduler, PArrive, BootstrapFailed, Bootstrapped, TransferEnded, PAbort,
           PrefillChunk, Registered, MetadataArrives, MetadataStored, Probe, Crash, Worker, WorkerSends,
           WorkerGets, WorkerLooks, WorkerSendsAux, WorkerChecks, WorkerReadsStatus, WorkerOwns,
           WorkerPops, shared
      <4> QED BY <4>2, <4>3, <4>4, Zenon
    <3>2. CASE Finishes(r)
      <4>1. /\ up /\ worker.pc = "aux" /\ ~badSession /\ worker.chunk.room = r
            /\ dbuf' = [dbuf EXCEPT ![worker.info.slot] = pbuf[worker.chunk.slot]]
        BY <3>2, Zenon DEF Finishes, WorkerSendsAux, SendAux, At, ChunksRight
      <4>2. /\ AtWorker(r) /\ Unsent(r) /\ worker.info.slot = dslot[r] /\ worker.chunk.slot = pslot[r]
        BY <1>0, <4>1, SentFacts, Zenon
      <4>3. worker.chunk.last /\ ~Queued(r) /\ pstage[r] = "inflight"
        BY <1>1, <1>n, <4>1, Zenon DEF TInv, ChunksInOrder
      <4>4. prefilled[r] = NumChunks[r] /\ pbuf[pslot[r]] = r
        BY <2>0, <4>3, Zenon DEF RoomRight
      <4>5. \A k \in 1 .. NumChunks[r] : Delivered(r, k)
        <5>1. \A k \in 1 .. prefilled[r] : Delivered(r, k) \/ HasChunk(r, k)
          BY <2>0, <4>1, <4>2, <4>3, Zenon DEF RoomIntact
        <5>2. \A k \in 1 .. prefilled[r] : ~HasChunk(r, k)
          BY <4>1, <4>3, Zenon DEF HasChunk, Queued
        <5> QED BY <4>4, <5>1, <5>2, Zenon
      <4>6. OwnKV(r)'
        BY <2>4, <4>5, Zenon DEF OwnKV, Delivered
      <4>7. dbuf'[dslot[r]] = r
        BY <3>d, <4>1, <4>2, <4>4, Zenon
      <4> QED BY <4>6, <4>7, Zenon
    <3> QED BY <1>n, <3>1, <3>2, ReportsStep, Zenon
  <2>6. (dstage[r] = "running" => OwnKV(r))'
    BY <1>2, <2>0, <2>4, Zenon DEF RoomIntact
  <2> QED BY <2>1, <2>2, <2>3, <2>5, <2>6, Zenon DEF RoomIntact
<1>5. corrupt' = {}
  BY <1>1, <1>2, Zenon
<1> QED BY <1>3, <1>4, <1>5, Zenon

\* the invariant of the content
KInv == MInv /\ ChunksRight /\ RoomsRight /\ TransferIntact

\* It holds before any request.
LEMMA InitKInv == Init => KInv
<1> SUFFICES ASSUME Init PROVE KInv
  OBVIOUS
<1>1. MInv
  BY InitMInv, Zenon
<1> USE DEF Init, CommonInit, PInit, DInit
<1>2. Listed(queue) = {} /\ worker.pc = "get"
  BY DEF Listed, Idle
<1>3. ChunksRight
  BY <1>2, Zenon DEF ChunksRight, DPage, Junk
<1>4. RoomsRight
  BY <1>2, PollValues, Zenon DEF RoomsRight, RoomRight, InfoRight, PagesSized
<1>5. TransferIntact
  <2> SUFFICES ASSUME NEW r \in Room PROVE RoomIntact(r)
    BY <1>2, Zenon DEF TransferIntact
  <2>1. pstatus[r] # Failed /\ dstage[r] = "none" /\ pstage[r] = "none" /\ prefilled[r] = 0
    BY PollValues, Zenon
  <2>2. ~Told(r)
    BY <2>1, PollValues DEF Told, InFlight, Listed, Listening
  <2> QED BY <2>1, <2>2, Zenon DEF RoomIntact
<1> QED BY <1>1, <1>3, <1>4, <1>5, Zenon DEF KInv

\* A step that leaves the prefill server alone leaves what is said of it true.
LEMMA PrefillStays ==
  ASSUME UNCHANGED <<pvars, mem>>, overtaken' \in BOOLEAN, ChunksRight
  PROVE  /\ ChunksRight'
         /\ \A r \in Room : (RoomRight(r) => RoomRight(r)') /\ (InfoRight(r) => InfoRight(r)')
<1>1. UNCHANGED <<pstage, pstatus, transferInfos, prefilled, held, pslot, pbuf, queue, worker,
                  badSession, mem>>
  BY Zenon DEF pvars, queues, tables, threads
<1>2. /\ Listed(queue)' = Listed(queue) /\ (\A c : ChunkOf(c)' <=> ChunkOf(c))
      /\ ChunkOf(worker.chunk)' <=> ChunkOf(worker.chunk)
  BY <1>1, Zenon DEF Listed, ChunkOf
<1>3. /\ \A r : (Queued(r)' <=> Queued(r)) /\ (Looking(r)' <=> Looking(r)) /\ (Known(r)' <=> Known(r))
      /\ Queued(worker.chunk.room)' <=> Queued(worker.chunk.room)
  BY <1>1, <1>2, Zenon DEF Queued, Looking, Known
<1>4. ASSUME NEW r \in Room PROVE (RoomRight(r) => RoomRight(r)') /\ (InfoRight(r) => InfoRight(r)')
  BY <1>1, <1>3, Zenon DEF RoomRight, InfoRight
<1> QED BY <1>1, <1>2, <1>3, <1>4, Zenon DEF ChunksRight

\* Every step of either server keeps it.
LEMMA KStep == KInv /\ [Next]_vars => KInv'
<1> SUFFICES ASSUME KInv, [Next]_vars PROVE KInv'
  OBVIOUS
<1>0. MInv /\ TInv /\ ChunksRight /\ RoomsRight /\ TransferIntact /\ held \in [Room -> BOOLEAN]
  BY Zenon DEF KInv, MInv, ChunksRight
<1>1. MInv'
  BY <1>0, MStep, Zenon
<1>2. CASE PNext /\ Prefills
  <2>1. ASSUME NEW r \in Room PROVE RoomRight(r)' /\ InfoRight(r)' /\ PagesSized(r)'
    BY <1>0, <1>2, RoomRightStep, InfoRightStep, PagesSizedStep, Zenon DEF RoomsRight, Next
  <2> QED BY <1>1, <1>0, <1>2, ChunksRightStep, <2>1, PrefillKeepsIntact, Zenon DEF KInv,
             RoomsRight, Prefills
<1>3. CASE DNext(up) /\ Decodes
  <2>1. ChunksRight' /\ \A r \in Room : RoomRight(r)' /\ InfoRight(r)'
    BY <1>0, <1>3, DecodeWritesNothing, PrefillStays, Zenon DEF RoomsRight, Decodes, Overtaking,
       ChunksRight
  <2> QED BY <1>1, <2>1, <1>0, <1>3, PagesSizedStep, DecodeKeepsIntact, Zenon DEF KInv, RoomsRight,
             Next
<1>4. CASE UNCHANGED vars
  <2>1. /\ UNCHANGED <<pvars, mem, dbuf, overtaken, toPrefill, toDecode>>
        /\ UNCHANGED <<dstage, dpages, dslot, dstatus, listener, corrupt>>
    BY <1>4, Zenon DEF vars, shared, dvars, dqueues, dtables, dthreads
  <2>2. UNCHANGED <<pstage, pstatus, prefilled, queue, worker, receiver, badSession, up>>
    BY <2>1, Zenon DEF pvars, queues, tables, threads
  <2>3. \A r : Unsent(r)' <=> Unsent(r)
    BY <2>2, Zenon DEF Unsent
  <2>4. ASSUME NEW r \in Room, RoomIntact(r) PROVE RoomIntact(r)'
    <3>1. \A k : (Delivered(r, k)' <=> Delivered(r, k)) /\ (HasChunk(r, k)' <=> HasChunk(r, k))
      BY <2>1, <2>2, Zenon DEF Delivered, HasChunk, Listed
    <3> QED BY <2>1, <2>2, <2>3, <2>4, <3>1, Zenon DEF RoomIntact, Told, InFlight, Succeeded, OwnKV,
               Listed
  <2>5. TransferIntact'
    BY <1>0, <2>1, <2>2, <2>4, Zenon DEF TransferIntact
  <2> QED BY <1>1, <1>0, <2>1, PrefillStays, <2>3, <2>5, Zenon DEF KInv, RoomsRight, ChunksRight,
             PagesSized
<1> QED BY <1>2, <1>3, <1>4, Zenon DEF Next

\* As long as nothing of a transfer in progress is given away, and no blacklisted
\* session is readmitted during one, every request that runs has all of its own KV
\* and none finds the metadata of another (_commit_transfer_to_req), for any
\* requests, sizes of the pools and faults.
THEOREM TransferSafe == Spec => []KVIntact
<1>1. KInv => KVIntact
  BY Zenon DEF KInv, TransferIntact, RoomIntact, KVIntact
<1> QED BY <1>1, InitKInv, KStep, PTL DEF Spec

\* The gate on the metadata of a complete transfer holds no request back, and as
\* long as nothing of a transfer in progress is given away it is the request's own
\* metadata that opens it, although buffers are used again without being zeroed
\* (_apply_metadata_gate), for any requests, sizes of the pools and faults.
THEOREM GateOpens == Spec => []MetadataLanded
<1>1. KInv => MetadataLanded
  <2> SUFFICES ASSUME KInv, NEW r \in Room, dstage[r] = "transfer", DPoll(r) = Success
               PROVE  MetadataGate(r) /\ (~overtaken => dbuf[dslot[r]] = r)
    BY Zenon DEF MetadataLanded
  <2>1. Succeeded(r)
    BY PollValues, Zenon DEF KInv, MInv, Succeeded, DPoll, TInv, DStatusRight
  <2>2. MetadataGate(r)
    BY <2>1, Zenon DEF KInv, MInv, BuffersWritten, MetadataGate
  <2>3. ~overtaken => dbuf[dslot[r]] = r
    BY <2>1, Zenon DEF KInv, TransferIntact, RoomIntact
  <2> QED BY <2>2, <2>3, Zenon
<1> QED BY <1>1, InitKInv, KStep, PTL DEF Spec

----------------------------------------------------------------------------
(* Nothing is lost                                                          *)

INSTANCE FiniteSetTheorems

\* the requests with a buffer
Holders(slot) == {r \in Room : slot[r] # None}

\* every buffer is free or held
Balanced(free, slot, n) ==
  IsFiniteSet(Holders(slot)) /\ Len(free) + Cardinality(Holders(slot)) = n

\* every page is free or held
AllKept(free, pages) == \A p \in DPage : p \in Listed(free) \/ \E r \in Room : p \in Listed(pages[r])

\* A buffer taken from the free list is held (ReqToMetadataIdxAllocator.alloc).
LEMMA TakeKeepsBalance ==
  ASSUME NEW S, None \notin S, NEW free \in Seq(S), NEW slot \in [Room -> S \cup {None}],
         NEW n, Balanced(free, slot, n), free # <<>>, NEW r \in Room, slot[r] = None
  PROVE  Balanced(Tail(free), [slot EXCEPT ![r] = Head(free)], n)
<1> DEFINE slot2 == [slot EXCEPT ![r] = Head(free)]
<1>1. Head(free) \in S /\ Len(Tail(free)) = Len(free) - 1 /\ Len(free) \in Nat
  OBVIOUS
<1>2. Holders(slot2) = Holders(slot) \cup {r} /\ r \notin Holders(slot)
  BY <1>1, Zenon DEF Holders
<1>3. /\ IsFiniteSet(Holders(slot) \cup {r})
      /\ Cardinality(Holders(slot) \cup {r}) = Cardinality(Holders(slot)) + 1
      /\ Cardinality(Holders(slot)) \in Nat
  BY <1>2, FS_AddElement, FS_CardinalityType, Zenon DEF Balanced
<1> HIDE DEF slot2
<1>4. Len(Tail(free)) + Cardinality(Holders(slot2)) = n
  BY <1>1, <1>2, <1>3 DEF Balanced
<1> QED BY <1>2, <1>3, <1>4, Zenon DEF Balanced, slot2

\* A buffer given back is free (ReqToMetadataIdxAllocator.free).
LEMMA GiveKeepsBalance ==
  ASSUME NEW S, None \notin S, NEW free \in Seq(S), NEW slot \in [Room -> S \cup {None}],
         NEW n, Balanced(free, slot, n), NEW r \in Room, slot[r] # None
  PROVE  Balanced(Append(free, slot[r]), [slot EXCEPT ![r] = None], n)
<1> DEFINE slot2 == [slot EXCEPT ![r] = None]
<1>1. slot[r] \in S /\ Len(Append(free, slot[r])) = Len(free) + 1 /\ Len(free) \in Nat
  OBVIOUS
<1>2. Holders(slot2) = Holders(slot) \ {r} /\ r \in Holders(slot)
  BY Zenon DEF Holders
<1>3. /\ IsFiniteSet(Holders(slot) \ {r})
      /\ Cardinality(Holders(slot) \ {r}) = Cardinality(Holders(slot)) - 1
      /\ Cardinality(Holders(slot)) \in Nat
  BY <1>2, FS_RemoveElement, FS_CardinalityType, Zenon DEF Balanced
<1>4. Len(free) + Cardinality(Holders(slot)) = n
  BY Zenon DEF Balanced
<1> HIDE DEF slot2
<1>5. Len(Append(free, slot[r])) + Cardinality(Holders(slot2)) = n
  BY <1>1, <1>2, <1>3, <1>4
<1> QED BY <1>2, <1>3, <1>5, Zenon DEF Balanced, slot2

\* Pages taken from the free list for a request that has none are its pages
\* (_pre_alloc).
LEMMA TakeKeepsAll ==
  ASSUME NEW free \in Seq(DPage), NEW pages \in [Room -> Seq(DPage)], AllKept(free, pages),
         NEW r \in Room, pages[r] = <<>>, NEW n \in Nat, n <= Len(free)
  PROVE  AllKept(SubSeq(free, n + 1, Len(free)), [pages EXCEPT ![r] = SubSeq(free, 1, n)])
<1> DEFINE taken == SubSeq(free, 1, n)
           rest  == SubSeq(free, n + 1, Len(free))
           pages2 == [pages EXCEPT ![r] = taken]
<1>1. /\ Len(free) \in Nat /\ DOMAIN free = 1 .. Len(free)
      /\ DOMAIN taken = 1 .. n /\ \A i \in 1 .. n : taken[i] = free[i]
      /\ DOMAIN rest = 1 .. Len(free) - n /\ \A i \in 1 .. Len(free) - n : rest[i] = free[i + n]
  OBVIOUS
<1>2. pages2[r] = taken /\ \A q \in Room \ {r} : pages2[q] = pages[q]
  OBVIOUS
<1> HIDE DEF taken, rest, pages2
<1> SUFFICES ASSUME NEW p \in DPage PROVE p \in Listed(rest) \/ \E q \in Room : p \in Listed(pages2[q])
  BY Zenon DEF AllKept, taken, rest, pages2
<1>3. CASE p \in Listed(free)
  <2>1. PICK i \in 1 .. Len(free) : p = free[i]
    BY <1>1, <1>3, Zenon DEF Listed
  <2>2. CASE i <= n
    <3>1. i \in DOMAIN taken /\ taken[i] = p
      BY <1>1, <2>1, <2>2
    <3> QED BY <1>2, <3>1, Zenon DEF Listed
  <2>3. CASE i > n
    <3>1. i - n \in DOMAIN rest /\ rest[i - n] = p
      BY <1>1, <2>1, <2>3
    <3> QED BY <3>1, Zenon DEF Listed
  <2> QED BY <1>1, <2>1, <2>2, <2>3
<1>4. CASE p \notin Listed(free)
  <2>1. PICK q \in Room : p \in Listed(pages[q])
    BY <1>4, Zenon DEF AllKept
  <2> QED BY <1>2, <2>1 DEF Listed
<1> QED BY <1>3, <1>4, Zenon

\* The pages of a request that are released are free (release_kv_cache).
LEMMA GiveKeepsAll ==
  ASSUME NEW free \in Seq(DPage), NEW pages \in [Room -> Seq(DPage)], AllKept(free, pages),
         NEW r \in Room
  PROVE  AllKept(free \o pages[r], [pages EXCEPT ![r] = <<>>])
<1> DEFINE row   == pages[r]
           free2 == free \o row
           pages2 == [pages EXCEPT ![r] = <<>>]
<1> HIDE DEF row
<1>1. /\ Len(free) \in Nat /\ DOMAIN free = 1 .. Len(free) /\ Len(row) \in Nat /\ DOMAIN row = 1 .. Len(row)
      /\ DOMAIN free2 = 1 .. Len(free) + Len(row)
      /\ \A i \in 1 .. Len(free) : free2[i] = free[i]
      /\ \A i \in 1 .. Len(row) : free2[i + Len(free)] = row[i]
  OBVIOUS
<1>2. \A q \in Room \ {r} : pages2[q] = pages[q]
  OBVIOUS
<1> HIDE DEF free2, pages2
<1> SUFFICES ASSUME NEW p \in DPage PROVE p \in Listed(free2) \/ \E q \in Room : p \in Listed(pages2[q])
  BY Zenon DEF AllKept, free2, pages2, row
<1>3. CASE p \in Listed(free)
  BY <1>1, <1>3 DEF Listed
<1>4. CASE p \in Listed(row)
  <2>1. PICK i \in 1 .. Len(row) : p = row[i]
    BY <1>1, <1>4, Zenon DEF Listed
  <2> QED BY <1>1, <2>1 DEF Listed
<1>5. CASE p \notin Listed(free) /\ p \notin Listed(row)
  <2>1. PICK q \in Room : p \in Listed(pages[q])
    BY <1>5, Zenon DEF AllKept
  <2>2. q # r
    BY <1>5, <2>1, Zenon DEF row
  <2> QED BY <1>2, <2>1, <2>2, Zenon
<1> QED BY <1>3, <1>4, <1>5, Zenon

\* what the three free lists and their holders keep
LInv == IInv /\ Balanced(pfree, pslot, PSlots) /\ Balanced(dslots, dslot, DSlots) /\ AllKept(dfree, dpages)

\* It holds before any request.
LEMMA InitLInv == Init => LInv
<1> SUFFICES ASSUME Init PROVE LInv
  OBVIOUS
<1>1. IInv
  BY InitIInv, Zenon
<1> USE DEF Init, CommonInit, PInit, DInit
<1>2. ASSUME NEW n \in Nat, NEW free, NEW slot, free = [i \in 1 .. n |-> i], slot = [r \in Room |-> None]
      PROVE  Balanced(free, slot, n)
  <2>1. Holders(slot) = {}
    BY <1>2, Zenon DEF Holders
  <2>2. Len(free) = n
    BY <1>2
  <2> QED BY <2>1, <2>2, FS_EmptySet DEF Balanced
<1>3. Balanced(pfree, pslot, PSlots) /\ Balanced(dslots, dslot, DSlots)
  BY <1>2, PDAssumption, Zenon
<1>4. AllKept(dfree, dpages)
  BY Zenon DEF AllKept, Listed, DPage
<1> QED BY <1>1, <1>3, <1>4, Zenon DEF LInv

\* A step of the prefill server takes a buffer for a request without one, gives
\* one back, or leaves them all.
LEMMA PSlotMoves ==
  ASSUME PSlotsInv, PNext
  PROVE  \/ UNCHANGED <<pfree, pslot>>
         \/ \E r \in Room : /\ pslot[r] = None /\ pfree # <<>> /\ pfree' = Tail(pfree)
                            /\ pslot' = [pslot EXCEPT ![r] = Head(pfree)]
         \/ \E r \in Room : pslot[r] # None /\ ReleaseSlot(r)
<1>1. ASSUME NEW r \in Room, Bootstrapped(r)
      PROVE  /\ pslot[r] = None /\ pfree # <<>> /\ pfree' = Tail(pfree)
             /\ pslot' = [pslot EXCEPT ![r] = Head(pfree)]
  BY <1>1, Zenon DEF Bootstrapped, PSlotsInv
<1>2. ASSUME NEW r \in Room, NEW why, TransferEnded(r, why) PROVE pslot[r] # None /\ ReleaseSlot(r)
  BY <1>2, Zenon DEF TransferEnded, PSlotsInv
<1>3. ASSUME NEW r \in Room, PAbort(r)
      PROVE  (pslot[r] # None /\ ReleaseSlot(r)) \/ UNCHANGED <<pfree, pslot>>
  BY <1>3, Zenon DEF PAbort, AbortWaiting, AbortSender, PSlotsInv
<1>4. ASSUME NEW r \in Room, NEW why, PArrive(r) \/ BootstrapFailed(r, why) \/ PrefillChunk(r)
      PROVE  UNCHANGED <<pfree, pslot>>
  BY <1>4, Zenon DEF PArrive, BootstrapFailed, PrefillChunk
<1>5. CASE Registered \/ MetadataArrives \/ MetadataStored \/ Worker \/ Probe \/ Crash
  BY <1>5, Zenon DEF Registered, MetadataArrives, MetadataStored, Probe, Crash, queues, Worker,
     WorkerGets, WorkerLooks, WorkerSends, WorkerSendsAux, WorkerChecks, WorkerReadsStatus,
     WorkerOwns, WorkerPops
<1> QED BY <1>1, <1>2, <1>3, <1>4, <1>5, Zenon DEF PNext, PScheduler

\* The same of the decode server, for its buffers and its pages.
LEMMA DSlotMoves ==
  ASSUME NEW alive, DSlotsInv, PagesExclusive, DNext(alive)
  PROVE  /\ \/ UNCHANGED <<dslots, dslot>>
            \/ \E r \in Room : /\ dslot[r] = None /\ dslots # <<>> /\ dslots' = Tail(dslots)
                               /\ dslot' = [dslot EXCEPT ![r] = Head(dslots)]
            \/ \E r \in Room : dslot[r] # None /\ ReleaseBuffer(r)
         /\ \/ UNCHANGED <<dfree, dpages>>
            \/ \E r \in Room : dpages[r] = <<>> /\ PreAlloc(r)
            \/ \E r \in Room : ReleasePages(r)
<1> DEFINE Slots == \/ UNCHANGED <<dslots, dslot>>
                    \/ \E r \in Room : /\ dslot[r] = None /\ dslots # <<>> /\ dslots' = Tail(dslots)
                                       /\ dslot' = [dslot EXCEPT ![r] = Head(dslots)]
                    \/ \E r \in Room : dslot[r] # None /\ ReleaseBuffer(r)
           Pages == \/ UNCHANGED <<dfree, dpages>>
                    \/ \E r \in Room : dpages[r] = <<>> /\ PreAlloc(r)
                    \/ \E r \in Room : ReleasePages(r)
<1> SUFFICES Slots /\ Pages
  OBVIOUS
<1>1. /\ \A q \in Room : dslot[q] # None <=> dstage[q] = "transfer"
      /\ \A q \in Room : dpages[q] # <<>> => dstage[q] \in {"transfer", "running"}
  BY Zenon DEF DSlotsInv, PagesExclusive
<1>2. ASSUME NEW r \in Room, Preallocate(r) PROVE Slots /\ Pages
  <2>1. /\ dstage[r] = "prealloc" /\ PreAlloc(r) /\ dslots # <<>> /\ dslots' = Tail(dslots)
        /\ dslot' = [dslot EXCEPT ![r] = Head(dslots)]
    BY <1>2, Zenon DEF Preallocate
  <2> QED BY <1>1, <2>1, Zenon
<1>3. ASSUME NEW r \in Room, NEW why, TransferFailed(r, why) PROVE Slots /\ Pages
  <2>1. dstage[r] = "transfer" /\ ReleasePages(r) /\ ReleaseBuffer(r)
    BY <1>3, Zenon DEF TransferFailed
  <2> QED BY <1>1, <2>1, Zenon
<1>4. ASSUME NEW r \in Room, Commit(r) PROVE Slots /\ Pages
  BY <1>1, <1>4, Zenon DEF Commit
<1>5. ASSUME NEW r \in Room, Decoded(r) PROVE Slots /\ Pages
  BY <1>5, Zenon DEF Decoded
<1>6. ASSUME NEW r \in Room, NEW why, DArrive(r, alive) \/ HandshakeFailed(r, why) \/ DAbort(r) \/ HandshakeReady(r)
      PROVE  UNCHANGED <<dslots, dslot, dfree, dpages>>
  BY <1>6, Zenon DEF DArrive, HandshakeFailed, DAbort, HandshakeReady, dqueues
<1>7. CASE \/ ResolvePending(alive) \/ StatusArrives \/ StatusCounted \/ StatusMarked
           \/ HeartbeatOk(alive) \/ HeartbeatFailed(alive) \/ RoomChecked \/ RoomFailed
  BY <1>7, Zenon DEF ResolvePending, StatusArrives, StatusCounted, StatusMarked, HeartbeatOk,
     HeartbeatFailed, RoomChecked, RoomFailed, dqueues
<1>8. ASSUME UNCHANGED <<dslots, dslot, dfree, dpages>> PROVE Slots /\ Pages
  BY <1>8, Zenon
<1> HIDE DEF Slots, Pages
<1> QED BY <1>2, <1>3, <1>4, <1>5, <1>6, <1>7, <1>8 DEF DNext, DScheduler

\* Every step of either server keeps it.
LEMMA LStep == LInv /\ [Next]_vars => LInv'
<1> SUFFICES ASSUME LInv, [Next]_vars PROVE LInv'
  OBVIOUS
<1>0. IInv' /\ IInv /\ None \notin PSlot /\ None \notin DSlot
  BY BuffersStep, NoneIsNoIndex, Zenon DEF LInv
<1>1. PTyped /\ DTyped
  BY <1>0, Zenon DEF IInv, PSlotsInv, DSlotsInv
<1>2. ASSUME UNCHANGED <<pfree, pslot>> PROVE Balanced(pfree, pslot, PSlots)'
  BY <1>2, Zenon DEF LInv, Balanced, Holders
<1>3. ASSUME UNCHANGED <<dslots, dslot>> PROVE Balanced(dslots, dslot, DSlots)'
  BY <1>3, Zenon DEF LInv, Balanced, Holders
<1>4. ASSUME UNCHANGED <<dfree, dpages>> PROVE AllKept(dfree, dpages)'
  BY <1>4 DEF LInv, AllKept, Listed
<1>p. /\ Balanced(pfree', pslot', PSlots) => Balanced(pfree, pslot, PSlots)'
      /\ Balanced(dslots', dslot', DSlots) => Balanced(dslots, dslot, DSlots)'
      /\ AllKept(dfree', dpages') => AllKept(dfree, dpages)'
  BY Zenon DEF Balanced, Holders, AllKept, Listed
<1>5. CASE PNext /\ Prefills
  <2>1. UNCHANGED <<dslots, dslot, dfree, dpages>>
    BY <1>5, Zenon DEF Prefills, dvars, dqueues
  <2>2. ASSUME NEW r \in Room, pslot[r] = None, pfree # <<>>, pfree' = Tail(pfree),
               pslot' = [pslot EXCEPT ![r] = Head(pfree)]
        PROVE  Balanced(pfree, pslot, PSlots)'
    BY <1>0, <1>1, <1>p, <2>2, TakeKeepsBalance, Zenon DEF PTyped, LInv
  <2>3. ASSUME NEW r \in Room, pslot[r] # None, ReleaseSlot(r)
        PROVE  Balanced(pfree, pslot, PSlots)'
    BY <1>0, <1>1, <1>p, <2>3, GiveKeepsBalance, Zenon DEF PTyped, LInv, ReleaseSlot
  <2>4. Balanced(pfree, pslot, PSlots)'
    BY <1>0, <1>2, <1>5, <2>2, <2>3, PSlotMoves DEF IInv
  <2> QED BY <1>0, <1>3, <1>4, <2>1, <2>4 DEF LInv
<1>6. CASE DNext(up) /\ Decodes
  <2>1. UNCHANGED <<pfree, pslot>>
    BY <1>6, Zenon DEF Decodes, pvars, queues
  <2>2. ASSUME NEW r \in Room, dslot[r] = None, dslots # <<>>, dslots' = Tail(dslots),
               dslot' = [dslot EXCEPT ![r] = Head(dslots)]
        PROVE  Balanced(dslots, dslot, DSlots)'
    BY <1>0, <1>1, <1>p, <2>2, TakeKeepsBalance, Zenon DEF DTyped, LInv
  <2>3. ASSUME NEW r \in Room, dslot[r] # None, ReleaseBuffer(r)
        PROVE  Balanced(dslots, dslot, DSlots)'
    BY <1>0, <1>1, <1>p, <2>3, GiveKeepsBalance, Zenon DEF DTyped, LInv, ReleaseBuffer
  <2>4. Balanced(dslots, dslot, DSlots)'
    BY <1>0, <1>3, <1>6, <2>2, <2>3, DSlotMoves DEF IInv
  <2>5. ASSUME NEW r \in Room, dpages[r] = <<>>, PreAlloc(r) PROVE AllKept(dfree, dpages)'
    <3>1. NumChunks[r] \in Nat
      BY PDAssumption, Zenon
    <3> QED BY <1>1, <1>p, <2>5, <3>1, TakeKeepsAll, Zenon DEF DTyped, LInv, PreAlloc
  <2>6. ASSUME NEW r \in Room, ReleasePages(r) PROVE AllKept(dfree, dpages)'
    BY <1>1, <1>p, <2>6, GiveKeepsAll, Zenon DEF DTyped, LInv, ReleasePages
  <2>7. AllKept(dfree, dpages)'
    BY <1>0, <1>4, <1>6, <2>5, <2>6, DSlotMoves DEF IInv
  <2> QED BY <1>0, <1>2, <2>1, <2>4, <2>7 DEF LInv
<1>7. CASE UNCHANGED vars
  <2>1. UNCHANGED <<pfree, pslot, dslots, dslot, dfree, dpages>>
    BY <1>7, Zenon DEF vars, pvars, queues, dvars, dqueues
  <2> QED BY <1>0, <1>2, <1>3, <1>4, <2>1 DEF LInv
<1> QED BY <1>5, <1>6, <1>7, Zenon DEF Next

\* No abort, timeout, failed transfer or mismatch loses a metadata buffer or a KV
\* page, for any requests, sizes of the pools and faults.
THEOREM BuffersKept == Spec => []NothingLeaks
<1>1. LInv => NothingLeaks
  <2> SUFFICES ASSUME LInv PROVE NothingLeaks
    OBVIOUS
  <2>1. Listed(dfree) \cup UNION {Listed(dpages[r]) : r \in Room} = DPage
    BY DEF LInv, AllKept, Listed, IInv, DSlotsInv, DTyped
  <2> QED BY <2>1, Zenon DEF NothingLeaks, DPage, LInv, Balanced, Holders
<1> QED BY <1>1, InitLInv, LStep, PTL DEF Spec
=============================================================================
