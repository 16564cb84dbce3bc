----------------------------- MODULE PDPrefill ------------------------------
(***************************************************************************)
(* The prefill server: the scheduler's queues (disaggregation/prefill.py), *)
(* the KV manager's tables (common/conn.py) and the two threads of the     *)
(* Mooncake backend (mooncake/conn.py) that share the tables with the      *)
(* scheduler without a lock.  The threads are modelled one table access at *)
(* a time, the scheduler one request of a queue at a time.                 *)
(***************************************************************************)
EXTENDS PDCommon

VARIABLES pstage,         \* the queue each request is in
          pstatus,        \* request_status
          pconclude,      \* conclude_state of each sender
          transferInfos,  \* transfer_infos: the decode server's pages and slot
          prefilled,      \* chunks whose KV exists, curr_idx of the sender
          held,           \* whether the request still holds its KV
          pslot,          \* metadata_buffer_index
          pfree,          \* the free metadata buffers, in order
          pbuf,           \* the room in each metadata buffer
          queue,          \* the transfer queue
          worker,         \* transfer_worker: where it is, its chunk and target
          receiver,       \* bootstrap_thread: where it is and its message
          badSession,     \* whether the decode session is in failed_sessions
          up              \* whether the server is alive

queues  == <<pstage, pconclude, prefilled, held, pslot, pfree, pbuf>>
tables  == <<pstatus, transferInfos>>
threads == <<worker, receiver, badSession>>
pvars == <<queues, tables, queue, threads, up>>

Idle == [pc |-> "get", chunk |-> None, info |-> None]
Listening == [pc |-> "recv", msg |-> None]
EmptyInfo == [pages |-> <<>>, slot |-> None]

\* a thread that an exception has ended
DeadWorker == [Idle EXCEPT !.pc = "dead"]
DeadReceiver == [Listening EXCEPT !.pc = "dead"]

PInit == /\ pstage = [r \in Room |-> "none"]
         /\ pstatus = [r \in Room |-> None]
         /\ pconclude = [r \in Room |-> None]
         /\ transferInfos = [r \in Room |-> None]
         /\ prefilled = [r \in Room |-> 0]
         /\ held = [r \in Room |-> FALSE]
         /\ pslot = [r \in Room |-> None]
         /\ pfree = [i \in 1 .. PSlots |-> i]
         /\ pbuf = [i \in 1 .. PSlots |-> None]
         /\ queue = <<>>
         /\ worker = Idle
         /\ receiver = Listening
         /\ badSession = FALSE
         /\ up = TRUE

----------------------------------------------------------------------------
(* The scheduler                                                            *)

\* MooncakeKVSender.poll, without the timeout
PPoll(r) == IF pconclude[r] # None THEN pconclude[r] ELSE pstatus[r]

\* CommonKVSender.clear
PClear(r) == /\ pstatus' = [pstatus EXCEPT ![r] = None]
             /\ transferInfos' = [transferInfos EXCEPT ![r] = None]

\* release_req_to_metadata_buffer
ReleaseSlot(r) == /\ pfree' = Append(pfree, pslot[r])
                  /\ pslot' = [pslot EXCEPT ![r] = None]

\* PrefillBootstrapQueue.add: the sender is created
PArrive(r) ==
  /\ up /\ pstage[r] = "none"
  /\ pstage' = [pstage EXCEPT ![r] = "bootstrap"]
  /\ pstatus' = UpdateStatus(pstatus, r, Bootstrapping)
  /\ UNCHANGED <<shared, pconclude, transferInfos, prefilled, held, pslot, pfree,
                 pbuf, queue, threads, up>>

\* mutant: a request may wait for the decode server for ever
BootstrapTimeoutNever(r) == FALSE

\* _check_bootstrap_timeout
BootstrapTimeout(r) == "timeout" \in Faults /\ PPoll(r) = Bootstrapping

\* pop_bootstrapped, a request whose poll says Failed: because its status does,
\* because it has waited too long, or because the test hook says so.
BootstrapFailed(r, why) ==
  /\ up /\ pstage[r] = "bootstrap"
  /\ CASE why = "status"  -> PPoll(r) = Failed
       [] why = "timeout" -> BootstrapTimeout(r)
       [] why = "poll"    -> "poll" \in Faults
  /\ pstage' = [pstage EXCEPT ![r] = "done"]
  /\ pconclude' = [pconclude EXCEPT ![r] = IF @ = None THEN Failed ELSE @]
  /\ PClear(r)
  /\ UNCHANGED <<shared, prefilled, held, pslot, pfree, pbuf, queue, threads, up>>

\* pop_bootstrapped, a request the decode server is ready for
Bootstrapped(r) ==
  /\ up /\ pstage[r] = "bootstrap"
  /\ PPoll(r) \notin {None, Failed, Bootstrapping}
  /\ pfree # <<>>
  /\ pstage' = [pstage EXCEPT ![r] = "waiting"]
  /\ pslot' = [pslot EXCEPT ![r] = Head(pfree)]
  /\ pfree' = Tail(pfree)
  /\ UNCHANGED <<shared, pconclude, prefilled, held, pbuf, tables, queue, threads, up>>

\* mutant: the chunk before the last counts as the last
LastEarly(r) == prefilled[r] + 2 >= NumChunks[r]

\* is_last_chunk of the next chunk (_prepare_send_indices)
Last(r) == prefilled[r] + 1 = NumChunks[r]

\* MetadataBuffers.set_buf
SetBuf(r) == [pbuf EXCEPT ![pslot[r]] = r]

\* add_transfer_request: a chunk of a room that has failed or is gone is dropped
AddTransferRequest(c) ==
  IF pstatus[c.room] \in {None, Failed} \/ transferInfos[c.room] = None
  THEN queue ELSE Append(queue, c)

\* send_kv_chunk, MooncakeKVSender.send
SendKVChunk(r, k, last) ==
  AddTransferRequest([room |-> r, k |-> k, last |-> last, slot |-> pslot[r]])

\* The forward pass of a chunk: process_batch_result_disagg_prefill sends its
\* KV, and the last chunk's output token goes into the metadata buffer.  Any
\* waiting request may be next (schedule_policy), but only one is chunked.
PrefillChunk(r) ==
  LET k    == prefilled[r] + 1
      last == Last(r)
  IN  /\ up
      /\ \/ pstage[r] = "chunked"
         \/ pstage[r] = "waiting" /\ \A q \in Room : pstage[q] # "chunked"
      /\ pstage' = [pstage EXCEPT ![r] = IF last THEN "inflight" ELSE "chunked"]
      /\ prefilled' = [prefilled EXCEPT ![r] = k]
      /\ held' = [held EXCEPT ![r] = TRUE]
      /\ pbuf' = IF last THEN SetBuf(r) ELSE pbuf
      /\ queue' = SendKVChunk(r, k, last)
      /\ UNCHANGED <<shared, pconclude, pslot, pfree, tables, threads, up>>

\* process_disagg_prefill_inflight_queue, a request whose transfer has ended
TransferEnded(r, why) ==
  /\ up /\ pstage[r] = "inflight"
  /\ CASE why = "status" -> PPoll(r) \in {Success, Failed}
       [] why = "poll"   -> "poll" \in Faults
  /\ pstage' = [pstage EXCEPT ![r] = "done"]
  /\ pconclude' = [pconclude EXCEPT ![r] =
                     IF @ # None THEN @
                     ELSE IF why = "status" THEN PPoll(r) ELSE Failed]
  /\ held' = [held EXCEPT ![r] = FALSE]
  /\ PClear(r)
  /\ ReleaseSlot(r)
  /\ UNCHANGED <<shared, prefilled, pbuf, queue, threads, up>>

\* mutant: a waiting request is dropped with its metadata buffer
AbortWaitingKeepsBuffer(r) ==
  /\ pstage[r] = "waiting"
  /\ pstage' = [pstage EXCEPT ![r] = "done"]
  /\ pslot' = [pslot EXCEPT ![r] = None]
  /\ UNCHANGED <<pconclude, pstatus, pfree>>

\* abort_request: a request that waits for a batch is dropped where it stands,
\* its sender untouched
AbortWaiting(r) ==
  /\ pstage[r] = "waiting"
  /\ pstage' = [pstage EXCEPT ![r] = "done"]
  /\ ReleaseSlot(r)
  /\ UNCHANGED <<pconclude, pstatus>>

\* mutant: an aborted request gives its metadata buffer back at once
AbortSenderReleases(r) ==
  /\ pstage[r] \in {"bootstrap", "inflight"}
  /\ pconclude' = [pconclude EXCEPT ![r] = Failed]
  /\ pstatus' = UpdateStatus(pstatus, r, Failed)
  /\ pfree' = IF pslot[r] = None THEN pfree ELSE Append(pfree, pslot[r])
  /\ UNCHANGED <<pstage, pslot>>

\* one in the other queues has its sender aborted (CommonKVSender.abort)
AbortSender(r) ==
  /\ pstage[r] \in {"bootstrap", "inflight"}
  /\ pconclude' = [pconclude EXCEPT ![r] = Failed]
  /\ pstatus' = UpdateStatus(pstatus, r, Failed)
  /\ UNCHANGED <<pstage, pslot, pfree>>

PAbort(r) == /\ up /\ "abort" \in Faults
             /\ AbortWaiting(r) \/ AbortSender(r)
             /\ UNCHANGED <<shared, prefilled, held, pbuf, transferInfos, queue,
                            threads, up>>

\* the server dies, with the messages it has not sent yet
Crash == /\ up /\ "crash" \in Faults
         /\ up' = FALSE
         /\ \E n \in 0 .. Len(toDecode) : toDecode' = SubSeq(toDecode, 1, n)
         /\ UNCHANGED <<toPrefill, mem, dbuf, queues, tables, queue, threads>>

----------------------------------------------------------------------------
(* bootstrap_thread                                                         *)

\* the decode server registers: its session is taken off the blacklist
Registered ==
  /\ up /\ receiver.pc = "recv" /\ toPrefill # <<>> /\ Head(toPrefill) = Register
  /\ badSession' = FALSE
  /\ toPrefill' = Tail(toPrefill)
  /\ UNCHANGED <<toDecode, mem, dbuf, queues, tables, queue, worker, receiver, up>>

\* a metadata message: the first table access makes an empty entry
MetadataArrives ==
  /\ up /\ receiver.pc = "recv" /\ toPrefill # <<>> /\ Head(toPrefill) # Register
  /\ LET m == Head(toPrefill)
     IN  /\ receiver' = [pc |-> "store", msg |-> m]
         /\ transferInfos' = [transferInfos EXCEPT ![m.room] =
                                IF @ = None THEN EmptyInfo ELSE @]
  /\ toPrefill' = Tail(toPrefill)
  /\ UNCHANGED <<toDecode, mem, dbuf, queues, pstatus, queue, worker, badSession, up>>

\* the second fills it and marks the room; without an entry it raises KeyError
MetadataStored ==
  /\ up /\ receiver.pc = "store"
  /\ LET m == receiver.msg
     IN  IF transferInfos[m.room] = None
         THEN /\ receiver' = DeadReceiver
              /\ UNCHANGED tables
         ELSE /\ receiver' = Listening
              /\ transferInfos' = [transferInfos EXCEPT ![m.room] =
                                     [pages |-> m.pages, slot |-> m.slot]]
              /\ pstatus' = UpdateStatus(pstatus, m.room, WaitingForInput)
  /\ UNCHANGED <<shared, queues, queue, worker, badSession, up>>

----------------------------------------------------------------------------
(* transfer_worker                                                          *)

At(pc) == up /\ worker.pc = pc
Goto(pc) == worker' = [worker EXCEPT !.pc = pc]

\* queue.get, and whether the room is in transfer_infos
WorkerGets ==
  /\ At("get") /\ queue # <<>>
  /\ LET c == Head(queue)
     IN  worker' = [pc |-> IF transferInfos[c.room] = None THEN "check" ELSE "look",
                    chunk |-> c, info |-> None]
  /\ queue' = Tail(queue)
  /\ UNCHANGED <<shared, queues, tables, receiver, badSession, up>>

\* transfer_infos[room]: raises KeyError when the scheduler has cleared it
WorkerLooks ==
  /\ At("look")
  /\ LET i == transferInfos[worker.chunk.room]
     IN  worker' = IF i = None THEN DeadWorker
                   ELSE [worker EXCEPT !.pc = IF i = EmptyInfo THEN "check" ELSE "send",
                                       !.info = i]
  /\ UNCHANGED <<shared, queues, tables, queue, receiver, badSession, up>>

\* update_status and sync_status_to_decode_endpoint
Report(r, s) == /\ pstatus' = UpdateStatus(pstatus, r, s)
                /\ toDecode' = Append(toDecode, [room |-> r, status |-> s])

\* a session that has failed once is failed for all its chunks
SendFails(c) ==
  /\ badSession \/ "rdma" \in Faults
  /\ badSession' = TRUE
  /\ Report(c.room, Failed)
  /\ Goto("check")
  /\ UNCHANGED mem

\* The source pages may have been given away when they are read.
Sent(c) == \E kv \in {<<c.room, c.k>>} \cup (IF held[c.room] THEN {} ELSE {Junk}) :
             mem' = [mem EXCEPT ![worker.info.pages[c.k]] = kv]

\* mutant: success is reported before the metadata is written
SendSucceedsReporting(c) ==
  /\ ~badSession
  /\ Sent(c)
  /\ IF c.last THEN Report(c.room, Success) /\ Goto("aux")
     ELSE UNCHANGED <<pstatus, toDecode>> /\ Goto("check")
  /\ UNCHANGED badSession

SendSucceeds(c) ==
  /\ ~badSession
  /\ Sent(c)
  /\ Goto(IF c.last THEN "aux" ELSE "check")
  /\ UNCHANGED <<badSession, pstatus, toDecode>>

\* send_kvcache
WorkerSends ==
  /\ At("send")
  /\ SendFails(worker.chunk) \/ SendSucceeds(worker.chunk)
  /\ UNCHANGED <<toPrefill, dbuf, queues, transferInfos, queue, receiver, up>>

\* send_aux
SendAux(c) == dbuf' = [dbuf EXCEPT ![worker.info.slot] = pbuf[c.slot]]

\* the last chunk's metadata, then the status of the whole transfer
WorkerSendsAux ==
  LET c == worker.chunk
  IN  /\ At("aux")
      /\ \/ /\ "rdma" \in Faults
            /\ Report(c.room, Failed)
            /\ UNCHANGED dbuf
         \/ /\ SendAux(c)
            /\ Report(c.room, Success)
      /\ Goto("check")
      /\ UNCHANGED <<toPrefill, mem, queues, transferInfos, queue, receiver,
                     badSession, up>>

\* whether the room is in request_status
WorkerChecks ==
  /\ At("check")
  /\ Goto(IF pstatus[worker.chunk.room] = None THEN "owned" ELSE "status")
  /\ UNCHANGED <<shared, queues, tables, queue, receiver, badSession, up>>

\* check_status: raises KeyError when the scheduler has cleared the room
WorkerReadsStatus ==
  /\ At("status")
  /\ LET s == pstatus[worker.chunk.room]
     IN  worker' = IF s = None THEN DeadWorker
                   ELSE IF s = Success THEN [worker EXCEPT !.pc = "owned"] ELSE Idle
  /\ UNCHANGED <<shared, queues, tables, queue, receiver, badSession, up>>

\* whether the room is in transfer_infos
WorkerOwns ==
  /\ At("owned")
  /\ worker' = IF transferInfos[worker.chunk.room] = None THEN Idle
               ELSE [worker EXCEPT !.pc = "pop"]
  /\ UNCHANGED <<shared, queues, tables, queue, receiver, badSession, up>>

\* mutant: the worker clears the status as well
WorkerPopsStatus ==
  /\ At("pop")
  /\ worker' = IF transferInfos[worker.chunk.room] = None THEN DeadWorker ELSE Idle
  /\ transferInfos' = [transferInfos EXCEPT ![worker.chunk.room] = None]
  /\ pstatus' = [pstatus EXCEPT ![worker.chunk.room] = None]
  /\ UNCHANGED <<shared, queues, queue, receiver, badSession, up>>

\* transfer_infos.pop(room): raises KeyError when the scheduler was first
WorkerPops ==
  /\ At("pop")
  /\ worker' = IF transferInfos[worker.chunk.room] = None THEN DeadWorker ELSE Idle
  /\ transferInfos' = [transferInfos EXCEPT ![worker.chunk.room] = None]
  /\ UNCHANGED <<shared, queues, pstatus, queue, receiver, badSession, up>>

\* _run_one_probe_pass, a probe that succeeds
Probe == /\ up /\ "probe" \in Faults /\ badSession
         /\ badSession' = FALSE
         /\ UNCHANGED <<shared, queues, tables, queue, worker, receiver, up>>

Worker == \/ WorkerGets \/ WorkerLooks \/ WorkerSends \/ WorkerSendsAux
          \/ WorkerChecks \/ WorkerReadsStatus \/ WorkerOwns \/ WorkerPops

PScheduler(r) == \/ Bootstrapped(r) \/ PrefillChunk(r) \/ TransferEnded(r, "status")
                 \/ \E why \in {"status", "timeout"} : BootstrapFailed(r, why)

PNext == \/ \E r \in Room : \/ PArrive(r) \/ PAbort(r) \/ PScheduler(r)
                            \/ BootstrapFailed(r, "poll") \/ TransferEnded(r, "poll")
         \/ Registered \/ MetadataArrives \/ MetadataStored
         \/ Worker \/ Probe \/ Crash
=============================================================================
