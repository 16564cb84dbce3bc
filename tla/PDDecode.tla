------------------------------ MODULE PDDecode ------------------------------
(***************************************************************************)
(* The decode server: the scheduler's queues (disaggregation/decode.py),   *)
(* the KV manager's tables (common/conn.py), and the threads that receive  *)
(* status messages (mooncake/conn.py) and watch the prefill server's       *)
(* heartbeat.  The scheduler is modelled one request of a queue at a time. *)
(* An output takes no pages of its own and requests are not retracted; the *)
(* admission of a request reserves pages for both, as the code does.       *)
(***************************************************************************)
EXTENDS PDCommon

VARIABLES dstage,     \* the queue each request is in
          dorder,     \* the prealloc queue, in order
          dstatus,    \* request_status
          dconclude,  \* conclude_state of each receiver
          required,   \* the rooms in required_prefill_response_num_table
          ready,      \* the requests with waiting_for_input
          pending,    \* pending_reqs
          retries,    \* _ensure_retry_count of the prefill server
          infoKnown,  \* whether it is in prefill_info_table
          connected,  \* whether it is in connection_pool
          tracker,    \* addr_to_rooms_tracker of the prefill server
          dpages,     \* the KV pages of each request
          dfree,      \* the free pages, in order
          dslot,      \* metadata_buffer_index
          dslots,     \* the free metadata buffers, in order
          listener,   \* decode_thread: where it is and its room
          checker,    \* heartbeat_checker: where it is and the rooms it fails
          corrupt,    \* the requests aborted for context corruption (history)
          reserved    \* num_reserved_decode_tokens, an argument of the server

dqueues == <<dstage, dorder, ready, dpages, dfree, dslot, dslots, corrupt>>
dtables == <<dstatus, required>>
server  == <<pending, retries, infoKnown, connected, tracker>>
dthreads == <<listener, checker>>
dvars == <<dqueues, dtables, dconclude, server, dthreads>>

Hearing == [pc |-> "recv", room |-> None]
DeadListener == [Hearing EXCEPT !.pc = "dead"]
Watching == [pc |-> "watch", rooms |-> {}, room |-> None]
DeadChecker == [Watching EXCEPT !.pc = "dead"]

DInit == /\ dstage = [r \in Room |-> "none"]
         /\ dorder = <<>>
         /\ dstatus = [r \in Room |-> None]
         /\ dconclude = [r \in Room |-> None]
         /\ required = {}
         /\ ready = {}
         /\ pending = {}
         /\ retries = 0
         /\ infoKnown = FALSE
         /\ connected = FALSE
         /\ tracker = {}
         /\ dpages = [r \in Room |-> <<>>]
         /\ dfree = [p \in 1 .. DPages |-> p]
         /\ dslot = [r \in Room |-> None]
         /\ dslots = [b \in 1 .. DSlots |-> b]
         /\ listener = Hearing
         /\ checker = Watching
         /\ corrupt = {}
         /\ reserved \in Reserves

----------------------------------------------------------------------------
(* The prealloc queue                                                       *)

\* MooncakeKVReceiver.poll, without the timeout
DPoll(r) == IF dconclude[r] # None THEN dconclude[r] ELSE dstatus[r]

\* CommonKVReceiver.clear
DClear(r) == /\ dstatus' = [dstatus EXCEPT ![r] = None]
             /\ required' = required \ {r}

\* CommonKVReceiver.init for the receivers of rs: the bootstrap server is only
\* asked, and the session registered, when there is no connection yet.  A
\* receiver that has failed before stays failed.
InitReceivers(status, rs, alive) ==
  LET ok == infoKnown' /\ (connected \/ alive)
  IN  /\ connected' = (connected \/ (ok /\ rs # {}))
      /\ toPrefill' = IF connected' = connected THEN toPrefill
                      ELSE Append(toPrefill, Register)
      /\ required' = IF infoKnown' THEN required \cup rs ELSE required
      /\ dconclude' = [r \in Room |-> IF r \in rs /\ ~ok THEN Failed ELSE dconclude[r]]
      /\ dstatus' = [r \in Room |->
           IF r \notin rs THEN status[r]
           ELSE IF ~ok THEN UpdateStatus(status, r, Failed)[r]
           ELSE IF dconclude[r] = Failed THEN status[r]
           ELSE UpdateStatus(status, r, WaitingForInput)[r]]

\* DecodePreallocQueue.add
DArrive(r, alive) ==
  /\ dstage[r] = "none"
  /\ dstage' = [dstage EXCEPT ![r] = "prealloc"]
  /\ dorder' = Append(dorder, r)
  /\ tracker' = tracker \cup {r}
  /\ infoKnown' = infoKnown
  /\ InitReceivers(UpdateStatus(dstatus, r, Bootstrapping),
                   IF infoKnown THEN {r} ELSE {}, alive)
  /\ pending' = IF infoKnown THEN pending ELSE pending \cup {r}
  /\ UNCHANGED <<toDecode, mem, dbuf, ready, dpages, dfree, dslot, dslots, corrupt,
                 retries, dthreads>>

\* mutant: failed attempts are not counted
AttemptsUncounted == retries

\* the failed attempts, this one included
Attempts == retries + 1

\* _resolve_pending_reqs, _ensure_prefill_info: one attempt to learn about the
\* prefill server; pending requests that have left the queue are still pending.
ResolvePending(alive) ==
  /\ pending # {}
  /\ infoKnown' = (infoKnown \/ alive)
  /\ IF infoKnown'
     THEN /\ retries' = 0 /\ pending' = {}
          /\ InitReceivers(dstatus, pending, alive)
     ELSE LET out == Attempts >= MaxRetries
          IN  /\ retries' = IF out THEN 0 ELSE Attempts
              /\ pending' = IF out THEN {} ELSE pending
              /\ dconclude' = [r \in Room |-> IF out /\ r \in pending THEN Failed
                                              ELSE dconclude[r]]
              /\ dstatus' = [r \in Room |->
                               IF out /\ r \in pending
                               THEN UpdateStatus(dstatus, r, Failed)[r]
                               ELSE dstatus[r]]
              /\ UNCHANGED <<required, connected, toPrefill>>
  /\ UNCHANGED <<toDecode, mem, dbuf, dqueues, tracker, dthreads>>

\* _update_handshake_waiters polls only when a request is not ready or a
\* receiver has been aborted.
Polled == \E i \in DOMAIN dorder : \/ dorder[i] \notin ready
                                  \/ dconclude[dorder[i]] = Failed

Without(s, r) == SelectSeq(s, LAMBDA q : q # r)

HandshakeReady(r) ==
  /\ dstage[r] = "prealloc" /\ r \notin ready
  /\ DPoll(r) = WaitingForInput
  /\ ready' = ready \cup {r}
  /\ UNCHANGED <<shared, dstage, dorder, dpages, dfree, dslot, dslots, corrupt,
                 dtables, dconclude, server, dthreads>>

\* a failed handshake; pop_preallocated answers the request and drops it
HandshakeFailed(r, why) ==
  /\ dstage[r] = "prealloc" /\ Polled
  /\ CASE why = "status" -> DPoll(r) = Failed
       [] why = "poll"   -> "poll" \in Faults
  /\ dstage' = [dstage EXCEPT ![r] = "done"]
  /\ dorder' = Without(dorder, r)
  /\ dconclude' = [dconclude EXCEPT ![r] = Failed]
  /\ DClear(r)
  /\ UNCHANGED <<shared, ready, dpages, dfree, dslot, dslots, corrupt, server, dthreads>>

\* the requests with KV pages: in the transfer queue, waiting or in a batch
Active == {r \in Room : dstage[r] \in {"transfer", "running"}}

\* the pages that retracting the running batch would give back
Retractable(batch) == Cardinality(UNION {{dpages[r][i] : i \in DOMAIN dpages[r]} : r \in batch})

\* pop_preallocated, _allocatable_token_budgets: the prompt and the start of its
\* output fit, with room for the output of every active request and for one of the
\* running batch to end alone
Fits(r, batch) ==
  LET back == Retractable(batch)
  IN  \A need \in {NumChunks[r] + reserved, NumChunks[r] + NewPages[r] - back},
         keep \in {reserved * Cardinality(Active)}
                  \cup {NumChunks[q] + NewPages[q] - back : q \in batch} :
        need + keep <= Len(dfree)

\* the running batch is among the requests whose transfer has been committed
Admitted(r) == /\ Cardinality(Active) < DReqs
               /\ \E batch \in SUBSET {q \in Room : dstage[q] = "running"} : Fits(r, batch)

\* _pre_alloc
PreAlloc(r) == LET n == NumChunks[r]
               IN  /\ n <= Len(dfree)
                   /\ dpages' = [dpages EXCEPT ![r] = SubSeq(dfree, 1, n)]
                   /\ dfree' = SubSeq(dfree, n + 1, Len(dfree))

\* send_metadata
SendMetadata(r) == toPrefill' = Append(toPrefill, [room |-> r, pages |-> dpages'[r],
                                                   slot |-> dslot'[r]])

\* pop_preallocated for the first ready request: pages and a metadata buffer are
\* allocated and the prefill server is told.
Preallocate(r) ==
  /\ dstage[r] = "prealloc" /\ r \in ready /\ dconclude[r] # Failed
  /\ \A i, j \in DOMAIN dorder : dorder[i] = r /\ j < i => dorder[j] \notin ready
  /\ dslots # <<>> /\ Admitted(r)
  /\ dstage' = [dstage EXCEPT ![r] = "transfer"]
  /\ dorder' = Without(dorder, r)
  /\ PreAlloc(r)
  /\ dslot' = [dslot EXCEPT ![r] = Head(dslots)]
  /\ dslots' = Tail(dslots)
  /\ SendMetadata(r)
  /\ UNCHANGED <<toDecode, mem, dbuf, ready, corrupt, dtables, dconclude, server,
                 dthreads>>

----------------------------------------------------------------------------
(* The transfer queue and the running requests                              *)

\* mutant: the request keeps the pages it frees
ReleasePagesKept(r) == /\ dfree' = dfree \o dpages[r]
                       /\ UNCHANGED dpages

\* release_kv_cache
ReleasePages(r) == /\ dfree' = dfree \o dpages[r]
                   /\ dpages' = [dpages EXCEPT ![r] = <<>>]

ReleaseBuffer(r) == /\ dslots' = Append(dslots, dslot[r])
                    /\ dslot' = [dslot EXCEPT ![r] = None]

\* pop_transferred, a failed transfer
TransferFailed(r, why) ==
  /\ dstage[r] = "transfer"
  /\ CASE why = "status"  -> DPoll(r) = Failed
       [] why = "timeout" -> "timeout" \in Faults /\ DPoll(r) = WaitingForInput
       [] why = "poll"    -> "poll" \in Faults
  /\ dstage' = [dstage EXCEPT ![r] = "done"]
  /\ dconclude' = [dconclude EXCEPT ![r] = IF @ = None THEN Failed ELSE @]
  /\ DClear(r)
  /\ ReleasePages(r)
  /\ ReleaseBuffer(r)
  /\ UNCHANGED <<shared, dorder, ready, corrupt, server, dthreads>>

\* _apply_metadata_gate: a completed transfer stays in the queue while its buffer
\* is zero
MetadataGate(r) == dbuf[dslot[r]] # None

\* pop_transferred, a completed transfer: _commit_transfer_to_req aborts it when
\* the buffer names another room.
Commit(r) ==
  /\ dstage[r] = "transfer" /\ DPoll(r) = Success
  /\ MetadataGate(r)
  /\ dconclude' = [dconclude EXCEPT ![r] = Success]
  /\ DClear(r)
  /\ ReleaseBuffer(r)
  /\ IF dbuf[dslot[r]] = r
     THEN /\ dstage' = [dstage EXCEPT ![r] = "running"]
          /\ UNCHANGED <<dpages, dfree, corrupt>>
     ELSE /\ dstage' = [dstage EXCEPT ![r] = "done"]
          /\ ReleasePages(r)
          /\ corrupt' = corrupt \cup {r}
  /\ UNCHANGED <<shared, dorder, ready, server, dthreads>>

\* the request has been decoded
Decoded(r) ==
  /\ dstage[r] = "running"
  /\ dstage' = [dstage EXCEPT ![r] = "done"]
  /\ ReleasePages(r)
  /\ UNCHANGED <<shared, dorder, ready, dslot, dslots, corrupt, dtables, dconclude,
                 server, dthreads>>

\* abort_request: the receiver is aborted and the queues find out; a request
\* that has its KV ends as one that is decoded.
DAbort(r) ==
  /\ "abort" \in Faults
  /\ dstage[r] \in {"prealloc", "transfer"}
  /\ dconclude' = [dconclude EXCEPT ![r] = Failed]
  /\ dstatus' = UpdateStatus(dstatus, r, Failed)
  /\ UNCHANGED <<shared, dqueues, required, server, dthreads>>

----------------------------------------------------------------------------
(* decode_thread and the heartbeat checker                                  *)

\* a status message: a failure is recorded, a success of a known room goes on
StatusArrives ==
  /\ listener.pc = "recv" /\ toDecode # <<>>
  /\ LET m == Head(toDecode)
     IN  IF m.status = Failed
         THEN /\ dstatus' = UpdateStatus(dstatus, m.room, Failed)
              /\ UNCHANGED listener
         ELSE /\ listener' = IF dstatus[m.room] = None THEN Hearing
                             ELSE [pc |-> "count", room |-> m.room]
              /\ UNCHANGED dstatus
  /\ toDecode' = Tail(toDecode)
  /\ UNCHANGED <<toPrefill, mem, dbuf, dqueues, required, dconclude, server, checker>>

\* required_prefill_response_num_table[room]: raises KeyError when the scheduler
\* has cleared the room
StatusCounted ==
  /\ listener.pc = "count"
  /\ listener' = IF listener.room \in required THEN [listener EXCEPT !.pc = "mark"]
                 ELSE DeadListener
  /\ UNCHANGED <<shared, dqueues, dtables, dconclude, server, checker>>

StatusMarked ==
  /\ listener.pc = "mark"
  /\ dstatus' = UpdateStatus(dstatus, listener.room, Success)
  /\ listener' = Hearing
  /\ UNCHANGED <<shared, dqueues, required, dconclude, server, checker>>

\* _on_heartbeat_success
HeartbeatOk(alive) ==
  /\ checker.pc = "watch" /\ infoKnown /\ alive
  /\ tracker' = {r \in tracker : dstatus[r] # None}
  /\ UNCHANGED <<shared, dqueues, dtables, dconclude, pending, retries, infoKnown,
                 connected, dthreads>>

\* _handle_node_failure, after max_failures missed heartbeats: the server is
\* forgotten, then its rooms are failed one by one.
HeartbeatFailed(alive) ==
  /\ checker.pc = "watch" /\ infoKnown
  /\ alive => "heartbeat" \in Faults
  /\ infoKnown' = FALSE /\ connected' = FALSE /\ tracker' = {}
  /\ checker' = [pc |-> "check", rooms |-> tracker, room |-> None]
  /\ UNCHANGED <<shared, dqueues, dtables, dconclude, pending, retries, listener>>

\* room in request_status
RoomChecked ==
  /\ checker.pc = "check"
  /\ IF checker.rooms = {}
     THEN checker' = Watching
     ELSE \E r \in checker.rooms :
            checker' = [pc    |-> IF dstatus[r] = None THEN "check" ELSE "fail",
                        rooms |-> checker.rooms \ {r},
                        room  |-> IF dstatus[r] = None THEN None ELSE r]
  /\ UNCHANGED <<shared, dqueues, dtables, dconclude, server, listener>>

\* check_status(room): raises KeyError when the scheduler has cleared the room
RoomFailed ==
  /\ checker.pc = "fail"
  /\ LET s == dstatus[checker.room]
     IN  /\ checker' = IF s = None THEN DeadChecker
                       ELSE [checker EXCEPT !.pc = "check", !.room = None]
         /\ dstatus' = IF s \in {None, Success} THEN dstatus
                       ELSE UpdateStatus(dstatus, checker.room, Failed)
  /\ UNCHANGED <<shared, dqueues, required, dconclude, server, listener>>

DScheduler(r) == \/ HandshakeReady(r) \/ HandshakeFailed(r, "status")
                 \/ Preallocate(r) \/ Commit(r) \/ Decoded(r)
                 \/ \E why \in {"status", "timeout"} : TransferFailed(r, why)

DNext(alive) ==
  \/ \E r \in Room : \/ DArrive(r, alive) \/ DAbort(r) \/ DScheduler(r)
                     \/ HandshakeFailed(r, "poll") \/ TransferFailed(r, "poll")
  \/ ResolvePending(alive)
  \/ StatusArrives \/ StatusCounted \/ StatusMarked
  \/ HeartbeatOk(alive) \/ HeartbeatFailed(alive) \/ RoomChecked \/ RoomFailed
=============================================================================
