-------------------------- MODULE PDTransferProofs --------------------------
(***************************************************************************)
(* The protocol of a transfer between the servers, for any requests, sizes *)
(* of the pools and faults: the metadata of a request is sent once and     *)
(* before its chunks, its last chunk is last, a success closes its reports *)
(* and so the status of its room is, on both servers, one that the stage   *)
(* of the request expects; and when a transfer counts as complete its      *)
(* metadata buffer has been written.                                       *)
(***************************************************************************)
EXTENDS PDDisaggProofs

USE SMTT(30)

----------------------------------------------------------------------------
(* The status of a room                                                     *)

PRoom(r) == <<pstage[r], pstatus[r], pconclude[r]>>

\* A step of the prefill server moves a room from one stage to the next with a
\* status that the next one expects.
LEMMA PStatusStep ==
  ASSUME TInv, Next, NEW r \in Room
  PROVE  PStatusRight(r)'
<1>0. /\ PStatusRight(r) /\ r # None /\ None \notin Room
      /\ pstatus \in [Room -> KVPoll \cup {None}]
      /\ pstage \in [Room -> PStage] /\ pconclude \in [Room -> {None, Failed, Success}]
      /\ Untold(r)' => Untold(r)
  BY ToldForGood, PollValues, Zenon DEF TInv, IInv, PSlotsInv, PTyped, StatusTyped, DStatusRight
<1>u. \A q \in Room, v \in KVPoll : LET new == UpdateStatus(pstatus, q, v) IN
        /\ \A p \in Room \ {q} : new[p] = pstatus[p]
        /\ v = Failed => new[q] = IF pstatus[q] = None THEN None ELSE Failed
        /\ v = Bootstrapping => new[q] = IF pstatus[q] \in {None, Failed} THEN Bootstrapping
                                         ELSE pstatus[q]
        /\ v = WaitingForInput => new[q] = IF pstatus[q] = Success THEN Success
                                           ELSE WaitingForInput
        /\ v = Success => new[q] = Success
  BY <1>0, UpdateFacts
<1>1. ASSUME UNCHANGED PRoom(r) PROVE PStatusRight(r)'
  BY <1>0, <1>1, Zenon DEF PRoom, PStatusRight, PStatusOf
<1>2. CASE DNext(up) /\ Decodes
  BY <1>1, <1>2, Zenon DEF Decodes, pvars, queues, tables, PRoom
<1>3. CASE PNext /\ Prefills
  <2>1. ASSUME NEW q \in Room, PArrive(q) PROVE PStatusRight(r)'
    <3>1. CASE q # r
      BY <1>0, <1>1, <1>u, <2>1, <3>1, PollValues DEF PArrive, PRoom
    <3>2. CASE q = r
      BY <1>0, <1>u, <2>1, <3>2, PollValues DEF PArrive, PStatusRight, PStatusOf
    <3> QED BY <3>1, <3>2, Zenon
  <2>2. ASSUME NEW q \in Room, NEW why, BootstrapFailed(q, why) \/ TransferEnded(q, why)
        PROVE  PStatusRight(r)'
    <3>1. CASE q # r
      BY <1>0, <1>1, <2>2, <3>1, Zenon DEF BootstrapFailed, TransferEnded, PClear, PRoom
    <3>2. CASE q = r
      BY <1>0, <2>2, <3>2, PollValues, Zenon DEF BootstrapFailed, TransferEnded, PClear, PStatusRight, PStatusOf
    <3> QED BY <3>1, <3>2, Zenon
  <2>3. ASSUME NEW q \in Room, Bootstrapped(q) \/ PrefillChunk(q) PROVE PStatusRight(r)'
    <3>0. UNCHANGED <<pstatus, pconclude>>
      BY <2>3, Zenon DEF Bootstrapped, PrefillChunk, tables
    <3>1. CASE q # r
      BY <1>0, <1>1, <2>3, <3>0, <3>1, Zenon DEF Bootstrapped, PrefillChunk, PRoom
    <3>2. CASE q = r /\ Bootstrapped(q)
      BY <1>0, <3>0, <3>2, PollValues, Zenon DEF Bootstrapped, PStatusRight, PStatusOf, PPoll
    <3>3. CASE q = r /\ PrefillChunk(q)
      BY <1>0, <3>0, <3>3, PollValues, Zenon DEF PStatusRight, PStatusOf, PrefillChunk
    <3> QED BY <2>3, <3>1, <3>2, <3>3, Zenon
  <2>4. ASSUME NEW q \in Room, PAbort(q) PROVE PStatusRight(r)'
    <3>1. CASE q # r
      BY <1>0, <1>1, <1>u, <2>4, <3>1, PollValues DEF PAbort, AbortWaiting, AbortSender, PRoom
    <3>2. CASE q = r /\ AbortWaiting(q)
      BY <1>0, <3>2, PollValues, Zenon DEF AbortWaiting, PStatusRight, PStatusOf
    <3>3. CASE q = r /\ AbortSender(q)
      BY <1>0, <1>u, <3>3, PollValues DEF AbortSender, PStatusRight, PStatusOf
    <3> QED BY <2>4, <3>1, <3>2, <3>3, Zenon DEF PAbort
  <2>5. ASSUME MetadataStored PROVE PStatusRight(r)'
    <3>0. UNCHANGED <<pstage, pconclude, toPrefill>> /\ receiver.pc = "store" /\ receiver'.pc # "store"
      BY <2>5 DEF MetadataStored, queues, shared, DeadReceiver, Listening
    <3>a. receiver.msg.room \in Room
      BY <3>0, Zenon DEF TInv, MessagesTyped, Metadata
    <3>1. CASE receiver.msg.room # r \/ pstatus' = pstatus
      <4>1. pstatus'[r] = pstatus[r]
        BY <1>u, <2>5, <3>a, <3>1, PollValues DEF MetadataStored, tables
      <4> QED BY <1>1, <3>0, <4>1, Zenon DEF PRoom
    <3>2. CASE receiver.msg.room = r /\ pstatus' # pstatus
      <4>1. pstatus'[r] \in {WaitingForInput, Success} /\ (pstatus'[r] = Success => pstatus[r] = Success)
        BY <1>u, <2>5, <3>a, <3>2, PollValues DEF MetadataStored, tables
      <4>2. ~Untold(r)'
        BY <1>3, <3>0, <3>2, Zenon DEF Untold, Unannounced, Prefills, dvars, dqueues, server, TInv,
           MetadataOnce, InFlight, Listed
      <4> QED BY <1>0, <3>0, <4>1, <4>2, PollValues, Zenon DEF PStatusRight, PStatusOf
    <3> QED BY <3>1, <3>2, Zenon
  <2>6. ASSUME WorkerSends \/ WorkerSendsAux PROVE PStatusRight(r)'
    <3> DEFINE c == worker.chunk
    <3>0. /\ UNCHANGED <<pstage, pconclude>> /\ c.room \in Room
          /\ AtWorker(c.room)
          /\ \/ pstatus' = pstatus
             \/ pstatus' = UpdateStatus(pstatus, c.room, Failed)
             \/ pstatus' = UpdateStatus(pstatus, c.room, Success) /\ c.last
      BY <2>6, Zenon DEF WorkerSends, WorkerSendsAux, SendFails, SendSucceeds, Report, queues, At,
         AtWorker, TInv, ChunksTyped, KVChunk, ChunksInOrder
    <3>1. /\ pstage[c.room] \in {"chunked", "inflight", "done"}
          /\ pstage[c.room] = "done" => pstatus[c.room] = None
          /\ c.last => pstage[c.room] \in {"inflight", "done"}
      BY <3>0, Zenon DEF TInv, ChunksInOrder, AtWorker
    <3> HIDE DEF c
    <3>2. CASE c.room # r \/ pstatus' = pstatus
      BY <1>1, <1>u, <3>0, <3>2, PollValues DEF PRoom
    <3>3. CASE c.room = r /\ pstatus' # pstatus
      <4>1. CASE pstatus' = UpdateStatus(pstatus, c.room, Failed)
        BY <1>0, <1>u, <3>0, <3>1, <3>3, <4>1, PollValues DEF PStatusRight, PStatusOf
      <4>2. CASE pstatus' = UpdateStatus(pstatus, c.room, Success) /\ c.last
        BY <1>0, <1>u, <3>0, <3>1, <3>3, <4>2, PollValues DEF PStatusRight, PStatusOf
      <4> QED BY <3>0, <3>3, <4>1, <4>2, Zenon
    <3> QED BY <3>2, <3>3, Zenon
  <2>7. ASSUME \/ Registered \/ MetadataArrives \/ Probe \/ Crash \/ WorkerGets \/ WorkerLooks
               \/ WorkerChecks \/ WorkerReadsStatus \/ WorkerOwns \/ WorkerPops
        PROVE  PStatusRight(r)'
    BY <1>1, <2>7, Zenon DEF Registered, MetadataArrives, Probe, Crash, WorkerGets, WorkerLooks,
       WorkerChecks, WorkerReadsStatus, WorkerOwns, WorkerPops, queues, tables, PRoom
  <2> QED BY <1>3, <2>1, <2>2, <2>3, <2>4, <2>5, <2>6, <2>7, Zenon DEF PNext, PScheduler, Worker
<1> QED BY <1>2, <1>3, Zenon DEF Next

DRoom(r) == <<dstage[r], dstatus[r], dconclude[r], r \in ready, r \in pending>>

\* The same of the decode server's steps.  No failure reaches a room that has
\* left its queues, as the failures of a room come before its success, and no
\* success a room that the prefill server has not been told of.
LEMMA DStatusStep ==
  ASSUME TInv, Next, NEW r \in Room
  PROVE  DStatusRight(r)'
<1>0. /\ DStatusRight(r) /\ r # None /\ None \notin Room
      /\ dstatus \in [Room -> KVPoll \cup {None}]
      /\ dstage \in [Room -> DStage] /\ dconclude \in [Room -> {None, Failed, Success}]
      /\ ready \subseteq Room /\ pending \subseteq Room
      /\ \A m \in Listed(toDecode) : ~Untold(m.room)
      /\ \A q \in Room : dstatus[q] = Success => \A m \in Listed(toDecode) : m.room # q
      /\ \A q \in Room : Succeeded(q) => ~Untold(q)
  BY PollValues, Zenon DEF TInv, IInv, DSlotsInv, DTyped, StatusTyped, ReportsInOrder
<1>u. \A q \in Room, v \in KVPoll : LET new == UpdateStatus(dstatus, q, v) IN
        /\ new \in [Room -> KVPoll \cup {None}]
        /\ \A p \in Room \ {q} : new[p] = dstatus[p]
        /\ v = Failed => new[q] = IF dstatus[q] = None THEN None ELSE Failed
        /\ v = Bootstrapping => new[q] = IF dstatus[q] \in {None, Failed} THEN Bootstrapping
                                         ELSE dstatus[q]
        /\ v = Success => new[q] = Success
  BY <1>0, UpdateFacts
<1>1. ASSUME UNCHANGED DRoom(r) PROVE DStatusRight(r)'
  BY <1>0, <1>1, Zenon DEF DRoom, DStatusRight, DStatusOf
<1>2. CASE PNext /\ Prefills
  BY <1>1, <1>2, Zenon DEF Prefills, dvars, dqueues, dtables, server, DRoom
<1>3. CASE DNext(up) /\ Decodes
  <2>1. ASSUME NEW q \in Room, DArrive(q, up) PROVE DStatusRight(r)'
    <3> DEFINE status == UpdateStatus(dstatus, q, Bootstrapping)
               rs == IF infoKnown THEN {q} ELSE {}
    <3>1. /\ dstage[q] = "none" /\ dstage' = [dstage EXCEPT ![q] = "prealloc"]
          /\ ready' = ready /\ InitReceivers(status, rs, up)
          /\ pending' = IF infoKnown THEN pending ELSE pending \cup {q}
      BY <2>1, Zenon DEF DArrive
    <3>2. /\ status \in [Room -> KVPoll \cup {None}] /\ rs \in SUBSET Room
          /\ \A p \in Room \ {q} : status[p] = dstatus[p]
          /\ status[q] = IF dstatus[q] \in {None, Failed} THEN Bootstrapping ELSE dstatus[q]
      BY <1>u, PollValues, Zenon
    <3> HIDE DEF status
    <3>3. /\ \A p \in Room \ rs : dstatus'[p] = status[p] /\ dconclude'[p] = dconclude[p]
          /\ \A p \in rs :
              \/ /\ dconclude'[p] = Failed
                 /\ dstatus'[p] = IF status[p] = None THEN None ELSE Failed
              \/ /\ dconclude'[p] = dconclude[p] /\ dconclude[p] = Failed
                 /\ dstatus'[p] = status[p]
              \/ /\ dconclude'[p] = dconclude[p] /\ dconclude[p] # Failed
                 /\ dstatus'[p] = IF status[p] = Success THEN Success ELSE WaitingForInput
      <4> HIDE DEF rs
      <4> QED BY <1>0, <3>1, <3>2, InitReceiversFacts, ZenonT(60)
    <3>4. CASE q # r
      <4>1. dstage'[r] = dstage[r] /\ dstatus'[r] = dstatus[r] /\ dconclude'[r] = dconclude[r]
        BY <1>0, <3>1, <3>2, <3>3, <3>4, Zenon
      <4>2. (r \in ready') = (r \in ready) /\ (r \in pending') = (r \in pending)
        BY <3>1, <3>4
      <4> QED BY <1>1, <4>1, <4>2, Zenon DEF DRoom
    <3>5. CASE q = r
      <4>1. /\ dstatus[r] = None /\ dconclude[r] = None /\ r \notin ready /\ r \notin pending
            /\ dstage'[r] = "prealloc" /\ status[r] = Bootstrapping
        BY <1>0, <3>1, <3>2, <3>5, Zenon DEF DStatusRight, DStatusOf
      <4>2. CASE infoKnown
        BY <1>0, <3>1, <3>3, <3>5, <4>1, <4>2, PollValues, Zenon DEF DStatusRight, DStatusOf
      <4>3. CASE ~infoKnown
        BY <1>0, <3>1, <3>3, <3>5, <4>1, <4>3, PollValues, Zenon DEF DStatusRight, DStatusOf
      <4> QED BY <4>2, <4>3, Zenon
    <3> QED BY <3>4, <3>5, Zenon
  <2>2. ASSUME ResolvePending(up) PROVE DStatusRight(r)'
    <3>0. dstage' = dstage /\ ready' = ready /\ (r \in pending' => pending' = pending)
      BY <2>2, Zenon DEF ResolvePending, dqueues
    <3>1. \/ (r \in pending' <=> r \in pending) /\ dstatus'[r] = dstatus[r] /\ dconclude'[r] = dconclude[r]
          \/ /\ r \in pending /\ r \notin pending'
             /\ \/ /\ dconclude'[r] = Failed
                   /\ dstatus'[r] = IF dstatus[r] = None THEN None ELSE Failed
                \/ /\ dconclude'[r] = dconclude[r] /\ dconclude[r] = Failed
                   /\ dstatus'[r] = dstatus[r]
                \/ /\ dconclude'[r] = dconclude[r] /\ dconclude[r] # Failed
                   /\ dstatus'[r] = IF dstatus[r] = Success THEN Success ELSE WaitingForInput
      <4>1. CASE infoKnown'
        <5>1. InitReceivers(dstatus, pending, up) /\ pending' = {} /\ pending \in SUBSET Room
          BY <1>0, <2>2, <4>1, Zenon DEF ResolvePending
        <5>2. /\ \A q \in Room \ pending : dstatus'[q] = dstatus[q] /\ dconclude'[q] = dconclude[q]
              /\ \A q \in pending :
                   \/ /\ dconclude'[q] = Failed
                      /\ dstatus'[q] = IF dstatus[q] = None THEN None ELSE Failed
                   \/ /\ dconclude'[q] = dconclude[q] /\ dconclude[q] = Failed
                      /\ dstatus'[q] = dstatus[q]
                   \/ /\ dconclude'[q] = dconclude[q] /\ dconclude[q] # Failed
                      /\ dstatus'[q] = IF dstatus[q] = Success THEN Success ELSE WaitingForInput
          BY <1>0, <5>1, InitReceiversFacts, ZenonT(60)
        <5>3. CASE r \in pending
          BY <5>1, <5>2, <5>3, Zenon
        <5>4. CASE r \notin pending
          BY <5>1, <5>2, <5>4, Zenon
        <5> QED BY <5>3, <5>4, Zenon
      <4>2. CASE ~infoKnown'
        <5>1. UpdateStatus(dstatus, r, Failed)[r] = IF dstatus[r] = None THEN None ELSE Failed
          BY <1>u, PollValues, Zenon
        <5> QED BY <1>0, <2>2, <4>2, <5>1, Zenon DEF ResolvePending
      <4> QED BY <4>1, <4>2, Zenon
    <3>2. CASE (r \in pending' <=> r \in pending) /\ dstatus'[r] = dstatus[r] /\ dconclude'[r] = dconclude[r]
      <4>1. dstage'[r] = dstage[r] /\ (r \in ready') = (r \in ready) /\ (r \in pending') = (r \in pending)
        BY <3>0, <3>2
      <4> QED BY <1>1, <3>2, <4>1, Zenon DEF DRoom
    <3>3. CASE r \in pending /\ r \notin pending'
      <4>1. dstatus[r] # Success
        BY <1>0, <3>3, Zenon DEF Succeeded, Untold, Unannounced
      <4>2. CASE dstage[r] = "prealloc"
        BY <1>0, <3>0, <3>1, <3>3, <4>1, <4>2, PollValues, Zenon DEF DStatusRight, DStatusOf
      <4>3. CASE dstage[r] = "done" /\ dconclude[r] = Failed
        BY <1>0, <3>0, <3>1, <3>3, <4>1, <4>3, PollValues, Zenon DEF DStatusRight, DStatusOf
      <4> QED BY <1>0, <3>3, <4>2, <4>3, Zenon DEF DStatusRight
    <3> QED BY <3>1, <3>2, <3>3, Zenon
  <2>3. ASSUME NEW q \in Room, HandshakeReady(q) PROVE DStatusRight(r)'
    <3>0. /\ UNCHANGED <<dstage, dstatus, dconclude, pending>> /\ ready' = ready \cup {q}
          /\ dstage[q] = "prealloc" /\ DPoll(q) = WaitingForInput
      BY <2>3, Zenon DEF HandshakeReady, dtables, server
    <3>1. CASE q # r
      BY <1>1, <3>0, <3>1 DEF DRoom
    <3>2. CASE q = r
      BY <1>0, <3>0, <3>2, PollValues, Zenon DEF DStatusRight, DStatusOf, DPoll
    <3> QED BY <3>1, <3>2, Zenon
  <2>4. ASSUME NEW q \in Room, NEW why,
               HandshakeFailed(q, why) \/ TransferFailed(q, why) \/ Commit(q)
        PROVE  DStatusRight(r)'
    <3>0. /\ UNCHANGED <<pending, ready>> /\ dstatus' = [dstatus EXCEPT ![q] = None]
          /\ \/ dstage[q] = "prealloc" /\ dconclude' = [dconclude EXCEPT ![q] = Failed]
                /\ dstage' = [dstage EXCEPT ![q] = "done"]
             \/ dstage[q] = "transfer"
          /\ \E x : dconclude' = [dconclude EXCEPT ![q] = x]
          /\ \E s \in {"running", "done"} : dstage' = [dstage EXCEPT ![q] = s]
      BY <2>4, Zenon DEF HandshakeFailed, TransferFailed, Commit, server, DClear
    <3>1. CASE q # r
      BY <1>0, <1>1, <3>0, <3>1, Zenon DEF DRoom
    <3>2. CASE q = r
      <4>1. dstage'[r] \in {"running", "done"} /\ dstatus'[r] = None
        BY <1>0, <3>0, <3>2, Zenon
      <4>2. r \in pending => dstage'[r] = "done" /\ dconclude'[r] = Failed
        BY <1>0, <3>0, <3>2 DEF DStatusRight
      <4> QED BY <1>0, <3>0, <3>2, <4>1, <4>2, PollValues, Zenon DEF DStatusRight, DStatusOf
    <3> QED BY <3>1, <3>2, Zenon
  <2>5. ASSUME NEW q \in Room, Preallocate(q) \/ Decoded(q) PROVE DStatusRight(r)'
    <3>0. /\ UNCHANGED <<pending, ready, dstatus, dconclude>>
          /\ \/ /\ dstage[q] = "prealloc" /\ q \in ready /\ dconclude[q] # Failed
                /\ dstage' = [dstage EXCEPT ![q] = "transfer"]
             \/ dstage[q] = "running" /\ dstage' = [dstage EXCEPT ![q] = "done"]
      BY <2>5, Zenon DEF Preallocate, Decoded, server, dtables
    <3>1. CASE q # r
      BY <1>0, <1>1, <3>0, <3>1, Zenon DEF DRoom
    <3>2. CASE q = r
      BY <1>0, <3>0, <3>2, PollValues, Zenon DEF DStatusRight, DStatusOf
    <3> QED BY <3>1, <3>2, Zenon
  <2>6. ASSUME NEW q \in Room, DAbort(q) PROVE DStatusRight(r)'
    <3>0. /\ UNCHANGED <<pending, ready, dstage>> /\ dstage[q] \in {"prealloc", "transfer"}
          /\ dconclude' = [dconclude EXCEPT ![q] = Failed]
          /\ dstatus' = UpdateStatus(dstatus, q, Failed)
      BY <2>6, Zenon DEF DAbort, server, dqueues
    <3>1. CASE q # r
      BY <1>0, <1>1, <1>u, <3>0, <3>1, PollValues DEF DRoom
    <3>2. CASE q = r
      <4>1. dstatus'[r] = Failed /\ dconclude'[r] = Failed
        BY <1>0, <1>u, <3>0, <3>2, PollValues DEF DStatusRight, DStatusOf
      <4> QED BY <1>0, <3>0, <3>2, <4>1, PollValues, Zenon DEF DStatusRight, DStatusOf
    <3> QED BY <3>1, <3>2, Zenon
  <2>7. ASSUME StatusArrives PROVE DStatusRight(r)'
    <3> DEFINE m == Head(toDecode)
    <3>0. /\ UNCHANGED <<pending, ready, dstage, dconclude>> /\ toDecode # <<>>
          /\ dstatus' = dstatus \/ dstatus' = UpdateStatus(dstatus, m.room, Failed)
      BY <2>7, Zenon DEF StatusArrives, server, dqueues
    <3>1. m.room \in Room /\ m \in Listed(toDecode)
      <4>1. m \in Status /\ m \in Listed(toDecode)
        BY <3>0, TakeFromSeq DEF TInv, MessagesTyped
      <4> QED BY <4>1, Zenon DEF Status
    <3> HIDE DEF m
    <3>2. CASE m.room # r \/ dstatus' = dstatus
      BY <1>1, <1>u, <3>0, <3>1, <3>2, PollValues DEF DRoom
    <3>3. CASE m.room = r /\ dstatus' = UpdateStatus(dstatus, r, Failed)
      <4>1. dstatus'[r] = IF dstatus[r] = None THEN None ELSE Failed
        BY <1>u, <3>3, PollValues
      <4> QED BY <1>0, <3>0, <3>1, <3>3, <4>1, PollValues, Zenon DEF DStatusRight, DStatusOf,
                 DStage, Untold, Unannounced
    <3> QED BY <3>0, <3>2, <3>3, Zenon
  <2>8. ASSUME StatusMarked PROVE DStatusRight(r)'
    <3>0. /\ UNCHANGED <<pending, ready, dstage, dconclude>> /\ listener.pc = "mark"
          /\ dstatus' = UpdateStatus(dstatus, listener.room, Success)
      BY <2>8, Zenon DEF StatusMarked, server, dqueues
    <3>1. listener.room \in Room /\ ~Untold(listener.room)
      BY <1>0, <3>0, Zenon DEF TInv, MessagesTyped, Succeeded
    <3>2. CASE listener.room # r
      BY <1>1, <1>u, <3>0, <3>1, <3>2, PollValues DEF DRoom
    <3>3. CASE listener.room = r
      BY <1>0, <3>0, <3>1, <3>3, <1>u, PollValues, Zenon DEF DStatusRight, DStatusOf, Untold,
         Unannounced, DStage
    <3> QED BY <3>2, <3>3, Zenon
  <2>9. ASSUME RoomFailed PROVE DStatusRight(r)'
    <3>0. /\ UNCHANGED <<pending, ready, dstage, dconclude>> /\ checker.room \in Room
          /\ \/ dstatus' = dstatus
             \/ /\ dstatus[checker.room] \notin {None, Success}
                /\ dstatus' = UpdateStatus(dstatus, checker.room, Failed)
      BY <2>9, Zenon DEF RoomFailed, server, dqueues, TInv, StatusTyped
    <3>1. CASE checker.room # r \/ dstatus' = dstatus
      BY <1>1, <1>u, <3>0, <3>1, PollValues DEF DRoom
    <3>2. CASE checker.room = r /\ dstatus' # dstatus
      <4>1. dstatus'[r] = Failed /\ dstage[r] \in {"prealloc", "transfer"}
        BY <1>0, <1>u, <3>0, <3>2, PollValues DEF DStatusRight, DStatusOf, DStage
      <4> QED BY <1>0, <3>0, <4>1, PollValues, Zenon DEF DStatusRight, DStatusOf
    <3> QED BY <3>1, <3>2, Zenon
  <2>10. ASSUME StatusCounted \/ HeartbeatOk(up) \/ HeartbeatFailed(up) \/ RoomChecked
         PROVE  DStatusRight(r)'
    BY <1>1, <2>10, Zenon DEF StatusCounted, HeartbeatOk, HeartbeatFailed, RoomChecked, dqueues,
       dtables, server, DRoom
  <2> QED BY <1>3, <2>1, <2>2, <2>3, <2>4, <2>5, <2>6, <2>7, <2>8, <2>9, <2>10 DEF DNext, DScheduler
<1> QED BY <1>2, <1>3, Zenon DEF Next

----------------------------------------------------------------------------
(* The order of chunks and reports                                          *)

Busy == {"look", "send", "aux"}

\* Only chunks of a request in a batch enter the queue, and the last enters last.
LEMMA ChunksStep ==
  ASSUME TInv, Next
  PROVE  ChunksInOrder'
<1>0. /\ \A r \in Room : Untold(r)' => Untold(r)
      /\ \A r \in Room : PStatusRight(r)
      /\ ChunksInOrder /\ None \notin Room
      /\ pstage \in [Room -> PStage] /\ pstatus \in [Room -> KVPoll \cup {None}]
      /\ queue \in Seq(KVChunk)
      /\ worker.pc \in Busy => worker.chunk \in KVChunk
      /\ \A c \in KVChunk : c.room \in Room
  BY ToldForGood, PollValues, Zenon DEF TInv, IInv, PSlotsInv, PTyped, StatusTyped, DStatusRight,
     ChunksTyped, Busy, KVChunk
<1>a. \A c \in Listed(queue) : c \in KVChunk
  BY <1>0 DEF Listed
<1>u. \A q \in Room, v \in KVPoll : LET new == UpdateStatus(pstatus, q, v) IN
        /\ \A p \in Room \ {q} : new[p] = pstatus[p]
        /\ v = Failed => new[q] = IF pstatus[q] = None THEN None ELSE Failed
  BY <1>0, UpdateFacts
<1>1. ASSUME queue' = queue,
             worker'.pc \in Busy => worker.pc \in Busy /\ worker'.chunk = worker.chunk,
             worker'.pc = "aux" => worker'.chunk.last,
             \A r \in Room : Queued(r) \/ AtWorker(r)' =>
                /\ pstage'[r] \in {"chunked", "inflight", "done"}
                /\ pstage'[r] = "done" => pstatus'[r] = None
                /\ pstage[r] \in {"inflight", "done"} => pstage'[r] \in {"inflight", "done"}
      PROVE  ChunksInOrder'
  <2>1. /\ \A r \in Room : Queued(r)' <=> Queued(r)
        /\ \A r \in Room : AtWorker(r)' => AtWorker(r)
        /\ Listed(queue') = Listed(queue) /\ (EndsRoom(queue, LastChunks))'
    BY <1>0, <1>1 DEF Queued, AtWorker, Busy, Listed, EndsRoom, ChunksInOrder
  <2>2. \A c \in Listed(queue') : c.last => pstage'[c.room] \in {"inflight", "done"}
    BY <1>0, <1>1, <1>a, <2>1, Zenon DEF ChunksInOrder, Queued
  <2>3. worker'.pc \in Busy /\ worker'.chunk.last =>
          /\ ~Queued(worker'.chunk.room)
          /\ pstage'[worker'.chunk.room] \in {"inflight", "done"}
    <3> SUFFICES ASSUME worker'.pc \in Busy, worker'.chunk.last
                 PROVE  /\ ~Queued(worker'.chunk.room)
                        /\ pstage'[worker'.chunk.room] \in {"inflight", "done"}
      OBVIOUS
    <3> QED BY <1>0, <1>1, Zenon DEF ChunksInOrder, Busy, AtWorker
  <2> QED BY <1>0, <1>1, <2>1, <2>2, <2>3, Zenon DEF ChunksInOrder, Busy, Listed
<1>2. CASE DNext(up) /\ Decodes
  <2>1. UNCHANGED <<queue, worker, pstage, pstatus>>
    BY <1>2, Zenon DEF Decodes, pvars, queues, tables, threads
  <2> QED BY <1>0, <1>1, <2>1, Zenon DEF ChunksInOrder, AtWorker
<1>3. CASE PNext /\ Prefills
  <2>0. \A r \in Room : Queued(r) \/ AtWorker(r) =>
          /\ ~Untold(r) /\ pstage[r] \in {"chunked", "inflight", "done"}
          /\ pstage[r] = "done" => pstatus[r] = None
    BY <1>0, Zenon DEF ChunksInOrder
  <2>w. ASSUME UNCHANGED worker
        PROVE  /\ \A r \in Room : AtWorker(r)' <=> AtWorker(r)
               /\ worker'.pc = "aux" => worker'.chunk.last
    BY <1>0, <2>w, Zenon DEF AtWorker, ChunksInOrder
  <2>1. ASSUME NEW q \in Room, NEW why,
               \/ PArrive(q) \/ BootstrapFailed(q, why) \/ Bootstrapped(q) \/ TransferEnded(q, why)
               \/ PAbort(q)
        PROVE  ChunksInOrder'
    <3>1. UNCHANGED <<queue, worker>>
      BY <2>1, Zenon DEF PArrive, BootstrapFailed, Bootstrapped, TransferEnded, PAbort, threads
    <3>2. \/ pstage[q] \in {"none", "bootstrap", "waiting"} /\ \E s : pstage' = [pstage EXCEPT ![q] = s]
          \/ /\ pstage[q] = "inflight" /\ pstage' = [pstage EXCEPT ![q] = "done"]
             /\ pstatus' = [pstatus EXCEPT ![q] = None]
          \/ pstage' = pstage /\ pstage[q] \in {"bootstrap", "inflight"}
      BY <2>1, Zenon DEF PArrive, BootstrapFailed, Bootstrapped, TransferEnded, PAbort, AbortWaiting,
         AbortSender, PClear
    <3>3. \A p \in Room \ {q} : pstatus'[p] = pstatus[p]
      <4>1. CASE PArrive(q) \/ PAbort(q)
        BY <1>u, <4>1, PollValues DEF PArrive, PAbort, AbortWaiting, AbortSender
      <4>2. CASE BootstrapFailed(q, why) \/ Bootstrapped(q) \/ TransferEnded(q, why)
        BY <1>0, <4>2, Zenon DEF BootstrapFailed, Bootstrapped, TransferEnded, PClear, tables
      <4> QED BY <2>1, <4>1, <4>2, Zenon
    <3> QED BY <1>0, <1>1, <2>0, <2>w, <3>1, <3>2, <3>3
  <2>2. ASSUME NEW q \in Room, PrefillChunk(q) PROVE ChunksInOrder'
    <3> DEFINE c == [room |-> q, k |-> prefilled[q] + 1, last |-> Last(q), slot |-> pslot[q]]
    <3>1. /\ pstage[q] \in {"waiting", "chunked"}
          /\ pstage' = [pstage EXCEPT ![q] = IF Last(q) THEN "inflight" ELSE "chunked"]
          /\ queue' = queue \/ queue' = Append(queue, c)
          /\ UNCHANGED <<worker, pstatus>>
      BY <2>2, Zenon DEF PrefillChunk, SendKVChunk, AddTransferRequest, tables, threads
    <3>2. CASE queue' = queue
      BY <1>0, <1>1, <2>0, <2>w, <3>1, <3>2, Zenon
    <3>3. CASE queue' = Append(queue, c)
      <4>1. c \in KVChunk /\ c.room = q /\ (c.last <=> Last(q))
        <5>1. pslot[q] \in PSlot /\ prefilled[q] + 1 \in Nat /\ Last(q) \in BOOLEAN
          BY <3>1 DEF TInv, IInv, PSlotsInv, PTyped, ChunksTyped, Last
        <5> QED BY <5>1, Zenon DEF KVChunk
      <4> HIDE DEF c
      <4>2. /\ \A y \in Listed(queue) : y.room = q => ~y.last
            /\ worker.pc \in Busy /\ worker.chunk.last => worker.chunk.room # q
        BY <1>0, <3>1, Zenon DEF ChunksInOrder, Busy
      <4>3. /\ Listed(queue') = Listed(queue) \cup {c} /\ EndsRoom(queue', LastChunks)
        BY <1>0, <3>3, <4>1, <4>2, AppendToSeq DEF LastChunks, ChunksInOrder
      <4>4. \A r \in Room : (Queued(r)' => Queued(r) \/ r = q) /\ (AtWorker(r)' <=> AtWorker(r))
        BY <3>1, <4>1, <4>3, Zenon DEF Queued, AtWorker, Listed
      <4>5. \A x \in Listed(queue') : x.last => pstage'[x.room] \in {"inflight", "done"}
        <5>1. ASSUME NEW x \in Listed(queue), x.last PROVE pstage'[x.room] \in {"inflight", "done"}
          BY <1>0, <3>1, <1>a, <4>2, <5>1, Zenon DEF ChunksInOrder
        <5> QED BY <4>3, <5>1, <1>0, <3>1, <4>1, Zenon
      <4>6. worker'.pc \in Busy /\ worker'.chunk.last =>
              /\ ~Queued(worker.chunk.room)'
              /\ pstage'[worker'.chunk.room] \in {"inflight", "done"}
        BY <1>0, <3>1, <4>4, <4>2, Zenon DEF ChunksInOrder, Busy
      <4>7. \A r \in Room : Queued(r)' \/ AtWorker(r)' =>
              /\ ~Untold(r)' /\ pstage'[r] \in {"chunked", "inflight", "done"}
              /\ pstage'[r] = "done" => pstatus'[r] = None
        BY <1>0, <2>0, <3>1, <4>4, Zenon DEF PStatusRight
      <4> QED BY <2>w, <3>1, <4>3, <4>5, <4>6, <4>7, Zenon DEF ChunksInOrder, Busy, Listed, EndsRoom
    <3> QED BY <3>1, <3>2, <3>3, Zenon
  <2>3. ASSUME MetadataStored PROVE ChunksInOrder'
    <3>1. /\ UNCHANGED <<queue, worker, pstage>> /\ receiver.pc = "store"
          /\ \/ pstatus' = pstatus
             \/ pstatus' = UpdateStatus(pstatus, receiver.msg.room, WaitingForInput)
      BY <2>3, Zenon DEF MetadataStored, queues, tables
    <3>2. receiver.msg.room \in Room /\ Untold(receiver.msg.room)
      BY <3>1, Zenon DEF TInv, MessagesTyped, Metadata, Untold, InFlight
    <3>3. \A r \in Room : Queued(r) \/ AtWorker(r) => pstatus'[r] = pstatus[r]
      BY <1>u, <2>0, <3>1, <3>2, PollValues
    <3> QED BY <1>0, <1>1, <2>0, <2>w, <3>1, <3>3, Zenon
  <2>4. ASSUME WorkerGets PROVE ChunksInOrder'
    <3> DEFINE c == Head(queue)
    <3>1. /\ UNCHANGED <<pstage, pstatus>> /\ queue # <<>> /\ queue' = Tail(queue)
          /\ worker'.pc \in {"check", "look"} /\ worker'.chunk = c
      BY <2>4, Zenon DEF WorkerGets, queues, tables
    <3>2. /\ c \in KVChunk /\ Listed(queue) = Listed(queue') \cup {c}
          /\ EndsRoom(queue', LastChunks)
          /\ c \in LastChunks => \A y \in Listed(queue') : y.room # c.room
      BY <1>0, <3>1, TakeFromSeq, Zenon DEF ChunksInOrder
    <3> HIDE DEF c
    <3>3. \A x \in Listed(queue') : x.last => pstage'[x.room] \in {"inflight", "done"}
      BY <1>0, <3>1, <3>2, Zenon DEF ChunksInOrder
    <3>4. worker'.chunk.last => /\ ~Queued(worker.chunk.room)'
                                /\ pstage'[worker'.chunk.room] \in {"inflight", "done"}
      BY <3>1, <1>0, <3>2, Zenon DEF Queued, Listed, ChunksInOrder, LastChunks
    <3>5. \A r \in Room : Queued(r)' \/ AtWorker(r)' =>
              /\ ~Untold(r)' /\ pstage'[r] \in {"chunked", "inflight", "done"}
              /\ pstage'[r] = "done" => pstatus'[r] = None
      BY <1>0, <2>0, <3>1, <3>2, Zenon DEF Queued, AtWorker, Listed
    <3> QED BY <3>1, <3>2, <3>3, <3>4, <3>5, Zenon DEF ChunksInOrder, Listed, EndsRoom
  <2>5. ASSUME WorkerSends \/ WorkerSendsAux PROVE ChunksInOrder'
    <3> DEFINE c == worker.chunk
    <3>1. /\ UNCHANGED <<pstage, queue>> /\ worker.pc \in Busy /\ worker'.chunk = c
          /\ worker'.pc \in {"aux", "check"} /\ (worker'.pc = "aux" => c.last)
          /\ \/ pstatus' = pstatus
             \/ pstatus' = UpdateStatus(pstatus, c.room, Failed)
             \/ pstatus' = UpdateStatus(pstatus, c.room, Success) /\ c.last /\ worker'.pc = "check"
      <4>1. CASE WorkerSends
        BY <4>1, Zenon DEF WorkerSends, SendFails, SendSucceeds, Report, Goto, queues, At, Busy,
           TInv, ChunksTyped
      <4>2. CASE WorkerSendsAux
        BY <1>0, <4>2, Zenon DEF WorkerSendsAux, Report, Goto, queues, At, Busy, TInv, ChunksTyped,
           ChunksInOrder
      <4> QED BY <2>5, <4>1, <4>2, Zenon
    <3>2. c.room \in Room /\ AtWorker(c.room)
      BY <1>0, <3>1, Zenon DEF AtWorker, Busy
    <3>3. \A r \in Room : Queued(r) \/ AtWorker(r)' => (pstage[r] = "done" => pstatus'[r] = None)
      <4>1. CASE pstatus' = pstatus
        BY <2>0, <3>1, <3>2, <4>1, Zenon DEF AtWorker
      <4>2. CASE pstatus' = UpdateStatus(pstatus, c.room, Failed)
        BY <1>u, <2>0, <3>1, <3>2, <4>2, PollValues DEF AtWorker
      <4>3. CASE pstatus' = UpdateStatus(pstatus, c.room, Success) /\ c.last /\ worker'.pc = "check"
        <5>1. ~Queued(c.room)
          BY <1>0, <3>1, <4>3, Zenon DEF ChunksInOrder, Busy
        <5> QED BY <1>u, <2>0, <3>1, <3>2, <4>3, <5>1, PollValues DEF AtWorker
      <4> QED BY <3>1, <4>1, <4>2, <4>3, Zenon
    <3>4. \A r \in Room : AtWorker(r)' => AtWorker(r)
      BY <3>1, <3>2, Zenon DEF AtWorker, Busy
    <3> QED BY <1>1, <2>0, <3>1, <3>3, <3>4, Zenon
  <2>6. ASSUME WorkerLooks PROVE ChunksInOrder'
    <3>1. /\ UNCHANGED <<pstage, pstatus, queue>> /\ worker.pc \in Busy
          /\ worker'.pc \in {"dead", "check", "send"} /\ (worker'.pc # "dead" => worker'.chunk = worker.chunk)
      BY <2>6, Zenon DEF WorkerLooks, queues, tables, At, Busy, TInv, ChunksTyped, DeadWorker, Idle
    <3> QED BY <1>1, <2>0, <3>1, Zenon DEF Busy, AtWorker
  <2>7. ASSUME WorkerChecks \/ WorkerReadsStatus \/ WorkerOwns \/ WorkerPops PROVE ChunksInOrder'
    <3>1. UNCHANGED <<pstage, pstatus, queue>> /\ worker'.pc \notin Busy
      <4>1. UNCHANGED <<pstage, pstatus, queue>>
        BY <2>7, Zenon DEF WorkerChecks, WorkerReadsStatus, WorkerOwns, WorkerPops, queues, tables
      <4>2. \A p \in {"owned", "status", "pop"} : [worker EXCEPT !.pc = p].pc = p
        BY Zenon DEF TInv, ChunksTyped
      <4>3. CASE WorkerChecks
        BY <4>1, <4>2, <4>3, Zenon DEF WorkerChecks, Goto, Busy
      <4>4. Idle.pc \notin Busy /\ DeadWorker.pc \notin Busy
        BY Zenon DEF Idle, DeadWorker, Busy
      <4>5. CASE WorkerReadsStatus \/ WorkerOwns \/ WorkerPops
        BY <4>1, <4>2, <4>4, <4>5, Zenon DEF Busy, WorkerReadsStatus, WorkerOwns, WorkerPops
      <4> QED BY <2>7, <4>3, <4>5, Zenon
    <3> QED BY <1>1, <2>0, <3>1, Zenon DEF Busy, AtWorker
  <2>8. ASSUME Registered \/ MetadataArrives \/ Probe \/ Crash PROVE ChunksInOrder'
    BY <1>1, <2>0, <2>w, <2>8, Zenon DEF Registered, MetadataArrives, Probe, Crash, queues, tables,
       threads
  <2> QED BY <1>3, <2>1, <2>2, <2>3, <2>4, <2>5, <2>6, <2>7, <2>8 DEF PNext, PScheduler, Worker
<1> QED BY <1>2, <1>3, Zenon DEF Next

\* what may have happened to a room when its transfer is reported complete
Closed(r) == /\ ~Untold(r) /\ ~Queued(r) /\ ~AtWorker(r)
             /\ pstage[r] \in {"inflight", "done"}

\* A request whose transfer is complete sends no more chunks.
LEMMA ClosedForGood ==
  ASSUME TInv, Next, NEW r \in Room, Closed(r)
  PROVE  Closed(r)'
<1>0. /\ ~Untold(r)' /\ pstage \in [Room -> PStage] /\ queue \in Seq(KVChunk)
      /\ worker.pc \in Busy => worker.chunk \in KVChunk
  BY ToldForGood, Zenon DEF Closed, TInv, StatusTyped, IInv, PSlotsInv, PTyped, DStatusRight,
     ChunksTyped, Busy
<1>1. ASSUME UNCHANGED queue, pstage'[r] \in {"inflight", "done"},
             worker'.pc \in Busy => worker.pc \in Busy /\ worker'.chunk = worker.chunk
      PROVE  Closed(r)'
  BY <1>0, <1>1, Zenon DEF Closed, Queued, AtWorker, Busy, Listed
<1>2. CASE DNext(up) /\ Decodes
  BY <1>1, <1>2, Zenon DEF Decodes, pvars, queues, threads, Closed
<1>3. ASSUME NEW q \in Room, NEW why,
             \/ PArrive(q) \/ BootstrapFailed(q, why) \/ Bootstrapped(q) \/ TransferEnded(q, why)
             \/ PAbort(q)
      PROVE  Closed(r)'
  BY <1>1, <1>3, <1>0, Zenon DEF PArrive, BootstrapFailed, Bootstrapped, TransferEnded, PAbort,
     threads, Closed, AbortWaiting, AbortSender
<1>4. ASSUME NEW q \in Room, PrefillChunk(q) PROVE Closed(r)'
  <2>1. /\ pstage[q] \in {"waiting", "chunked"} /\ UNCHANGED worker
        /\ \E s : pstage' = [pstage EXCEPT ![q] = s]
    BY <1>4, Zenon DEF PrefillChunk, threads
  <2>2. q # r /\ pstage'[r] \in {"inflight", "done"}
    BY <1>0, <2>1, Zenon DEF Closed
  <2>3. queue' = queue \/ \E c \in KVChunk : c.room = q /\ queue' = Append(queue, c)
    <3> DEFINE c == [room |-> q, k |-> prefilled[q] + 1, last |-> Last(q), slot |-> pslot[q]]
    <3>1. queue' = queue \/ queue' = Append(queue, c)
      BY <1>4, Zenon DEF PrefillChunk, SendKVChunk, AddTransferRequest
    <3>2. pslot[q] \in PSlot /\ prefilled[q] + 1 \in Nat /\ Last(q) \in BOOLEAN
      BY <2>1 DEF TInv, IInv, PSlotsInv, PTyped, ChunksTyped, Last
    <3>3. c \in KVChunk /\ c.room = q
      BY <3>2, Zenon DEF KVChunk
    <3> HIDE DEF c
    <3> QED BY <3>1, <3>3, Zenon
  <2>4. CASE queue' = queue
    BY <1>1, <2>1, <2>2, <2>4, Zenon
  <2>5. CASE \E c \in KVChunk : c.room = q /\ queue' = Append(queue, c)
    <3>1. PICK c \in KVChunk : c.room = q /\ queue' = Append(queue, c)
      BY <2>5, Zenon
    <3>2. Listed(queue') = Listed(queue) \cup {c}
      BY <1>0, <3>1, AppendToSeq
    <3> QED BY <1>0, <2>1, <2>2, <3>1, <3>2, Zenon DEF Closed, Queued, AtWorker
  <2> QED BY <2>3, <2>4, <2>5, Zenon
<1>5. ASSUME WorkerGets PROVE Closed(r)'
  <2>1. /\ UNCHANGED pstage /\ queue # <<>> /\ queue' = Tail(queue)
        /\ worker'.chunk = Head(queue)
    BY <1>5, Zenon DEF WorkerGets, queues
  <2> QED BY <1>0, <2>1, TakeFromSeq DEF Closed, Queued, AtWorker, Listed
<1>6. ASSUME \/ WorkerLooks \/ WorkerSends \/ WorkerSendsAux \/ WorkerChecks \/ WorkerReadsStatus
             \/ WorkerOwns \/ WorkerPops
      PROVE  Closed(r)'
  <2>1. worker'.pc \in Busy => worker.pc \in Busy /\ worker'.chunk = worker.chunk
    <3>1. CASE WorkerChecks \/ WorkerReadsStatus \/ WorkerOwns \/ WorkerPops
      <4>1. worker' \in {Idle, DeadWorker, [worker EXCEPT !.pc = "owned"], [worker EXCEPT !.pc = "pop"],
                         [worker EXCEPT !.pc = "status"]}
        BY <3>1, Zenon DEF WorkerChecks, WorkerReadsStatus, WorkerOwns, WorkerPops, Goto
      <4> QED BY <4>1 DEF Busy, TInv, ChunksTyped, Idle, DeadWorker
    <3>2. CASE WorkerLooks
      BY <3>2, Zenon DEF WorkerLooks, At, Busy, TInv, ChunksTyped, DeadWorker, Idle
    <3>3. CASE WorkerSends
      BY <3>3, Zenon DEF WorkerSends, SendFails, SendSucceeds, Goto, At, Busy, TInv, ChunksTyped
    <3>4. CASE WorkerSendsAux
      BY <3>4, Zenon DEF WorkerSendsAux, Goto, At, Busy, TInv, ChunksTyped
    <3> QED BY <1>6, <3>1, <3>2, <3>3, <3>4, Zenon
  <2> QED BY <1>1, <1>6, <2>1, Zenon DEF Closed, WorkerLooks, WorkerSends, WorkerSendsAux,
             WorkerChecks, WorkerReadsStatus, WorkerOwns, WorkerPops, queues
<1>7. ASSUME Registered \/ MetadataArrives \/ MetadataStored \/ Probe \/ Crash PROVE Closed(r)'
  BY <1>1, <1>7, Zenon DEF Registered, MetadataArrives, MetadataStored, Probe, Crash, queues,
     threads, Closed
<1> QED BY <1>2, <1>3, <1>4, <1>5, <1>6, <1>7, Zenon DEF Next, PNext, PScheduler, Worker

\* the transfer of r is complete with this step
Finishes(r) == WorkerSendsAux /\ SendAux(worker.chunk) /\ worker.chunk.room = r

\* The reports of a room stay in order, and a success closes it.
LEMMA ReportsStep ==
  ASSUME TInv, Next
  PROVE  /\ ReportsInOrder'
         /\ \A r \in Room : Succeeded(r)' => Succeeded(r) \/ Finishes(r)
<1> DEFINE Goal == /\ ReportsInOrder'
                   /\ \A r \in Room : Succeeded(r)' => Succeeded(r) \/ Finishes(r)
<1> SUFFICES Goal
  OBVIOUS
<1>0. /\ \A r \in Room : Untold(r)' => Untold(r)
      /\ toDecode \in Seq(Status) /\ ReportsInOrder /\ None \notin Room
      /\ \A m \in Status : m.room \in Room
      /\ pstatus \in [Room -> KVPoll \cup {None}] /\ dstatus \in [Room -> KVPoll \cup {None}]
      /\ listener.pc \in {"count", "mark"} => listener.room \in Room
  BY ToldForGood, PollValues, Zenon DEF TInv, StatusTyped, DStatusRight, MessagesTyped, Status
<1>a. /\ \A m \in Listed(toDecode) : m \in Status
      /\ \A r \in Room : Succeeded(r) \/ pstatus[r] = Success => Closed(r)
      /\ \A r \in Room : Closed(r) => Closed(r)'
  BY <1>0, ClosedForGood DEF Listed, ReportsInOrder, Closed
<1>1. ASSUME \* nothing new is reported
             Listed(toDecode') \subseteq Listed(toDecode), EndsRoom(toDecode', Successes),
             listener'.pc \in {"count", "mark"} =>
               /\ listener'.room \in Room /\ Succeeded(listener'.room)
               /\ \A m \in Listed(toDecode') : m.room # listener'.room,
             \A r \in Room : dstatus'[r] = Success =>
               Succeeded(r) /\ \A m \in Listed(toDecode') : m.room # r,
             \A r \in Room : pstatus'[r] = Success => pstatus[r] = Success
      PROVE  Goal
  <2>1. \A r \in Room : Succeeded(r)' => Succeeded(r)
    BY <1>1, Zenon DEF Succeeded, Listed
  <2> QED BY <1>1, <2>1, <1>a, <1>0, Zenon DEF ReportsInOrder, Closed, Listed, EndsRoom
<1>2. ASSUME UNCHANGED <<toDecode, listener>>,
             \A r \in Room : dstatus'[r] = Success => dstatus[r] = Success,
             \A r \in Room : pstatus'[r] = Success => pstatus[r] = Success
      PROVE  Goal
  <2> HIDE DEF Goal
  <2> QED BY <1>0, <1>1, <1>2, Zenon DEF ReportsInOrder, Succeeded
<1>3. ASSUME NEW r \in Room, NEW m \in Status, m.room = r, AtWorker(r),
             toDecode' = Append(toDecode, m), UNCHANGED <<listener, dstatus>>,
             m.status = Failed =>
               \A q \in Room : pstatus'[q] = Success => pstatus[q] = Success,
             m.status = Success =>
               /\ Finishes(r) /\ Closed(r)' /\ \A q \in Room \ {r} : pstatus'[q] = Success => pstatus[q] = Success
      PROVE  Goal
  <2>1. ~Succeeded(r) /\ ~Untold(r)
    BY <1>3, <1>a, Zenon DEF Closed, TInv, ChunksInOrder
  <2>2. Listed(toDecode') = Listed(toDecode) \cup {m} /\ EndsRoom(toDecode', Successes)
    <3>1. \A x \in Listed(toDecode) : x.room = m.room => x \notin Successes
      BY <1>3, <2>1, Zenon DEF Succeeded, Successes
    <3>2. EndsRoom(toDecode, Successes)
      BY <1>0, Zenon DEF ReportsInOrder
    <3> QED BY <1>0, <1>3, <3>1, <3>2, AppendToSeq
  <2>3. \A q \in Room : Succeeded(q)' => Succeeded(q) \/ (q = r /\ m.status = Success)
    BY <1>3, <2>2, Zenon DEF Succeeded, Listed
  <2>4. \A q \in Room : Succeeded(q)' \/ pstatus'[q] = Success => Closed(q)'
    BY <1>3, <1>a, <2>3, PollValues, Zenon DEF Status
  <2>5. \A y \in Listed(toDecode)' : ~Untold(y.room)'
    BY <1>0, <1>3, <1>a, <2>1, <2>2, Zenon DEF Listed, ReportsInOrder
  <2>6. /\ listener.pc \in {"count", "mark"} => \A y \in Listed(toDecode') : y.room # listener.room
        /\ \A q \in Room : dstatus[q] = Success => \A y \in Listed(toDecode') : y.room # q
    BY <1>0, <1>3, <2>1, <2>2, Zenon DEF ReportsInOrder, Succeeded
  <2>7. EndsRoom(toDecode, Successes)' /\ Listed(toDecode)' = Listed(toDecode')
    BY <2>2, Zenon DEF EndsRoom, Listed
  <2> QED BY <1>3, <2>3, <2>4, <2>5, <2>6, <2>7, Zenon DEF ReportsInOrder, Closed
<1>u. /\ \A q, p \in Room, v \in KVPoll \ {Success} :
           UpdateStatus(pstatus, q, v)[p] = Success => pstatus[p] = Success
      /\ \A q, p \in Room, v \in KVPoll \ {Success} :
           UpdateStatus(dstatus, q, v)[p] = Success => dstatus[p] = Success
      /\ \A q \in Room : \A p \in Room \ {q} : UpdateStatus(pstatus, q, Success)[p] = pstatus[p]
      /\ \A q \in Room : \A p \in Room \ {q} : UpdateStatus(dstatus, q, Success)[p] = dstatus[p]
  <2>1. ASSUME NEW status \in [Room -> KVPoll \cup {None}], NEW q \in Room, NEW p \in Room
        PROVE  /\ \A v \in KVPoll \ {Success} :
                    UpdateStatus(status, q, v)[p] = Success => status[p] = Success
               /\ p # q => UpdateStatus(status, q, Success)[p] = status[p]
    <3>1. ASSUME NEW v \in KVPoll \ {Success}, UpdateStatus(status, q, v)[p] = Success
          PROVE  status[p] = Success
      BY <3>1, Zenon DEF UpdateStatus
    <3> QED BY <3>1, UpdateFacts, PollValues
  <2> QED BY <1>0, <2>1
<1> HIDE DEF Goal
<1>v. {Failed, Bootstrapping, WaitingForInput} \subseteq KVPoll \ {Success} /\ None # Success
  BY PollValues, Zenon
<1>4. CASE PNext /\ Prefills
  <2>0. UNCHANGED <<listener, dstatus>>
    BY <1>4, Zenon DEF Prefills, dvars, dthreads, dtables
  <2>1. ASSUME NEW q \in Room, NEW why,
               \/ PArrive(q) \/ BootstrapFailed(q, why) \/ Bootstrapped(q) \/ TransferEnded(q, why)
               \/ PAbort(q) \/ PrefillChunk(q)
        PROVE  Goal
    <3>1. \/ pstatus' = pstatus \/ pstatus' = [pstatus EXCEPT ![q] = None]
          \/ \E v \in {Failed, Bootstrapping} : pstatus' = UpdateStatus(pstatus, q, v)
      BY <2>1, Zenon DEF PArrive, BootstrapFailed, Bootstrapped, TransferEnded, PAbort, PrefillChunk,
         AbortWaiting, AbortSender, PClear, tables
    <3>2. \A r \in Room : pstatus'[r] = Success => pstatus[r] = Success
      BY <1>0, <1>u, <1>v, <3>1
    <3> QED BY <1>2, <2>0, <2>1, <3>2, Zenon DEF PArrive, BootstrapFailed, Bootstrapped,
               TransferEnded, PAbort, PrefillChunk, shared
  <2>2. ASSUME MetadataStored PROVE Goal
    <3>1. /\ UNCHANGED toDecode /\ receiver.msg.room \in Room
          /\ \/ pstatus' = pstatus
             \/ pstatus' = UpdateStatus(pstatus, receiver.msg.room, WaitingForInput)
      BY <2>2, Zenon DEF MetadataStored, shared, tables, TInv, MessagesTyped, Metadata
    <3> QED BY <1>2, <1>u, <1>v, <2>0, <3>1
  <2>3. ASSUME WorkerSends \/ WorkerSendsAux PROVE Goal
    <3> DEFINE r == worker.chunk.room
    <3>1. AtWorker(r) /\ r \in Room
      BY <2>3, Zenon DEF WorkerSends, WorkerSendsAux, At, AtWorker, TInv, ChunksTyped, KVChunk
    <3>2. CASE UNCHANGED <<toDecode, pstatus>>
      BY <1>2, <2>0, <3>2, Zenon
    <3>3. CASE /\ toDecode' = Append(toDecode, [room |-> r, status |-> Failed])
               /\ pstatus' = UpdateStatus(pstatus, r, Failed)
      <4>1. \A q \in Room : pstatus'[q] = Success => pstatus[q] = Success
        BY <1>u, <1>v, <3>1, <3>3, Zenon
      <4> HIDE DEF r
      <4> QED BY <1>3, <2>0, <3>1, <3>3, <4>1, PollValues, Zenon DEF Status
    <3>4. CASE /\ WorkerSendsAux /\ SendAux(worker.chunk)
               /\ toDecode' = Append(toDecode, [room |-> r, status |-> Success])
               /\ pstatus' = UpdateStatus(pstatus, r, Success)
      <4> DEFINE m == [room |-> r, status |-> Success]
      <4>1. m \in Status /\ m.room = r /\ m.status = Success
        BY <3>1, Zenon DEF Status
      <4>2. /\ worker.pc = "aux" /\ worker.chunk.last /\ worker'.pc = "check"
            /\ worker'.chunk = worker.chunk /\ UNCHANGED <<queue, pstage>>
        BY <3>4, Zenon DEF WorkerSendsAux, At, Goto, queues, TInv, ChunksTyped, ChunksInOrder
      <4>3. \A q : q = r => Closed(q)'
        <5>1. ~Queued(r) /\ pstage[r] \in {"inflight", "done"} /\ ~Untold(r)
          BY <3>1, <4>2, Zenon DEF TInv, ChunksInOrder
        <5>2. worker'.pc \notin {"look", "send", "aux"}
          BY <4>2
        <5> QED BY <1>0, <3>1, <4>2, <5>1, <5>2, Zenon DEF Closed, Queued, AtWorker, Listed
      <4> HIDE DEF r, m
      <4>4. PICK q \in Room : q = r
        BY <3>1, Zenon
      <4>5. /\ m.room = q /\ AtWorker(q) /\ Finishes(q) /\ Closed(q)'
            /\ \A p \in Room \ {q} : pstatus'[p] = Success => pstatus[p] = Success
        BY <3>1, <3>4, <4>1, <1>u, <4>3, <4>4, Zenon DEF Finishes, r
      <4> QED BY <1>3, <2>0, <3>4, <4>1, <4>5, PollValues, Zenon DEF m
    <3> QED BY <2>3, <3>2, <3>3, <3>4, Zenon DEF WorkerSends, WorkerSendsAux, SendFails,
               SendSucceeds, Report
  <2>4. ASSUME Crash PROVE Goal
    <3>1. /\ UNCHANGED pstatus
          /\ \E n \in 0 .. Len(toDecode) : toDecode' = SubSeq(toDecode, 1, n)
      BY <2>4, Zenon DEF Crash, tables
    <3> QED BY <1>0, <1>1, <2>0, <3>1, PrefixOfSeq DEF ReportsInOrder, Succeeded
  <2>5. ASSUME \/ Registered \/ MetadataArrives \/ Probe \/ WorkerGets \/ WorkerLooks
               \/ WorkerChecks \/ WorkerReadsStatus \/ WorkerOwns \/ WorkerPops
        PROVE  Goal
    BY <1>2, <2>0, <2>5, Zenon DEF Registered, MetadataArrives, Probe, WorkerGets, WorkerLooks,
       WorkerChecks, WorkerReadsStatus, WorkerOwns, WorkerPops, shared, tables
  <2> QED BY <1>4, <2>1, <2>2, <2>3, <2>4, <2>5, Zenon DEF PNext, PScheduler, Worker
<1>5. CASE DNext(up) /\ Decodes
  <2>0. UNCHANGED pstatus
    BY <1>5, Zenon DEF Decodes, pvars, tables
  <2>1. ASSUME StatusArrives PROVE Goal
    <3> DEFINE m == Head(toDecode)
    <3>1. /\ toDecode # <<>> /\ toDecode' = Tail(toDecode) /\ listener.pc = "recv"
          /\ \/ /\ m.status = Failed /\ listener' = listener
                /\ dstatus' = UpdateStatus(dstatus, m.room, Failed)
             \/ /\ m.status # Failed /\ dstatus' = dstatus
                /\ listener' \in {Hearing, [pc |-> "count", room |-> m.room]}
      BY <2>1, Zenon DEF StatusArrives
    <3>2. /\ m \in Status /\ Listed(toDecode) = Listed(toDecode') \cup {m}
          /\ EndsRoom(toDecode', Successes)
          /\ m \in Successes => \A y \in Listed(toDecode') : y.room # m.room
      BY <1>0, <3>1, TakeFromSeq, Zenon DEF ReportsInOrder
    <3> HIDE DEF m
    <3>3. \A r \in Room : dstatus'[r] = Success =>
               Succeeded(r) /\ \A y \in Listed(toDecode') : y.room # r
      <4>1. \A r \in Room : dstatus'[r] = Success => dstatus[r] = Success
        BY <1>0, <1>u, <1>v, <3>1, <3>2
      <4> QED BY <1>0, <3>2, <4>1, Zenon DEF ReportsInOrder, Succeeded
    <3>4. listener'.pc \in {"count", "mark"} =>
               /\ listener'.room \in Room /\ Succeeded(listener'.room)
               /\ \A y \in Listed(toDecode') : y.room # listener'.room
      <4>1. CASE m.status = Failed
        BY <3>1, <4>1, Zenon DEF Hearing
      <4>2. CASE m.status # Failed
        <5>1. m.status = Success /\ m \in Successes
          BY <3>2, <4>2, Zenon DEF Status, Successes
        <5>2. CASE listener' = Hearing
          BY <5>2, Zenon DEF Hearing
        <5>3. CASE listener' = [pc |-> "count", room |-> m.room]
          BY <3>2, <5>1, <1>0, <5>3, Zenon DEF Succeeded
        <5> QED BY <3>1, <4>2, <5>2, <5>3, Zenon
      <4> QED BY <4>1, <4>2, Zenon
    <3> QED BY <1>1, <2>0, <3>2, <3>3, <3>4, Zenon
  <2>2. ASSUME StatusCounted PROVE Goal
    <3>1. /\ UNCHANGED <<toDecode, dstatus>> /\ listener.pc = "count"
          /\ listener' = DeadListener \/ listener' = [listener EXCEPT !.pc = "mark"]
      BY <2>2, Zenon DEF StatusCounted, shared, dtables
    <3>2. listener'.pc = "dead" \/ listener'.room = listener.room
      BY <3>1, Zenon DEF DeadListener, Hearing, TInv, MessagesTyped
    <3> QED BY <1>0, <1>1, <2>0, <3>1, <3>2, Zenon DEF ReportsInOrder, Succeeded
  <2>3. ASSUME StatusMarked PROVE Goal
    <3>1. /\ UNCHANGED toDecode /\ listener.pc = "mark" /\ listener'.pc = "recv"
          /\ dstatus' = UpdateStatus(dstatus, listener.room, Success)
      BY <2>3, Zenon DEF StatusMarked, shared, Hearing
    <3>2. \A r \in Room : dstatus'[r] = Success => dstatus[r] = Success \/ r = listener.room
      BY <1>0, <1>u, <3>1, Zenon
    <3> QED BY <1>0, <1>1, <2>0, <3>1, <3>2, Zenon DEF ReportsInOrder, Succeeded
  <2>4. ASSUME UNCHANGED <<toDecode, listener>>,
               \A r \in Room : dstatus'[r] = Success => dstatus[r] = Success
        PROVE  Goal
    BY <1>2, <2>0, <2>4, Zenon
  <2>5. ASSUME NEW q \in Room, DArrive(q, up) PROVE Goal
    <3> DEFINE status == UpdateStatus(dstatus, q, Bootstrapping)
    <3>1. /\ UNCHANGED <<toDecode, listener>>
          /\ InitReceivers(status, IF infoKnown THEN {q} ELSE {}, up)
      BY <2>5, Zenon DEF DArrive, dthreads
    <3>2. /\ status \in [Room -> KVPoll \cup {None}]
          /\ \A r \in Room : status[r] = Success => dstatus[r] = Success
      BY <1>0, <1>u, <1>v, UpdateFacts
    <3> HIDE DEF status
    <3>3. \A r \in Room : dstatus'[r] = Success => status[r] = Success
      <4>1. (IF infoKnown THEN {q} ELSE {}) \in SUBSET Room /\ dconclude \in [Room -> {None, Failed, Success}]
        BY Zenon DEF TInv, StatusTyped
      <4> DEFINE rs == IF infoKnown THEN {q} ELSE {}
      <4> HIDE DEF rs
      <4>2. /\ \A p \in Room \ rs : dstatus'[p] = status[p]
            /\ \A p \in rs :
                 \/ dstatus'[p] = IF status[p] = None THEN None ELSE Failed
                 \/ dstatus'[p] = status[p]
                 \/ dstatus'[p] = IF status[p] = Success THEN Success ELSE WaitingForInput
        BY <3>1, <3>2, <4>1, InitReceiversFacts, Zenon DEF rs
      <4> QED BY <4>2, PollValues, Zenon
    <3> QED BY <2>4, <3>1, <3>2, <3>3, Zenon
  <2>6. ASSUME ResolvePending(up) PROVE Goal
    <3>1. \A r \in Room : dstatus'[r] = Success => dstatus[r] = Success
      <4>1. CASE infoKnown'
        <5>1. InitReceivers(dstatus, pending, up) /\ pending \in SUBSET Room
          BY <2>6, <4>1, Zenon DEF ResolvePending, TInv, StatusTyped
        <5>2. dconclude \in [Room -> {None, Failed, Success}]
          BY Zenon DEF TInv, StatusTyped
        <5>3. /\ \A p \in Room \ pending : dstatus'[p] = dstatus[p] /\ dconclude'[p] = dconclude[p]
              /\ \A p \in pending :
                   \/ /\ dconclude'[p] = Failed
                      /\ dstatus'[p] = IF dstatus[p] = None THEN None ELSE Failed
                   \/ /\ dconclude'[p] = dconclude[p] /\ dconclude[p] = Failed
                      /\ dstatus'[p] = dstatus[p]
                   \/ /\ dconclude'[p] = dconclude[p] /\ dconclude[p] # Failed
                      /\ dstatus'[p] = IF dstatus[p] = Success THEN Success ELSE WaitingForInput
          BY <1>0, <5>1, <5>2, InitReceiversFacts, Zenon
        <5> QED BY <5>3, PollValues, Zenon
      <4>2. CASE ~infoKnown'
        BY <1>u, <1>v, <2>6, <4>2 DEF ResolvePending
      <4> QED BY <4>1, <4>2, Zenon
    <3> QED BY <2>4, <2>6, <3>1, Zenon DEF ResolvePending, dthreads
  <2>7. ASSUME NEW q \in Room,
               \/ HandshakeReady(q) \/ Commit(q) \/ DAbort(q) \/ Decoded(q) \/ Preallocate(q)
               \/ \E why : HandshakeFailed(q, why) \/ TransferFailed(q, why)
        PROVE  Goal
    <3>1. \/ dstatus' = dstatus \/ dstatus' = [dstatus EXCEPT ![q] = None]
          \/ dstatus' = UpdateStatus(dstatus, q, Failed)
      BY <2>7, Zenon DEF HandshakeReady, Commit, DAbort, Decoded, Preallocate, HandshakeFailed,
         TransferFailed, DClear, dtables
    <3>2. \A r \in Room : dstatus'[r] = Success => dstatus[r] = Success
      BY <1>0, <1>u, <1>v, <3>1
    <3> QED BY <2>4, <2>7, <3>2, Zenon DEF HandshakeReady, Commit, DAbort, Decoded, Preallocate,
               HandshakeFailed, TransferFailed, shared, dthreads
  <2>8. ASSUME HeartbeatOk(up) \/ HeartbeatFailed(up) \/ RoomChecked PROVE Goal
    BY <2>4, <2>8, Zenon DEF HeartbeatOk, HeartbeatFailed, RoomChecked, shared, dthreads, dtables
  <2>9. ASSUME RoomFailed PROVE Goal
    <3>1. UNCHANGED <<toDecode, listener>> /\ checker.room \in Room
      BY <2>9, Zenon DEF RoomFailed, shared, TInv, StatusTyped
    <3> QED BY <1>u, <1>v, <2>4, <3>1, <2>9, Zenon DEF RoomFailed
  <2> QED BY <1>5, <2>1, <2>2, <2>3, <2>5, <2>6, <2>7, <2>8, <2>9, Zenon DEF DNext, DScheduler
<1> QED BY <1>4, <1>5, Zenon DEF Next

\* Initially nothing is queued, sent or known.
LEMMA InitTInv == Init => TInv
<1> SUFFICES ASSUME Init PROVE TInv
  OBVIOUS
<1>0. IInv /\ None \notin Room
  BY InitIInv, PollValues, Zenon
<1>e. Listed(<<>>) = {} /\ \A F : EndsRoom(<<>>, F)
  BY DEF Listed, EndsRoom
<1> USE DEF Init, CommonInit, PInit, DInit
<1>1. MessagesTyped
  BY DEF MessagesTyped, Listening, Hearing
<1>2. ChunksTyped
  BY DEF ChunksTyped, Idle, WorkerPc, PSlot, DSlot
<1>3. \A r \in Room : ~InFlight(r) /\ ~Queued(r) /\ ~AtWorker(r)
  BY DEF InFlight, Queued, AtWorker, Listed, Listening, Idle
<1>4. MetadataOnce
  BY <1>3, <1>e, Zenon DEF MetadataOnce, Listening
<1>5. ChunksInOrder
  BY <1>3, <1>e, Zenon DEF ChunksInOrder, Idle
<1>6. ReportsInOrder
  BY <1>e, PollValues, Zenon DEF ReportsInOrder, Succeeded, Hearing
<1>7. \A r \in Room : PStatusRight(r) /\ DStatusRight(r)
  BY PollValues, Zenon DEF PStatusRight, PStatusOf, DStatusRight, DStatusOf
<1> QED BY <1>0, <1>1, <1>2, <1>4, <1>5, <1>6, <1>7, Zenon DEF TInv, StatusTyped, Watching

\* The steps of the two servers preserve the protocol's invariant.
LEMMA ProtocolStep == TInv /\ [Next]_vars => TInv'
<1> SUFFICES ASSUME TInv, [Next]_vars PROVE TInv'
  OBVIOUS
<1>1. CASE Next
  <2>1. MessagesTyped' /\ ChunksTyped' /\ StatusTyped'
    BY <1>1, MessagesTypedStep, ChunksTypedStep, StatusTypedStep, Zenon DEF TInv
  <2> QED BY <1>1, BuffersStep, <2>1, ToldForGood, ChunksStep, ReportsStep, PStatusStep,
             DStatusStep, Zenon DEF TInv, StatusTyped, DStatusRight
<1>2. CASE UNCHANGED vars
  <2>2. UNCHANGED <<toPrefill, toDecode, dbuf, pstage, pstatus, pconclude, transferInfos, prefilled, pbuf,
                    queue, worker, receiver, dstage, dstatus, dconclude, ready, pending, tracker,
                    listener, checker>>
    BY <1>2, Zenon DEF vars, shared, pvars, queues, tables, threads, dvars, dqueues, dtables,
       server, dthreads
  <2>3. MessagesTyped' /\ ChunksTyped' /\ StatusTyped'
    BY <2>2 DEF TInv, MessagesTyped, ChunksTyped, StatusTyped
  <2>a. /\ Listed(toPrefill)' = Listed(toPrefill) /\ Listed(toDecode)' = Listed(toDecode)
        /\ Listed(queue)' = Listed(queue)
        /\ \A F : /\ EndsRoom(toPrefill', F) <=> EndsRoom(toPrefill, F)
                  /\ EndsRoom(toDecode', F) <=> EndsRoom(toDecode, F)
                  /\ EndsRoom(queue', F) <=> EndsRoom(queue, F)
    BY <2>2, Zenon DEF Listed
  <2>b. \A r : /\ InFlight(r)' <=> InFlight(r)
               /\ Queued(r)' <=> Queued(r)
               /\ AtWorker(r)' <=> AtWorker(r)
               /\ Succeeded(r)' <=> Succeeded(r)
               /\ Unannounced(r)' <=> Unannounced(r)
    BY <2>2, <2>a, Zenon DEF InFlight, Queued, AtWorker, Succeeded, Unannounced
  <2>c. \A r : Untold(r)' <=> Untold(r)
    BY <2>b, Zenon DEF Untold
  <2>d. worker'.chunk.room = worker.chunk.room /\ (Queued(worker.chunk.room)' <=> Queued(worker.chunk.room))
    BY <2>2, <2>a, Zenon DEF Queued
  <2>4. MetadataOnce' /\ ChunksInOrder' /\ ReportsInOrder'
    <3>1. MetadataOnce'
      BY <2>2, <2>a, <2>b, Zenon DEF TInv, MetadataOnce, EndsRoom
    <3>2. ChunksInOrder'
      BY <2>2, <2>a, <2>b, <2>c, <2>d, Zenon DEF TInv, ChunksInOrder, EndsRoom
    <3>3. ReportsInOrder'
      BY <2>2, <2>a, <2>b, <2>c, Zenon DEF TInv, ReportsInOrder, EndsRoom
    <3> QED BY <3>1, <3>2, <3>3, Zenon
  <2>5. \A r \in Room : PStatusRight(r)' /\ DStatusRight(r)'
    <3>1. \A r \in Room : PStatusRight(r)'
      BY <2>2, <2>c, ZenonT(20) DEF TInv, PStatusRight, PStatusOf
    <3>2. \A r \in Room : DStatusRight(r)'
      BY <2>2, <2>c, ZenonT(20) DEF TInv, DStatusRight, DStatusOf
    <3> QED BY <3>1, <3>2, Zenon
  <2> QED BY <1>2, BuffersStep, <2>3, <2>4, <2>5, Zenon DEF TInv
<1> QED BY <1>1, <1>2, Zenon

\* No late failure is left behind for the next user of a room (update_status),
\* and no poll of a scheduler raises (check_status, _update_handshake_waiters,
\* pop_transferred), for any requests, sizes of the pools and faults.
THEOREM PollsSafe == Spec => [](NoPollution /\ PollsExpected)
<1>1. TInv => NoPollution /\ PollsExpected
  <2> SUFFICES ASSUME TInv, NEW r \in Room
               PROVE  /\ pstatus[r] = Failed => pstage[r] \notin {"none", "done"}
                      /\ dstatus[r] = Failed => dstage[r] \in {"prealloc", "transfer"}
                      /\ pstage[r] \in {"bootstrap", "inflight"} => PPoll(r) # None
                      /\ pstage[r] = "inflight" => PPoll(r) # Bootstrapping
                      /\ dstage[r] = "prealloc" => DPoll(r) \in {Failed, Bootstrapping, WaitingForInput}
                      /\ dstage[r] = "transfer" => DPoll(r) \in {Failed, WaitingForInput, Success}
    BY Zenon DEF NoPollution, PollsExpected
  <2>1. PStatusRight(r) /\ DStatusRight(r) /\ dstage[r] \in DStage
    BY Zenon DEF TInv, IInv, DSlotsInv, DTyped
  <2>2. /\ dstatus[r] = Failed => dstage[r] \in {"prealloc", "transfer"}
        /\ dstage[r] = "prealloc" => DPoll(r) \in {Failed, Bootstrapping, WaitingForInput}
        /\ dstage[r] = "transfer" => DPoll(r) \in {Failed, WaitingForInput, Success}
    BY <2>1, PollValues, Zenon DEF DStatusRight, DStatusOf, DPoll, DStage
  <2> QED BY <2>1, PollValues, <2>2, Zenon DEF PStatusRight, PStatusOf, PPoll
<1> QED BY <1>1, InitTInv, ProtocolStep, PTL DEF Spec

----------------------------------------------------------------------------
(* The metadata buffers                                                     *)

\* A request comes to the transfer queue with its pages and buffer, and keeps
\* them there.
LEMMA TransferKeeps ==
  ASSUME TInv, Next, NEW r \in Room, dstage'[r] = "transfer"
  PROVE  \/ dstage[r] = "transfer" /\ dpages'[r] = dpages[r] /\ dslot'[r] = dslot[r]
         \/ /\ dstage[r] = "prealloc"
            /\ \E m \in Metadata : /\ m.room = r /\ m.pages = dpages'[r] /\ m.slot = dslot'[r]
                                   /\ toPrefill' = Append(toPrefill, m)
<1>0. /\ dstage \in [Room -> DStage] /\ dpages \in [Room -> Seq(DPage)]
      /\ dslot \in [Room -> DSlot \cup {None}]
  BY Zenon DEF TInv, IInv, DSlotsInv, DTyped
<1>1. CASE PNext /\ Prefills
  BY <1>1, Zenon DEF Prefills, dvars, dqueues
<1>2. CASE DNext(up) /\ Decodes
  <2>1. ASSUME NEW q \in Room, \E why : DArrive(q, up) \/ HandshakeFailed(q, why)
        PROVE  dstage[r] = "transfer" /\ dpages'[r] = dpages[r] /\ dslot'[r] = dslot[r]
    BY <1>0, <2>1, Zenon DEF DArrive, HandshakeFailed
  <2>2. ASSUME NEW q \in Room, \E why : TransferFailed(q, why) \/ Commit(q) \/ Decoded(q)
        PROVE  dstage[r] = "transfer" /\ dpages'[r] = dpages[r] /\ dslot'[r] = dslot[r]
    BY <1>0, <2>2, Zenon DEF TransferFailed, Commit, Decoded, ReleasePages, ReleaseBuffer
  <2>3. ASSUME NEW q \in Room, HandshakeReady(q) \/ DAbort(q)
        PROVE  dstage[r] = "transfer" /\ dpages'[r] = dpages[r] /\ dslot'[r] = dslot[r]
    BY <2>3, Zenon DEF HandshakeReady, DAbort, dqueues
  <2>4. ASSUME \/ ResolvePending(up) \/ StatusArrives \/ StatusCounted \/ StatusMarked
               \/ HeartbeatOk(up) \/ HeartbeatFailed(up) \/ RoomChecked \/ RoomFailed
        PROVE  dstage[r] = "transfer" /\ dpages'[r] = dpages[r] /\ dslot'[r] = dslot[r]
    BY <2>4, Zenon DEF ResolvePending, StatusArrives, StatusCounted, StatusMarked, HeartbeatOk,
       HeartbeatFailed, RoomChecked, RoomFailed, dqueues
  <2>5. ASSUME NEW q \in Room, Preallocate(q)
        PROVE  \/ dstage[r] = "transfer" /\ dpages'[r] = dpages[r] /\ dslot'[r] = dslot[r]
               \/ /\ dstage[r] = "prealloc"
                  /\ \E m \in Metadata : /\ m.room = r /\ m.pages = dpages'[r] /\ m.slot = dslot'[r]
                                         /\ toPrefill' = Append(toPrefill, m)
    <3>1. /\ dstage[q] = "prealloc" /\ dstage' = [dstage EXCEPT ![q] = "transfer"]
          /\ toPrefill' = Append(toPrefill, [room |-> q, pages |-> dpages'[q], slot |-> dslot'[q]])
          /\ \E x : dpages' = [dpages EXCEPT ![q] = x]
          /\ \E x : dslot' = [dslot EXCEPT ![q] = x]
      BY <2>5, Zenon DEF Preallocate, SendMetadata, PreAlloc
    <3>2. CASE q # r
      BY <1>0, <3>1, <3>2, Zenon
    <3>3. CASE q = r
      <4>1. DSlotsInv'
        BY <1>2, DecodeStep, Zenon DEF TInv, IInv
      <4> QED BY <3>1, <3>3, <1>0, <4>1, Zenon DEF Metadata, DTyped, DSlotsInv
    <3> QED BY <3>2, <3>3, Zenon
  <2> QED BY <1>2, <2>1, <2>2, <2>3, <2>4, <2>5, Zenon DEF DNext, DScheduler
<1> QED BY <1>1, <1>2, Zenon DEF Next
----------------------------------------------------------------------------
(* The metadata                                                             *)

\* What the prefill server knows of a request in the transfer queue stays what
\* the decode server holds for it.
LEMMA MetadataStep ==
  ASSUME TInv, MetadataRight, Next
  PROVE  MetadataRight'
<1>0. /\ toPrefill \in Seq(Metadata \cup {Register}) /\ None \notin Room /\ MetadataOnce
      /\ transferInfos \in [Room -> Info \cup {EmptyInfo, None}]
      /\ \A m \in Metadata : m.room \in Room
      /\ Register \notin Metadata /\ Register.room = None
      /\ receiver.pc = "store" => receiver.msg \in Metadata
      /\ worker.pc \in {"send", "aux"} => worker.chunk.room \in Room
      /\ MetadataRight
  BY PollValues, Zenon DEF TInv, MessagesTyped, ChunksTyped, Metadata, Register, KVChunk
<1>1. CASE PNext /\ Prefills
  <2>0. UNCHANGED <<dstage, dpages, dslot>>
    BY <1>1, Zenon DEF Prefills, dvars, dqueues
  <2>i. \A r : InfoOf(r)' = InfoOf(r)
    BY <2>0, Zenon DEF InfoOf
  \* the messages and the tables
  <2>1. ASSUME UNCHANGED <<toPrefill, receiver>>,
               \A r \in Room : transferInfos'[r] \in {transferInfos[r], None},
               worker'.pc \in {"send", "aux"} => \/ UNCHANGED <<worker>>
                                                \/ /\ worker.pc \in {"send", "aux"}
                                                   /\ worker'.chunk = worker.chunk
                                                   /\ worker'.info = worker.info
        PROVE  MetadataRight'
    <3>1. Listed(toPrefill)' = Listed(toPrefill) /\ \A r \in Room : InFlight(r)' <=> InFlight(r)
      BY <2>1, Zenon DEF Listed, InFlight
    <3> QED BY <1>0, <2>0, <2>1, <2>i, <3>1, Zenon DEF MetadataRight, InfoOf
  <2>2. ASSUME UNCHANGED worker
        PROVE  worker'.pc \in {"send", "aux"} /\ dstage'[worker'.chunk.room] = "transfer" =>
                 worker'.info = InfoOf(worker.chunk.room)'
    BY <1>0, <2>0, <2>2, Zenon DEF MetadataRight, InfoOf
  <2>3. ASSUME Registered PROVE MetadataRight'
    <3>1. /\ toPrefill # <<>> /\ toPrefill' = Tail(toPrefill) /\ Head(toPrefill) = Register
          /\ UNCHANGED <<receiver, worker, transferInfos>>
      BY <2>3, Zenon DEF Registered, tables
    <3>2. Listed(toPrefill) = Listed(toPrefill') \cup {Register} /\ Listed(toPrefill') = Listed(toPrefill)'
      <4>1. Listed(toPrefill') = Listed(toPrefill)'
        BY Zenon DEF Listed
      <4> QED BY <3>1, <1>0, TakeFromSeq, <4>1, Zenon
    <3>3. \A r \in Room : InFlight(r)' <=> InFlight(r)
      BY <1>0, <3>1, <3>2, Zenon DEF InFlight
    <3> QED BY <1>0, <2>0, <2>2, <2>i, <3>1, <3>2, <3>3, Zenon DEF MetadataRight
  <2>4. ASSUME MetadataArrives PROVE MetadataRight'
    <3> DEFINE m == Head(toPrefill)
    <3>1. /\ toPrefill # <<>> /\ toPrefill' = Tail(toPrefill) /\ m # Register
          /\ receiver' = [pc |-> "store", msg |-> m] /\ UNCHANGED worker
          /\ transferInfos' = [transferInfos EXCEPT ![m.room] = IF @ = None THEN EmptyInfo ELSE @]
          /\ receiver.pc = "recv"
      BY <2>4, Zenon DEF MetadataArrives
    <3>2. /\ Listed(toPrefill) = Listed(toPrefill') \cup {m} /\ Listed(toPrefill') = Listed(toPrefill)'
          /\ m \in Metadata
      <4>1. /\ Listed(toPrefill) = Listed(Tail(toPrefill)) \cup {m}
            /\ m \in Metadata \cup {Register}
        BY <1>0, <3>1, TakeFromSeq, Zenon
      <4> QED BY <3>1, <4>1, Zenon DEF Listed
    <3> HIDE DEF m
    <3>3. \A r \in Room : InFlight(r)' <=> InFlight(r)
      BY <1>0, <3>1, <3>2, Zenon DEF InFlight
    <3>4. receiver'.pc = "store" /\ receiver'.msg = m /\ m.room \in Room /\ InFlight(m.room)
      BY <1>0, <3>1, <3>2, Zenon DEF InFlight
    <3>5. dstage[m.room] = "transfer" => m.pages = dpages[m.room] /\ m.slot = dslot[m.room]
      BY <1>0, <3>1, <3>2, Zenon DEF MetadataRight
    <3>6. \A r \in Room : dstage[r] = "transfer" => transferInfos'[r] \in {None, EmptyInfo, InfoOf(r)}
      BY <1>0, <3>1, <3>4, Zenon DEF MetadataRight
    <3>7. \A r \in Room : ~InFlight(r) => transferInfos'[r] \in Info \cup {None}
      BY <1>0, <3>1, <3>4, Zenon DEF MetadataRight
    <3> QED BY <1>0, <2>0, <2>2, <2>i, <3>1, <3>2, <3>3, <3>4, <3>5, <3>6, <3>7, Zenon DEF
               MetadataRight
  <2>5. ASSUME MetadataStored PROVE MetadataRight'
    <3> DEFINE m == receiver.msg
    <3>1. /\ UNCHANGED <<toPrefill, worker>> /\ receiver.pc = "store" /\ receiver'.pc # "store"
          /\ \/ transferInfos[m.room] = None /\ UNCHANGED transferInfos
             \/ transferInfos' = [transferInfos EXCEPT ![m.room] = [pages |-> m.pages, slot |-> m.slot]]
      BY <2>5 DEF MetadataStored, shared, tables, DeadReceiver, Listening
    <3>2. Listed(toPrefill') = Listed(toPrefill) /\ Listed(toPrefill') = Listed(toPrefill)'
      BY <3>1, Zenon DEF Listed
    <3>3. m \in Metadata /\ m.room \in Room /\ [pages |-> m.pages, slot |-> m.slot] \in Info
      BY <1>0, <3>1, Zenon DEF Metadata, Info
    <3>4. dstage[m.room] = "transfer" => [pages |-> m.pages, slot |-> m.slot] = InfoOf(m.room)
      BY <1>0, <3>1, Zenon DEF MetadataRight, InfoOf
    <3>5. \A r \in Room : InFlight(r) => InFlight(r)' \/ r = m.room
      BY <3>1, <3>2, Zenon DEF InFlight
    <3> HIDE DEF m
    <3>6. \A r \in Room : dstage[r] = "transfer" => transferInfos'[r] \in {None, EmptyInfo, InfoOf(r)}
      BY <1>0, <3>1, <3>3, <3>4, Zenon DEF MetadataRight
    <3>7. \A r \in Room : ~InFlight(r)' => transferInfos'[r] \in Info \cup {None}
      BY <1>0, <3>1, <3>3, <3>5, Zenon DEF MetadataRight
    <3> QED BY <1>0, <2>0, <2>2, <2>i, <3>1, <3>2, <3>6, <3>7, Zenon DEF MetadataRight
  <2>6. ASSUME NEW q \in Room, NEW why,
               \/ PArrive(q) \/ BootstrapFailed(q, why) \/ Bootstrapped(q) \/ TransferEnded(q, why)
               \/ PAbort(q) \/ PrefillChunk(q)
        PROVE  MetadataRight'
    BY <1>0, <2>1, <2>6, Zenon DEF PArrive, BootstrapFailed, Bootstrapped, TransferEnded, PAbort,
       PrefillChunk, shared, threads, PClear, tables
  <2>7. ASSUME WorkerLooks PROVE MetadataRight'
    <3> DEFINE i == transferInfos[worker.chunk.room]
    <3>1. UNCHANGED <<toPrefill, receiver, transferInfos>>
      BY <2>7, Zenon DEF WorkerLooks, shared, tables
    <3>2. Listed(toPrefill)' = Listed(toPrefill) /\ \A r \in Room : InFlight(r)' <=> InFlight(r)
      BY <3>1, Zenon DEF Listed, InFlight
    <3>3. worker'.pc \in {"send", "aux"} => InfoOf(worker.chunk.room)' = InfoOf(worker'.chunk.room)
      BY <2>0, Zenon DEF InfoOf
    <3> QED BY <1>0, <2>0, <2>i, <3>1, <3>2, <2>7, <3>3, Zenon DEF MetadataRight, WorkerLooks, At,
               DeadWorker, Idle, TInv, ChunksTyped, KVChunk
  <2>8. ASSUME WorkerSends \/ WorkerSendsAux PROVE MetadataRight'
    BY <2>1, <2>8, Zenon DEF WorkerSends, WorkerSendsAux, At, TInv, ChunksTyped, SendFails,
       SendSucceeds, Goto
  <2>9. ASSUME WorkerGets \/ WorkerChecks \/ WorkerReadsStatus \/ WorkerOwns \/ WorkerPops
        PROVE  MetadataRight'
    <3>1. worker'.pc \notin {"send", "aux"}
      <4>1. CASE WorkerChecks \/ WorkerReadsStatus \/ WorkerOwns \/ WorkerPops
        <5>1. Idle.pc = "get" /\ DeadWorker.pc = "dead"
          BY Zenon DEF Idle, DeadWorker
        <5> QED BY <4>1, <5>1, Zenon DEF TInv, ChunksTyped, WorkerChecks, WorkerReadsStatus,
                   WorkerOwns, WorkerPops, Goto
      <4>2. CASE WorkerGets
        BY <4>2, Zenon DEF WorkerGets
      <4> QED BY <2>9, <4>1, <4>2, Zenon
    <3> QED BY <2>1, <2>9, <1>0, <3>1, Zenon DEF WorkerGets, WorkerChecks, WorkerReadsStatus,
               WorkerOwns, WorkerPops, shared, tables
  <2>10. ASSUME Probe \/ Crash PROVE MetadataRight'
    BY <2>1, <2>10, Zenon DEF Probe, Crash, shared, tables, threads
  <2> QED BY <1>1, <2>3, <2>4, <2>5, <2>6, <2>7, <2>8, <2>9, <2>10 DEF PNext, PScheduler, Worker
<1>2. CASE DNext(up) /\ Decodes
  <2>0. UNCHANGED <<receiver, transferInfos, worker>>
    BY <1>2, Zenon DEF Decodes, pvars, threads, tables
  \* a request that enters the transfer queue is not known of
  <2>1. ASSUME NEW r \in Room, dstage'[r] = "transfer"
        PROVE  \/ dstage[r] = "transfer" /\ dpages'[r] = dpages[r] /\ dslot'[r] = dslot[r]
               \/ /\ ~InFlight(r) /\ transferInfos[r] = None /\ ~AtWorker(r)
                  /\ \E m \in Metadata : /\ m.room = r /\ m.pages = dpages'[r] /\ m.slot = dslot'[r]
                                         /\ toPrefill' = Append(toPrefill, m)
    <3>1. dstage[r] = "prealloc" => ~InFlight(r) /\ transferInfos[r] = None /\ ~AtWorker(r)
      BY Zenon DEF TInv, MetadataOnce, ChunksInOrder, Untold, Unannounced
    <3> QED BY <2>1, <3>1, TransferKeeps, Zenon
  <2>2. \/ toPrefill' = toPrefill
        \/ \E m \in Metadata \cup {Register} : toPrefill' = Append(toPrefill, m)
    BY <1>2, DecodeSends, Zenon DEF TInv, StatusTyped, DStatusRight
  <2>3. Listed(toPrefill) \subseteq Listed(toPrefill')
    <3>1. CASE toPrefill' = toPrefill
      BY <3>1, Zenon
    <3>2. ASSUME NEW m \in Metadata \cup {Register}, toPrefill' = Append(toPrefill, m)
          PROVE  Listed(toPrefill) \subseteq Listed(toPrefill')
      <4>1. Listed(Append(toPrefill, m)) = Listed(toPrefill) \cup {m}
        BY <1>0, <3>2, AppendToSeq
      <4> QED BY <3>2, <4>1, Zenon
    <3> QED BY <2>2, <3>1, <3>2, Zenon
  <2>4. ASSUME NEW m \in Listed(toPrefill'), m # Register, dstage'[m.room] = "transfer"
        PROVE  m.pages = dpages'[m.room] /\ m.slot = dslot'[m.room]
    <3>1. CASE m \in Listed(toPrefill)
      <4>1. dstage[m.room] = "transfer" /\ dpages'[m.room] = dpages[m.room] /\ dslot'[m.room] = dslot[m.room]
        <5>1. InFlight(m.room)
          BY <3>1, Zenon DEF InFlight
        <5>2. m.room \in Room
          BY <1>0, <2>4, <3>1 DEF Listed
        <5> QED BY <2>1, <2>4, <5>1, <5>2, Zenon
      <4> QED BY <1>0, <2>4, <3>1, <4>1, Zenon DEF MetadataRight
    <3>2. CASE m \notin Listed(toPrefill)
      <4>1. PICK x \in Metadata \cup {Register} : toPrefill' = Append(toPrefill, x)
        BY <2>2, <2>4, <3>2, Zenon
      <4>2. Listed(toPrefill') = Listed(toPrefill) \cup {x}
        BY <1>0, <4>1, AppendToSeq
      <4>3. m = x /\ m \in Metadata /\ m.room \in Room
        BY <1>0, <2>4, <3>2, <4>2, Zenon
      <4>4. CASE \E y \in Metadata : /\ y.room = m.room /\ y.pages = dpages'[m.room] /\ y.slot = dslot'[m.room]
                                     /\ toPrefill' = Append(toPrefill, y)
        <5>1. PICK y \in Metadata : /\ y.pages = dpages'[m.room] /\ y.slot = dslot'[m.room]
                                    /\ toPrefill' = Append(toPrefill, y)
          BY <4>4, Zenon
        <5>2. Listed(toPrefill') = Listed(toPrefill) \cup {y}
          BY <1>0, <5>1, AppendToSeq
        <5> QED BY <5>1, <2>4, <3>2, <5>2, Zenon
      <4>5. CASE dstage[m.room] = "transfer"
        \* only the metadata of a new request is sent
        <5>1. toPrefill' # Append(toPrefill, Register)
          <6>1. Register \in Metadata \cup {Register}
            OBVIOUS
          <6>2. toPrefill' = Append(toPrefill, Register) => Listed(toPrefill') = Listed(toPrefill) \cup {Register}
            BY <1>0, <6>1, AppendToSeq
          <6> QED BY <2>4, <3>2, <6>2
        <5>2. PICK q \in Room, y \in Metadata : Unannounced(q) /\ y.room = q /\ toPrefill' = Append(toPrefill, y)
          BY <1>2, DecodeSends, <2>4, <3>2, <5>1, Zenon DEF TInv, StatusTyped, DStatusRight
        <5>3. m = y
          BY <2>4, <3>2, <1>0, <5>2, AppendToSeq
        <5> QED BY <4>3, <4>5, <5>2, <5>3, Zenon DEF TInv, DStatusRight, Unannounced
      <4> QED BY <2>1, <2>4, <4>3, <4>4, <4>5, Zenon
    <3> QED BY <3>1, <3>2, Zenon
  <2>5. receiver.pc = "store" /\ dstage'[receiver.msg.room] = "transfer" =>
          receiver.msg.pages = dpages'[receiver.msg.room] /\ receiver.msg.slot = dslot'[receiver.msg.room]
    <3> SUFFICES ASSUME receiver.pc = "store", dstage'[receiver.msg.room] = "transfer"
                 PROVE  receiver.msg.pages = dpages'[receiver.msg.room] /\ receiver.msg.slot = dslot'[receiver.msg.room]
      OBVIOUS
    <3> QED BY <1>0, <2>1, Zenon DEF MetadataRight, InFlight
  <2>6. \A r \in Room : dstage'[r] = "transfer" => transferInfos[r] \in {None, EmptyInfo, InfoOf(r)'}
    <3> SUFFICES ASSUME NEW r \in Room, dstage'[r] = "transfer"
                 PROVE  transferInfos[r] \in {None, EmptyInfo, InfoOf(r)'}
      OBVIOUS
    <3>1. CASE dstage[r] = "transfer" /\ dpages'[r] = dpages[r] /\ dslot'[r] = dslot[r]
      BY <1>0, <3>1, Zenon DEF MetadataRight, InfoOf
    <3> QED BY <2>1, <3>1, Zenon
  <2>7. \A r \in Room : ~InFlight(r)' => transferInfos[r] \in Info \cup {None}
    BY <1>0, <2>0, <2>3, Zenon DEF MetadataRight, InFlight, Listed
  <2>8. worker.pc \in {"send", "aux"} /\ dstage'[worker.chunk.room] = "transfer" =>
          worker.info = [pages |-> dpages'[worker.chunk.room], slot |-> dslot'[worker.chunk.room]]
    <3> SUFFICES ASSUME worker.pc \in {"send", "aux"}, dstage'[worker.chunk.room] = "transfer"
                 PROVE  worker.info = [pages |-> dpages'[worker.chunk.room], slot |-> dslot'[worker.chunk.room]]
      OBVIOUS
    <3> QED BY <1>0, <2>1, Zenon DEF MetadataRight, InfoOf, AtWorker
  <2> QED BY <2>0, <2>4, <2>5, <2>6, <2>7, <2>8, Zenon DEF MetadataRight, InfoOf, Listed
<1> QED BY <1>1, <1>2, Zenon DEF Next

\* The decode server's threads and queues do not write its KV or its buffers.
LEMMA DecodeWritesNothing == ASSUME NEW alive, DNext(alive) PROVE UNCHANGED <<mem, dbuf>>
BY Zenon DEF DNext, DScheduler, DArrive, DAbort, HandshakeReady, HandshakeFailed, Preallocate, Commit,
   Decoded, TransferFailed, ResolvePending, StatusArrives, StatusCounted, StatusMarked, HeartbeatOk,
   HeartbeatFailed, RoomChecked, RoomFailed, shared

\* The metadata of a transfer is written before its success is reported.
LEMMA BuffersWrittenStep ==
  ASSUME TInv, MetadataRight, BuffersWritten, Next
  PROVE  BuffersWritten'
<1>0. /\ queue \in Seq(KVChunk) /\ None \notin Room
      /\ worker.pc \in Busy => worker.chunk \in KVChunk
      /\ \A c \in KVChunk : c.room \in Room /\ c.slot \in PSlot
      /\ pbuf \in [PSlot -> Room \cup {None}] /\ dbuf \in [DSlot -> Room \cup {None}]
      /\ dslot \in [Room -> DSlot \cup {None}]
      /\ \A r \in Room : dslot[r] # None <=> dstage[r] = "transfer"
      /\ BuffersWritten
  BY PollValues, Zenon DEF TInv, ChunksTyped, KVChunk, Busy, IInv, DSlotsInv, DTyped
<1>1. ASSUME queue' = queue,
             worker'.pc \in Busy => worker.pc \in Busy /\ worker'.chunk = worker.chunk,
             \A b \in PSlot : pbuf[b] # None => pbuf'[b] # None,
             \A r \in Room : Succeeded(r)' /\ dstage'[r] = "transfer" => dbuf'[dslot'[r]] # None
      PROVE  BuffersWritten'
  BY <1>0, <1>1 DEF BuffersWritten, Busy, Listed
\* a request in the transfer queue keeps its buffer, and nothing clears one
<1>2. ASSUME \A b \in DSlot : dbuf[b] # None => dbuf'[b] # None, NEW r \in Room, Succeeded(r),
             dstage'[r] = "transfer"
      PROVE  dbuf'[dslot'[r]] # None
  <2>1. dstage[r] # "prealloc"
    BY <1>2, Zenon DEF TInv, ReportsInOrder, Untold, Unannounced
  <2>2. dstage[r] = "transfer" /\ dslot'[r] = dslot[r]
    BY <1>2, <2>1, TransferKeeps, Zenon
  <2> QED BY <1>0, <1>2, <2>2, Zenon DEF BuffersWritten
<1>3. \A r \in Room : Succeeded(r)' => Succeeded(r) \/ Finishes(r)
  BY ReportsStep, Zenon
<1>4. CASE DNext(up) /\ Decodes
  <2>1. UNCHANGED <<queue, worker, pbuf, dbuf>>
    BY <1>4, DecodeWritesNothing, Zenon DEF Decodes, pvars, queues, threads
  <2>2. \A r \in Room : ~Finishes(r)
    <3>1. UNCHANGED worker
      BY <2>1, Zenon
    <3>2. WorkerSendsAux => worker'.pc = "check" /\ worker.pc = "aux"
      BY Zenon DEF WorkerSendsAux, Goto, At, TInv, ChunksTyped
    <3> QED BY <3>1, <3>2, Zenon DEF Finishes
  <2>3. \A r \in Room : Succeeded(r)' /\ dstage'[r] = "transfer" => dbuf'[dslot'[r]] # None
    BY <1>2, <1>3, <2>1, <2>2, Zenon
  <2> QED BY <1>1, <2>1, <2>3, Zenon
<1>5. CASE PNext /\ Prefills
  <2>0. UNCHANGED <<dstage, dslot>>
    BY <1>5, Zenon DEF Prefills, dvars, dqueues
  <2>1. ASSUME NEW q \in Room, PrefillChunk(q) PROVE BuffersWritten'
    <3> DEFINE c == [room |-> q, k |-> prefilled[q] + 1, last |-> Last(q), slot |-> pslot[q]]
    <3>1. /\ pstage[q] \in {"waiting", "chunked"} /\ UNCHANGED <<worker, dbuf>>
          /\ pbuf' = IF Last(q) THEN [pbuf EXCEPT ![pslot[q]] = q] ELSE pbuf
          /\ queue' = queue \/ queue' = Append(queue, c)
      BY <2>1, Zenon DEF PrefillChunk, SendKVChunk, AddTransferRequest, threads, SetBuf, shared
    <3>2. pslot[q] \in PSlot /\ prefilled[q] + 1 \in Nat /\ Last(q) \in BOOLEAN
      BY <3>1 DEF TInv, IInv, PSlotsInv, PTyped, ChunksTyped, Last
    <3>3. c \in KVChunk /\ c.slot = pslot[q] /\ (c.last <=> Last(q))
      BY <3>2, Zenon DEF KVChunk
    <3>4. \A r \in Room : ~Finishes(r)
      <4>1. UNCHANGED worker
        BY <3>1, Zenon
      <4>2. WorkerSendsAux => worker'.pc = "check" /\ worker.pc = "aux"
        BY Zenon DEF WorkerSendsAux, Goto, At, TInv, ChunksTyped
      <4> QED BY <4>1, <4>2, Zenon DEF Finishes
    <3> HIDE DEF c
    <3>5. /\ \A b \in PSlot : pbuf[b] # None => pbuf'[b] # None
          /\ c.last => pbuf'[c.slot] # None
      BY <1>0, <3>1, <3>2, <3>3, Zenon
    <3>6. \A r \in Room : Succeeded(r)' /\ dstage'[r] = "transfer" => dbuf'[dslot'[r]] # None
      BY <1>2, <1>3, <3>1, <3>4, Zenon
    <3>7. CASE queue' = queue
      BY <1>1, <3>1, <3>5, <3>6, <3>7, Zenon
    <3>8. CASE queue' = Append(queue, c)
      <4>1. Listed(queue') = Listed(queue) \cup {c} /\ Listed(queue') = Listed(queue)'
        <5>1. Listed(Append(queue, c)) = Listed(queue) \cup {c}
          BY <1>0, <3>3, AppendToSeq
        <5> QED BY <3>8, <5>1, Zenon DEF Listed
      <4>2. \A x \in Listed(queue) : x \in KVChunk
        BY <1>0 DEF Listed
      <4> QED BY <1>0, <3>1, <3>5, <3>6, <4>1, <4>2, Zenon DEF BuffersWritten, Busy
    <3> QED BY <3>1, <3>7, <3>8, Zenon
  <2>2. ASSUME WorkerSendsAux PROVE BuffersWritten'
    <3> DEFINE r == worker.chunk.room
    <3>1. /\ worker.pc = "aux" /\ worker'.pc = "check" /\ UNCHANGED <<queue, pbuf>>
          /\ dbuf' = dbuf \/ SendAux(worker.chunk)
      BY <2>2, Zenon DEF WorkerSendsAux, At, Goto, TInv, ChunksTyped, queues
    <3>2. /\ worker.chunk \in KVChunk /\ worker.info \in Info /\ worker.info.slot \in DSlot
          /\ worker.chunk.last /\ pbuf[worker.chunk.slot] # None
      BY <1>0, <3>1, Zenon DEF TInv, ChunksTyped, Info, ChunksInOrder, BuffersWritten, Busy
    <3>3. \A b \in DSlot : dbuf[b] # None => dbuf'[b] # None
      BY <1>0, <3>1, <3>2, Zenon DEF SendAux
    <3>4. \A q \in Room : Finishes(q) /\ dstage'[q] = "transfer" => dbuf'[dslot'[q]] # None
      <4> SUFFICES ASSUME NEW q \in Room, Finishes(q), dstage'[q] = "transfer"
                   PROVE  dbuf'[dslot'[q]] # None
        OBVIOUS
      <4>1. q = worker.chunk.room /\ SendAux(worker.chunk) /\ dstage[q] = "transfer"
        BY <2>0, Zenon DEF Finishes
      <4>2. worker.info = InfoOf(q)
        BY <3>1, <4>1, Zenon DEF MetadataRight
      <4>3. worker.info.slot = dslot'[q]
        BY <2>0, <4>2 DEF InfoOf
      <4> QED BY <1>0, <3>2, <4>1, <4>3, Zenon DEF SendAux
    <3>5. \A q \in Room : Succeeded(q)' /\ dstage'[q] = "transfer" => dbuf'[dslot'[q]] # None
      BY <1>2, <1>3, <3>3, <3>4, Zenon
    <3> QED BY <1>1, <3>1, <3>5, Zenon DEF Busy
  <2>3. ASSUME ~WorkerSendsAux, dbuf' = dbuf
        PROVE  \A r \in Room : Succeeded(r)' /\ dstage'[r] = "transfer" => dbuf'[dslot'[r]] # None
    BY <1>2, <1>3, <2>3, Zenon DEF Finishes
  <2>4. ASSUME WorkerGets PROVE BuffersWritten'
    <3>1. /\ queue # <<>> /\ queue' = Tail(queue) /\ UNCHANGED <<pbuf, dbuf>>
          /\ worker'.chunk = Head(queue) /\ worker.pc = "get"
      BY <2>4, Zenon DEF WorkerGets, queues, shared, At
    <3>2. Listed(queue) = Listed(queue') \cup {Head(queue)} /\ Listed(queue') = Listed(queue)'
      <4>1. Listed(queue) = Listed(Tail(queue)) \cup {Head(queue)}
        BY <1>0, <3>1, TakeFromSeq, Zenon
      <4> QED BY <3>1, <4>1, Zenon DEF Listed
    <3>3. ~WorkerSendsAux
      BY <3>1, Zenon DEF WorkerSendsAux, At
    <3> QED BY <1>0, <2>3, <3>1, <3>2, <3>3, Zenon DEF BuffersWritten
  <2>5. CASE WorkerSends
    <3>1. /\ worker.pc = "send" /\ UNCHANGED <<queue, pbuf, dbuf>>
          /\ \E p : worker' = [worker EXCEPT !.pc = p]
      BY <2>5, Zenon DEF WorkerSends, SendFails, SendSucceeds, Goto, At, queues
    <3>2. worker'.chunk = worker.chunk /\ ~WorkerSendsAux
      BY <3>1, Zenon DEF TInv, ChunksTyped, WorkerSendsAux, At
    <3> QED BY <1>1, <2>3, <3>1, <3>2, Zenon DEF Busy
  <2>6. CASE WorkerLooks
    <3>1. worker.pc = "look" /\ UNCHANGED <<queue, pbuf, dbuf>>
      BY <2>6, Zenon DEF WorkerLooks, At, queues, shared
    <3>2. worker'.pc \in Busy => worker'.chunk = worker.chunk
      BY <2>6, Zenon DEF WorkerLooks, Busy, TInv, ChunksTyped, DeadWorker, Idle
    <3>3. ~WorkerSendsAux
      BY <3>1, Zenon DEF WorkerSendsAux, At
    <3> QED BY <1>1, <2>3, <3>1, <3>2, <3>3, Zenon DEF Busy
  <2>7. CASE WorkerChecks \/ WorkerReadsStatus \/ WorkerOwns \/ WorkerPops
    <3>1. worker.pc # "aux" /\ UNCHANGED <<queue, pbuf, dbuf>>
      BY <2>7, Zenon DEF WorkerChecks, WorkerReadsStatus, WorkerOwns, WorkerPops, At, queues, shared
    <3>2. worker'.pc \notin Busy
      <4>1. \A p \in {"owned", "status", "pop"} : [worker EXCEPT !.pc = p].pc = p
        BY Zenon DEF TInv, ChunksTyped
      <4>2. Idle.pc \notin Busy /\ DeadWorker.pc \notin Busy
        BY Zenon DEF Idle, DeadWorker, Busy
      <4>3. worker' \in {Idle, DeadWorker, [worker EXCEPT !.pc = "owned"], [worker EXCEPT !.pc = "pop"],
                         [worker EXCEPT !.pc = "status"]}
        BY <2>7, Zenon DEF WorkerChecks, WorkerReadsStatus, WorkerOwns, WorkerPops, Goto
      <4> QED BY <4>1, <4>2, <4>3, Zenon DEF Busy
    <3>3. ~WorkerSendsAux
      BY <3>1, Zenon DEF WorkerSendsAux, At
    <3> QED BY <1>1, <2>3, <3>1, <3>2, <3>3, Zenon
  <2>8. ASSUME UNCHANGED <<queue, worker, pbuf, dbuf>> PROVE BuffersWritten'
    <3>1. WorkerSendsAux => worker'.pc = "check" /\ worker.pc = "aux"
      BY Zenon DEF WorkerSendsAux, Goto, At, TInv, ChunksTyped
    <3> QED BY <1>1, <2>3, <2>8, <3>1, Zenon
  <2>9. ASSUME NEW q \in Room, NEW why,
               \/ PArrive(q) \/ BootstrapFailed(q, why) \/ Bootstrapped(q) \/ TransferEnded(q, why)
               \/ PAbort(q)
        PROVE  BuffersWritten'
    BY <2>8, <2>9, Zenon DEF PArrive, BootstrapFailed, Bootstrapped, TransferEnded, PAbort, shared, threads
  <2>10. CASE Registered \/ MetadataArrives \/ MetadataStored \/ Probe \/ Crash
    BY <2>8, <2>10, Zenon DEF Registered, MetadataArrives, MetadataStored, Probe, Crash, shared,
       queues, threads
  <2> QED BY <1>5, <2>1, <2>2, <2>4, <2>5, <2>6, <2>7, <2>9, <2>10, Zenon DEF PNext, PScheduler,
             Worker
<1> QED BY <1>4, <1>5, Zenon DEF Next

\* the invariant of the metadata
MInv == TInv /\ MetadataRight /\ BuffersWritten

\* It holds before any request.
LEMMA InitMInv == Init => MInv
<1> SUFFICES ASSUME Init PROVE MInv
  OBVIOUS
<1>e. Listed(<<>>) = {}
  BY DEF Listed
<1> USE DEF Init, CommonInit, PInit, DInit
<1>1. MetadataRight
  BY <1>e, Zenon DEF MetadataRight, Listening, Idle
<1>2. BuffersWritten
  BY <1>e, Zenon DEF BuffersWritten, Idle
<1> QED BY InitTInv, <1>1, <1>2, Zenon DEF MInv

\* Every step of either server keeps it.
LEMMA MStep == MInv /\ [Next]_vars => MInv'
<1> SUFFICES ASSUME MInv, [Next]_vars PROVE MInv'
  OBVIOUS
<1>1. TInv'
  BY ProtocolStep, Zenon DEF MInv
<1>2. CASE Next
  BY <1>1, <1>2, MetadataStep, BuffersWrittenStep, Zenon DEF MInv
<1>3. CASE UNCHANGED vars
  <2>1. UNCHANGED <<toPrefill, toDecode, dbuf, transferInfos, pbuf, queue, worker, receiver, dstage,
                    dstatus, dpages, dslot, listener>>
    BY <1>3, Zenon DEF vars, shared, pvars, queues, tables, threads, dvars, dqueues, dtables,
       dthreads
  <2>2. /\ Listed(toPrefill)' = Listed(toPrefill) /\ Listed(toDecode)' = Listed(toDecode)
        /\ Listed(queue)' = Listed(queue) /\ \A r : InfoOf(r)' = InfoOf(r)
        /\ InfoOf(worker.chunk.room)' = InfoOf(worker.chunk.room)
    BY <2>1, Zenon DEF Listed, InfoOf
  <2>3. \A r : (InFlight(r)' <=> InFlight(r)) /\ (Succeeded(r)' <=> Succeeded(r))
    BY <2>1, <2>2, Zenon DEF InFlight, Succeeded
  <2> QED BY <1>1, <2>1, <2>2, <2>3, Zenon DEF MInv, MetadataRight, BuffersWritten
<1> QED BY <1>2, <1>3, Zenon
=============================================================================
