------------------------------ MODULE PDDisagg ------------------------------
(***************************************************************************)
(* A prefill server and a decode server with a router that sends every     *)
(* request to both: the composition of PDPrefill and PDDecode, and the     *)
(* properties of the KV transfer between them.                             *)
(***************************************************************************)
EXTENDS PDPrefill, PDDecode

\* history: something has been given away, or a blacklisted session readmitted,
\* while a transfer was in progress
VARIABLE overtaken

vars == <<shared, pvars, dvars, reserved, overtaken>>

\* the prefill server may still write into the decode pages of r
Unsent(r) ==
  /\ up
  /\ \/ pstage[r] \in {"none", "bootstrap", "waiting", "chunked"}
     \/ \E i \in DOMAIN queue : queue[i].room = r
     \/ worker.pc \in {"look", "send", "aux"} /\ worker.chunk.room = r

\* decode pages are released that may still be written
DecodeGaveUp(r) == dpages[r] # <<>> /\ dpages'[r] = <<>> /\ Unsent(r) /\ ~badSession

\* prefill pages are released while they are being read
PrefillGaveUp(r) ==
  /\ held[r] /\ ~held'[r]
  /\ worker.pc \in {"send", "aux"} /\ worker.chunk.room = r

\* the session of a transfer that has failed is readmitted
Readmitted(r) == /\ badSession /\ ~badSession'
                 /\ Unsent(r) /\ (prefilled[r] > 0 \/ dstage[r] = "done")

Init == CommonInit /\ PInit /\ DInit /\ overtaken = FALSE

Overtaking == overtaken' = (\/ overtaken
                            \/ \E r \in Room : \/ DecodeGaveUp(r) \/ PrefillGaveUp(r)
                                              \/ Readmitted(r))

\* what a step of one server leaves alone
Prefills == UNCHANGED dvars /\ UNCHANGED reserved /\ Overtaking
Decodes  == UNCHANGED pvars /\ UNCHANGED reserved /\ Overtaking

Next == \/ PNext /\ Prefills
        \/ DNext(up) /\ Decodes

Spec == Init /\ [][Next]_vars

\* The loops of both schedulers come round to every request, their threads run,
\* and the deadlines of waiting requests pass.  Nothing is assumed of clients,
\* the network or the heartbeat of a live server.
Fairness ==
  /\ \A r \in Room : /\ WF_vars(PScheduler(r) /\ Prefills)
                     /\ WF_vars(DScheduler(r) /\ Decodes)
  /\ WF_vars(ResolvePending(up) /\ Decodes)
  /\ WF_vars((Registered \/ MetadataArrives \/ MetadataStored) /\ Prefills)
  /\ WF_vars(Worker /\ Prefills)
  /\ WF_vars((StatusArrives \/ StatusCounted \/ StatusMarked) /\ Decodes)

FairSpec == Spec /\ Fairness

----------------------------------------------------------------------------
(* Safety                                                                   *)

Distinct(s) == \A i, j \in DOMAIN s : s[i] = s[j] => i = j

\* the buffers free, and those of the requests, which are each the only holder
Exclusive(free, slot) ==
  /\ Distinct(free)
  /\ \A r \in Room : slot[r] # None =>
       /\ \A i \in DOMAIN free : free[i] # slot[r]
       /\ \A q \in Room : slot[q] = slot[r] => q = r

\* No metadata buffer is held by two requests, or by one and the free list, on
\* either server, and a request has one exactly in the stages that use it.  The
\* decode server's release (pop_transferred) and the prefill server's three
\* (abort_request, the inflight queue twice) never free an index again: the code
\* has no check of its own (ReqToMetadataIdxAllocator.free appends).
SlotsExclusive ==
  /\ Exclusive(pfree, pslot) /\ Exclusive(dslots, dslot)
  /\ \A r \in Room : /\ pslot[r] # None <=> pstage[r] \in {"waiting", "chunked", "inflight"}
                     /\ dslot[r] # None <=> dstage[r] = "transfer"

\* No KV page of the decode server belongs to two requests, or to one and the
\* free list, and only a request in the transfer queue or running has pages
\* (_pre_alloc and release_kv_cache, called from four places).
PagesExclusive ==
  /\ Distinct(dfree)
  /\ \A r \in Room :
       /\ dpages[r] # <<>> => dstage[r] \in {"transfer", "running"}
       /\ Distinct(dpages[r])
       /\ \A i \in DOMAIN dpages[r] :
            /\ \A j \in DOMAIN dfree : dfree[j] # dpages[r][i]
            /\ \A q \in Room : \A j \in DOMAIN dpages[q] :
                 dpages[q][j] = dpages[r][i] => q = r

Listed(s) == {s[i] : i \in DOMAIN s}

\* No abort, timeout, failed transfer or mismatch (pop_transferred,
\* abort_request) loses a metadata buffer or a page: each is free or held.
NothingLeaks ==
  /\ Len(pfree) + Cardinality({r \in Room : pslot[r] # None}) = PSlots
  /\ Len(dslots) + Cardinality({r \in Room : dslot[r] # None}) = DSlots
  /\ Listed(dfree) \cup UNION {Listed(dpages[r]) : r \in Room} = 1 .. DPages

OwnKV(r) == \A k \in 1 .. NumChunks[r] : mem[dpages[r][k]] = <<r, k>>

\* A request that the decode server runs has all of its own KV in its pages, and
\* no request finds the metadata of another (_commit_transfer_to_req), whatever
\* fails, as long as neither server releases memory of a transfer in progress and
\* no blacklisted session is readmitted during one.
KVIntact == ~overtaken => /\ \A r \in Room : dstage[r] = "running" => OwnKV(r)
                          /\ corrupt = {}

\* A Failed status is only ever found for a request that is in a queue: a late
\* failure (abort, a status message, a lost heartbeat, a chunk still queued) does
\* not leave an entry for the next user of the room (update_status).
NoPollution == \A r \in Room :
  /\ pstatus[r] = Failed => pstage[r] \notin {"none", "done"}
  /\ dstatus[r] = Failed => dstage[r] \in {"prealloc", "transfer"}

\* No poll of a scheduler raises: the room of a queued request has a status
\* (check_status), and its value is one the queue expects
\* (_update_handshake_waiters and pop_transferred raise ValueError on others).
PollsExpected == \A r \in Room :
  /\ pstage[r] \in {"bootstrap", "inflight"} => PPoll(r) # None
  /\ pstage[r] = "inflight" => PPoll(r) # Bootstrapping
  /\ dstage[r] = "prealloc" => DPoll(r) \in {Failed, Bootstrapping, WaitingForInput}
  /\ dstage[r] = "transfer" => DPoll(r) \in {Failed, WaitingForInput, Success}

\* When a transfer counts as complete its metadata has landed: the gate of
\* _apply_metadata_gate holds no request back for ever, and what opens it is the
\* request's own metadata, not that of an earlier user of the buffer (which nobody
\* zeroes), as long as nothing of a transfer in progress was given away.
MetadataLanded == \A r \in Room : dstage[r] = "transfer" /\ DPoll(r) = Success =>
  /\ MetadataGate(r)
  /\ ~overtaken => dbuf[dslot[r]] = r

\* A request that the decode server runs has all of its own KV
\* (_commit_transfer_to_req validates the room to detect context corruption).
CommittedKV == \A r \in Room : dstage[r] = "running" => OwnKV(r)

----------------------------------------------------------------------------
(* Liveness                                                                 *)

\* a prompt that passes the check of its length against the pool, and still leaves
\* no room for the reserve of its output (pop_preallocated)
TooLong(r) == NumChunks[r] + reserved > DPages

\* r is ready and too long, or has such a request before it
Stuck(r) == \E i, j \in DOMAIN dorder :
  /\ i <= j /\ dorder[j] = r
  /\ dorder[i] \in ready /\ TooLong(dorder[i])

\* Every request the decode server has queued is decoded or answered with an
\* error, even when the prefill server dies or threads of either server do
\* (_max_ensure_retries, _handle_node_failure, _check_waiting_timeout), unless it
\* is stuck at or behind a prompt that pop_preallocated never admits.
DecodeAnswers == \A r \in Room :
  dstage[r] = "prealloc" ~> dstage[r] \in {"running", "done"} \/ Stuck(r)

\* Every request the prefill server has queued leaves it, unless the server or
\* its transfer worker dies (_check_bootstrap_timeout, the inflight queue).
PrefillAnswers == \A r \in Room :
  pstage[r] = "bootstrap" ~> pstage[r] = "done" \/ ~up \/ worker.pc = "dead"
=============================================================================
