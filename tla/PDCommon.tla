------------------------------ MODULE PDCommon ------------------------------
(***************************************************************************)
(* Prefill/decode disaggregation (srt/disaggregation), Mooncake backend:   *)
(* what the two servers share.  A prefill server computes the KV cache of  *)
(* a prompt and writes it by RDMA into pages that a decode server has      *)
(* allocated for it; a bootstrap room, unique to the request, names the    *)
(* transfer on both sides.  The servers also exchange messages over two    *)
(* ZMQ channels, which are FIFO.                                           *)
(* Both servers have one rank; a chunk of a prompt fills one page.         *)
(***************************************************************************)
EXTENDS Integers, Sequences, FiniteSets

CONSTANTS Room,        \* bootstrap rooms, one per request
          NumChunks,   \* the chunks, and the pages, of each request's prompt
          NewPages,    \* the pages of its output (max_new_tokens)
          DPages,      \* the number of KV pages of the decode server
          DReqs,       \* the size of its request pool (req_to_token_pool)
          Reserves,    \* the values of num_reserved_decode_tokens, in pages
          DSlots,      \* the number of its metadata buffers
          PSlots,      \* the number of the prefill server's metadata buffers
          MaxRetries,  \* _max_ensure_retries
          Faults,      \* which faults happen, of AllFaults
          None         \* the absent value

AllFaults ==
  {"abort",      \* a client aborts a request
   "timeout",    \* SGLANG_DISAGGREGATION_BOOTSTRAP_TIMEOUT, _WAITING_TIMEOUT
   "rdma",       \* an RDMA write fails
   "poll",       \* DISAGGREGATION_TEST_FAILURE_PROB: a poll reports Failed
   "probe",      \* a blacklisted session answers a probe
   "heartbeat",  \* a prefill server that is up misses its heartbeats
   "crash"}      \* the prefill server dies

ASSUME PDAssumption ==
  /\ NumChunks \in [Room -> Nat \ {0}]
  /\ NewPages \in [Room -> Nat] /\ Reserves \subseteq Nat
  /\ DPages \in Nat /\ DSlots \in Nat \ {0} /\ PSlots \in Nat \ {0}
  /\ DReqs \in Nat \ {0}
  /\ \A r \in Room : NumChunks[r] + NewPages[r] <= DPages
  /\ MaxRetries \in Nat \ {0}
  /\ Faults \subseteq AllFaults
  /\ None \notin Room \cup Nat \cup [pages : Seq(Nat), slot : Nat]

VARIABLES toPrefill,  \* the metadata messages on their way to the prefill server
          toDecode,   \* the status messages on their way to the decode server
          mem,        \* the KV in each decode page: a chunk of a room
          dbuf        \* the room in each decode metadata buffer, None for 0

shared == <<toPrefill, toDecode, mem, dbuf>>

\* KVPoll
Failed == 0
Bootstrapping == 1
WaitingForInput == 2
Success == 4
KVPoll == {Failed, Bootstrapping, WaitingForInput, Success}

\* the message that registers the decode server's session (_register_kv_args)
Register == [room |-> None, pages |-> <<>>, slot |-> None]

\* the content of a page or buffer that its owner has released
Junk == <<None, 0>>

\* mutant: Failed is written for a cleared room too
UpdateResurrecting(status, r, s) ==
  IF status[r] = None \/ s = Failed \/ s > status[r]
  THEN [status EXCEPT ![r] = s] ELSE status

\* CommonKVManager.update_status
UpdateStatus(status, r, s) ==
  IF status[r] = None
  THEN IF s = Failed THEN status ELSE [status EXCEPT ![r] = s]
  ELSE IF s = Failed \/ s > status[r]
       THEN [status EXCEPT ![r] = s] ELSE status

CommonInit == /\ toPrefill = <<>>
              /\ toDecode = <<>>
              /\ mem = [p \in 1 .. DPages |-> Junk]
              /\ dbuf = [b \in 1 .. DSlots |-> None]
=============================================================================
