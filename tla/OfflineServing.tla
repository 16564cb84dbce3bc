--------------------------- MODULE OfflineServing ---------------------------
(***************************************************************************)
(* How the redknot attention backend (layers/attention/redknot_backend.py) *)
(* builds and uses offline segments while it serves batches.  A forward    *)
(* pass runs layer by layer, and in each layer request by request:         *)
(*   a build request (plan "__RKBUILD__:<sid>") is prefilled densely and,  *)
(*   in the last layer, its KV is put into the offline cache;              *)
(*   a query looks its segments up in every layer, with to_device, and     *)
(*   attends to those it finds.                                            *)
(* The cache of OfflineKVCache therefore changes under a query between two *)
(* of its layers.  A token takes one byte.                                 *)
(***************************************************************************)
EXTENDS OfflineKVCache, Sequences

CONSTANTS Req,       \* requests
          Plan,      \* redknot_offline_segments of each request: a segment to
                     \* build, or a sequence of segments to use
          TextLen,   \* the number of tokens of its prompt
          Layers,    \* full-attention layers, all captured by a snapshot
          ChunkSize  \* chunked_prefill_size

ASSUME ServingAssumption ==
  /\ \A r \in Req : TextLen[r] \in Nat \ {0} /\ 0 .. TextLen[r] \subseteq Sizes
  /\ Layers \in Nat \ {0} /\ ChunkSize \in Nat \ {0}

VARIABLES batch,    \* the requests of the forward batch, <<>> between batches
          layer,    \* the layer the pass is in
          at,       \* the request of the batch it is at
          next,     \* the segment of that request's plan it looks up next
          done,     \* tokens of each request with KV in the pool
          pre,      \* extend_prefix_lens
          splice,   \* the segments a query attended to, per layer: id, length
                    \* and residency
          begun,    \* the cache when the batch began: id and length (history)
          made      \* the layers captured in each registered segment (history)

serving == <<batch, layer, at, next, done, pre, splice, begun, made>>
allVars == <<vars, serving>>

\* _parse_build_sentinel
IsBuild(r) == Plan[r] \in Seg

Least(a, b) == IF a < b THEN a ELSE b
SeqLen(r) == Least(pre[r] + ChunkSize, TextLen[r])
Pending == {r \in Req : done[r] < TextLen[r]}

ServingInit == /\ Init
               /\ batch = <<>> /\ layer = 1 /\ at = 1 /\ next = 1
               /\ done = [r \in Req |-> 0]
               /\ pre = [r \in Req |-> 0]
               /\ splice = [r \in Req |-> [l \in 1 .. Layers |-> <<>>]]
               /\ begun = [s \in {} |-> 0]
               /\ made = [s \in {} |-> 0]

Batches == {<<r>> : r \in Pending} \cup
           {<<r, q>> : r \in Pending, q \in Pending}

\* The scheduler makes an extend batch (the radix cache is off, as the design
\* asks for build requests): a request goes on where its last chunk ended.
StartBatch(b) ==
  LET in == {b[i] : i \in DOMAIN b}
  IN  /\ batch = <<>>
      /\ Cardinality(in) = Len(b)
      /\ batch' = b
      /\ layer' = 1 /\ at' = 1 /\ next' = 1
      /\ pre' = [r \in Req |-> IF r \in in THEN done[r] ELSE pre[r]]
      /\ begun' = [s \in DOMAIN segments |-> segments[s].nbytes]
      /\ UNCHANGED <<vars, done, splice, made>>

\* on to the next request, layer or batch; at the end of the pass the KV of
\* every request of the batch is in the pool
Advance ==
  LET ended == at = Len(batch) /\ layer = Layers
      in    == {batch[i] : i \in DOMAIN batch}
  IN  /\ next' = 1
      /\ at' = IF at < Len(batch) THEN at + 1 ELSE 1
      /\ layer' = IF at < Len(batch) \/ ended THEN layer ELSE layer + 1
      /\ batch' = IF ended THEN <<>> ELSE batch
      /\ done' = [r \in Req |-> IF ended /\ r \in in THEN SeqLen(r) ELSE done[r]]
      /\ UNCHANGED <<pre, begun>>

\* mutant: snapshots in the first layer, max(ids) taken as min(ids)
IsFirstOfflineLayer(l) == l = 1
IsLastOfflineLayer(l) == l = Layers

\* snapshot_offline_segment: layers 1 .. layer of this step hold the KV of the
\* SeqLen(r) tokens; the put does nothing for an id the cache has
Snapshot(r) ==
  LET s == Plan[r]
  IN  /\ Put(s, "cuda", SeqLen(r))
      /\ made' = [t \in DOMAIN made \cup {s} |->
                    IF t = s /\ s \notin DOMAIN segments THEN layer ELSE made[t]]

\* forward_extend for a build request
BuildStep ==
  /\ batch # <<>>
  /\ IsBuild(batch[at])
  /\ IF IsLastOfflineLayer(layer) THEN Snapshot(batch[at]) ELSE UNCHANGED <<vars, made>>
  /\ Advance
  /\ UNCHANGED splice

\* _redknot_single_extend: look the next segment up; a missing one is skipped
ResolveSegment ==
  /\ batch # <<>>
  /\ ~IsBuild(batch[at])
  /\ next <= Len(Plan[batch[at]])
  /\ LET r == batch[at]
         s == Plan[r][next]
     IN  \/ /\ s \notin DOMAIN segments
            /\ UNCHANGED <<vars, splice>>
         \/ /\ ToDevice(s, "cuda")
            /\ splice' = [splice EXCEPT ![r][layer] =
                 Append(@, [seg |-> s, len |-> segments[s].nbytes,
                            on  |-> IF s \in DOMAIN segments' THEN segments'[s].device
                                    ELSE "gone"])]
  /\ next' = next + 1
  /\ UNCHANGED <<batch, layer, at, done, pre, begun, made>>

\* _redknot_single_extend: attend to what was found
Attend ==
  /\ batch # <<>>
  /\ ~IsBuild(batch[at])
  /\ next > Len(Plan[batch[at]])
  /\ Advance
  /\ UNCHANGED <<vars, splice, made>>

ServingNext == \/ \E b \in Batches : StartBatch(b)
               \/ BuildStep \/ ResolveSegment \/ Attend

ServingSpec == ServingInit /\ [][ServingNext]_allVars

-----------------------------------------------------------------------------
(* Properties *)

\* "we run a plain dense prefill and, on the LAST full-attention layer,
\* snapshot the whole request's KV" (forward_extend): once a build request is
\* prefilled, the segment under its id, if any, is its whole text in all layers.
WholeSnapshot ==
  \A r \in Req : IsBuild(r) /\ batch = <<>> /\ done[r] = TextLen[r]
                   /\ Plan[r] \in DOMAIN segments
    => /\ segments[Plan[r]].nbytes = TextLen[r]
       /\ made[Plan[r]] = Layers

\* What a query attends to is on the GPU when it is fetched, although other
\* requests of the batch, and its own next segments, push segments to the host.
FetchedOnDevice ==
  \A r \in Req, l \in 1 .. Layers : \A i \in DOMAIN splice[r][l] :
    splice[r][l][i].on = "cuda"

\* A segment that was registered when the batch began is in the splice of every
\* layer of a query that names it, in plan order and with the same length, even
\* though builds of the same id and lookups of others run between the layers.
SpliceStable ==
  batch # <<>> /\ ~IsBuild(batch[at]) /\ next > Len(Plan[batch[at]]) =>
    LET r == batch[at]
        known(s) == s \in DOMAIN begun
        was == SelectSeq(Plan[r], known)
        old(x) == x.seg \in DOMAIN begun
        got == SelectSeq(splice[r][layer], old)
    IN  /\ Len(got) = Len(was)
        /\ \A i \in DOMAIN was : got[i].seg = was[i] /\ got[i].len = begun[was[i]]
=============================================================================
