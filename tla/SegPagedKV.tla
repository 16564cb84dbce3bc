----------------------------- MODULE SegPagedKV -----------------------------
(***************************************************************************)
(* SegPagedAttention in decode (segpaged.py, _segpaged_decode): every rank *)
(* takes its slice of the heads from a mask plan, stores the KV that each  *)
(* of its heads may see in pages of one pool, head after head, and then    *)
(* attends to what the page table gives back.  Implements HeadClassKV, in  *)
(* which a decode step is one step and has no pages.  A token of the pages *)
(* is named by the head and the position whose keys and values it holds.   *)
(***************************************************************************)
EXTENDS HeadClassKV, Sequences, Functions

CONSTANTS TPSize,   \* the number of ranks
          PageSize  \* segpaged_page_size

\* Heads are divided evenly: more ranks than heads, where QKVParallelLinear
\* replicates heads, is not covered.
ASSUME PagedAssumption == /\ PageSize \in Nat \ {0}
                          /\ TPSize \in Nat \ {0} /\ KVHeads % TPSize = 0

Rank == 0 .. TPSize - 1
PerRank == KVHeads \div TPSize  \* tp_k_head_num

VARIABLES plan,   \* the mask plan of each rank, None when it has none
          pool,   \* its SegPagedKVCache: the pages, and the segment of each head
          view    \* what each of its heads gathered, None before

vars == <<headVars, plan, pool, view>>

EmptyPool == [pages |-> <<>>, table |-> <<>>]

\* an unwritten slot of a page
Blank == [head |-> -1, pos |-> -1]

Arange(a, b) == [i \in 1 .. b - a |-> a + i - 1]

\* mutant: the window does not end at the recent tokens
KeptAll(s, n) == Arange(0, n)

\* the positions a head keeps, in the order they are stored
Kept(s, n) ==
  LET sink == AtMost(s.sink, n)
      back == n - AtMost(s.window, n)
      tail == IF back > sink THEN back ELSE sink
  IN  IF s.class = "local" THEN Arange(0, sink) \o Arange(tail, n) ELSE Arange(0, n)

\* k_seq[kvh].index_select(0, idx): the tokens of a head at some positions
KVOf(h, idx) == [i \in 1 .. Len(idx) |-> [head |-> h, pos |-> idx[i]]]

\* the pages of n tokens
NumPages(n) == (n + PageSize - 1) \div PageSize

\* _alloc_pages: virtual ids from next_virt on
AllocPages(p, n) == [i \in 1 .. NumPages(n) |-> Len(p.pages) + i]

\* a page of kv, which a short tail leaves partly blank
Page(kv, i) == [j \in 1 .. PageSize |-> LET t == (i - 1) * PageSize + j
                                        IN  IF t <= Len(kv) THEN kv[t] ELSE Blank]

\* mutant: a segment begins in the last page of the one before it
AddHeadSegmentPacked(p, kv) ==
  LET first == IF p.pages = <<>> THEN 0 ELSE Len(p.pages) - 1
      ids   == [i \in 1 .. NumPages(Len(kv)) |-> first + i]
  IN  [pages |-> SubSeq(p.pages, 1, first) \o [i \in 1 .. Len(ids) |-> Page(kv, i)],
       table |-> Append(p.table, [ids |-> ids, n |-> Len(kv)])]

\* add_head_segment
AddHeadSegment(p, kv) ==
  LET ids == AllocPages(p, Len(kv))
  IN  [pages |-> p.pages \o [i \in 1 .. Len(ids) |-> Page(kv, i)],
       table |-> Append(p.table, [ids |-> ids, n |-> Len(kv)])]

\* gather_head, gather_segment
GatherHead(p, k) ==
  LET seg == p.table[k + 1]
  IN  [i \in 1 .. seg.n |-> p.pages[seg.ids[((i - 1) \div PageSize) + 1]]
                                   [((i - 1) % PageSize) + 1]]

Idle == \A r \in Rank : plan[r] = None

----------------------------------------------------------------------------
Init == /\ HeadInit
        /\ plan = [r \in Rank |-> None]
        /\ pool = [r \in Rank |-> EmptyPool]
        /\ view = [r \in Rank |-> None]

\* mutant: a rank's slice is counted in ranks, not in heads
SliceByRank(all, r) == [k \in 0 .. PerRank - 1 |-> all[(r + k) % KVHeads]]

\* the heads of a rank
Slice(all, r) == [k \in 0 .. PerRank - 1 |-> all[r * PerRank + k]]

\* build_layer_mask_plan
BuildPlan(r) ==
  /\ segpaged /\ len < MaxLen /\ plan[r] = None
  /\ tensors' = AsTensors
  /\ plan' = [plan EXCEPT ![r] = Slice(tensors', r)]
  /\ UNCHANGED <<cfg, len, held, cut, read, segpaged, pool, view>>

\* the loop over the heads; the sequence has its new token by now
StoreHead(r) ==
  LET k == Len(pool[r].table)
  IN  /\ plan[r] # None /\ k < PerRank
      /\ pool' = [pool EXCEPT ![r] =
                    AddHeadSegment(@, KVOf(r * PerRank + k, Kept(plan[r][k], len + 1)))]
      /\ UNCHANGED <<headVars, plan, view>>

\* segpaged_attention
Attend(r) ==
  /\ plan[r] # None /\ Len(pool[r].table) = PerRank /\ view[r] = None
  /\ view' = [view EXCEPT ![r] = [k \in 0 .. PerRank - 1 |-> GatherHead(pool[r], k)]]
  /\ UNCHANGED <<headVars, plan, pool>>

\* the positions among gathered tokens
Positions(kv) == {t.pos : t \in Range(kv)}

\* the ranks have finished the layer; the pages are garbage
EndDecode ==
  /\ \A r \in Rank : view[r] # None
  /\ len' = len + 1
  /\ held' = [h \in KVHead |-> held[h] \cup {len}]
  /\ read' = [h \in KVHead |-> Positions(view[h \div PerRank][h % PerRank])]
  /\ plan' = [r \in Rank |-> None]
  /\ pool' = [r \in Rank |-> EmptyPool]
  /\ view' = [r \in Rank |-> None]
  /\ UNCHANGED <<cfg, tensors, cut, segpaged>>

\* a decode step without SegPaged decode
DenseStep == Idle /\ DecodeDense /\ UNCHANGED <<plan, pool, view>>

\* what happens to the KV and its configuration between two decode steps
Between == /\ Idle
           /\ Ship \/ Trim \/ MergeRetrieval \/ \E w \in Windows : SetLocalWindow(w)
           /\ UNCHANGED <<plan, pool, view>>

Next == \/ \E r \in Rank : BuildPlan(r) \/ StoreHead(r) \/ Attend(r)
        \/ EndDecode
        \/ DenseStep
        \/ Between

Spec == Init /\ [][Next]_vars

----------------------------------------------------------------------------
\* Ranks, page tables and pages are not visible in the result: a decode step reads
\* what it reads in HeadClassKV (_segpaged_decode, segpaged_attention).
ImplementsHeadClassKV == HeadSpec

\* Every head gets back each token that its sink and window admit, once and in
\* order, its last page partly filled or not, and no token of another head
\* (add_head_segment, gather_segment).
GathersInOrder == \A r \in Rank : view[r] # None => \A k \in 0 .. PerRank - 1 :
  LET h == r * PerRank + k
      v == view[r][k]
  IN  /\ \A i \in DOMAIN v : v[i].head = h
      /\ \A i, j \in DOMAIN v : i < j => v[i].pos < v[j].pos
      /\ Positions(v) = {p \in 0 .. len : InWindow(cfg, h, p, len + 1)}

\* A local head never takes more pages than its sink and window fill, however long
\* the sequence grows ("their physical footprint stays bounded regardless of
\* context length", SegPagedKVCache).
FootprintBounded == \A r \in Rank : plan[r] # None =>
  \A k \in 0 .. Len(pool[r].table) - 1 :
    plan[r][k].class = "local"
      => Len(pool[r].table[k + 1].ids) <= NumPages(plan[r][k].sink + plan[r][k].window)
=============================================================================
