------------------------------ MODULE Scheduler ------------------------------
(***************************************************************************)
(* One scheduler process: its event loop (managers/scheduler.py), the      *)
(* requests it serves, and the KV memory they share through the page       *)
(* allocator (mem_cache/allocator.py) and the radix tree.                  *)
(*                                                                         *)
(* An iteration of the loop builds a batch (a prefill batch if some        *)
(* request fits, else a decode batch), launches it, and processes the      *)
(* results of a batch: with overlap the previous one, while the new one    *)
(* runs, so a request can be scheduled, retracted or finished between the  *)
(* launch of its batch and the processing of its result.                   *)
(***************************************************************************)
EXTENDS RadixCache

CONSTANTS Req,             \* requests, numbered
          Token,           \* tokens a model can sample
          Prompt,          \* origin_input_ids of each request
          MaxNew,          \* max_new_tokens each request asks for
          Margin,          \* max_req_len - max_req_input_len (5 in tp_worker.py)
          NumPages,        \* pages of the KV pool
          ChunkSize,       \* chunked_prefill_size
          RetractSteps,    \* SGLANG_RETRACT_DECODE_STEPS
          ServerArgs,      \* server arguments the server may be started with: overlap
                           \* (event_loop_overlap, else event_loop_normal), mixed
                           \* (enable_mixed_chunk)
          StripThinking,   \* strip_thinking_cache, with reasoning requests
          MaxPauses,       \* bound: how often the engine is paused
          None

ASSUME SchedulerAssumption ==
  /\ Req \subseteq Nat /\ None \notin Req
  /\ MaxNew \in [Req -> Nat]
  /\ Margin \in Nat
  /\ NumPages \in Nat
  /\ ChunkSize \in Nat \ {0} /\ ChunkSize % PageSize = 0
  /\ ServerArgs \subseteq [overlap : BOOLEAN, mixed : BOOLEAN]
  /\ StripThinking \in BOOLEAN
  \* a chunk is larger than a running batch
  /\ (\E a \in ServerArgs : a.mixed) => ChunkSize >= Cardinality(Req)
  /\ MaxPauses \in Nat

VARIABLES mem,       \* the KV memory: see below
          req,       \* the requests
          running,   \* reqs of running_batch, finished ones not yet filtered included
          last,      \* reqs of last_batch if that was an extend batch
          full,      \* running_batch.batch_is_full
          chunked,   \* self.chunked_req
          pass,      \* the PrefillAdder of the batch being built
          queue,     \* result_queue: batches launched, not yet processed
          fresh,     \* this iteration launched a batch
          turn,      \* where in its iteration the loop is
          pause,     \* the mode of the pause the engine is in, and pauses left
          args       \* the server arguments

vars == <<mem, req, running, last, full, chunked, pass, queue, fresh, turn, pause, args>>

Page == 1 .. NumPages

(***************************************************************************)
(* mem.tree    the radix tree                                              *)
(* mem.free    pages on the allocator's free list                          *)
(* mem.twice   pages that were freed while on the free list                *)
(* mem.kv      what forward passes wrote to a page: <<r, k>>, the KV of the*)
(*             k-th page of tokens of request r (history variable)         *)
(* mem.failed  a RuntimeError or AssertionError ended the process          *)
(*                                                                         *)
(* req[r].st   new (not received), waiting (in waiting_queue), active (in  *)
(*             a batch, or between two chunks), finished                   *)
(*   .toks     origin_input_ids + output_ids                               *)
(*   .fill     len(fill_ids)                                               *)
(*   .pre      len(prefix_indices)                                         *)
(*   .row      the pages of prefix_indices, then of its req_to_token row   *)
(*   .last     last_node, .prot cache_protected_len                        *)
(*   .kv       kv_committed_len = kv_allocated_len                         *)
(*   .mid      inflight_middle_chunks, .retracted is_retracted             *)
(***************************************************************************)
Idle == [st |-> "new", toks |-> <<>>, fill |-> 0, pre |-> 0, row |-> <<>>,
         last |-> None, prot |-> 0, kv |-> 0, mid |-> 0, retracted |-> FALSE]

Init == /\ mem = [tree |-> Empty, free |-> Page, twice |-> {},
                  kv |-> [p \in Page |-> None], failed |-> FALSE]
        /\ req = [r \in Req |-> [Idle EXCEPT !.toks = Prompt[r]]]
        /\ running = {} /\ last = {}
        /\ full = FALSE
        /\ chunked = None
        /\ pass = [list |-> <<>>, chunk |-> 0, offset |-> 0, open |-> FALSE]
        /\ queue = <<>>
        /\ fresh = FALSE
        /\ turn = "schedule"
        /\ pause = [mode |-> None, left |-> MaxPauses]
        /\ args \in ServerArgs

-----------------------------------------------------------------------------
(* Allocator: free, available_size, and evict_from_tree_cache *)

Free(m, P) == [m EXCEPT !.free = @ \cup P, !.twice = @ \cup (m.free \cap P)]
Available(m) == PageSize * Cardinality(m.free)

\* alloc_extend and alloc_decode: a free page for every <<r, k>> of want, the
\* k-th page of r, in the order of the free list; which pages it hands out
\* first does not matter.  The forward pass fills them.
NthFree(m, n) == CHOOSE p \in m.free : Cardinality({x \in m.free : x < p}) = n
Earlier(v, w) == v[1] < w[1] \/ (v[1] = w[1] /\ v[2] < w[2])
Allot(m, want) ==
  LET at == [w \in want |-> NthFree(m, Cardinality({v \in want : Earlier(v, w)}))]
      on == {at[w] : w \in want}
  IN  [at  |-> at,
       mem |-> [m EXCEPT !.free = @ \ on,
                         !.kv = [p \in DOMAIN m.kv |->
                                   IF p \in on THEN CHOOSE w \in want : at[w] = p
                                   ELSE m.kv[p]]]]

\* the row of r with those pages, n tokens long
Extended(row, r, at, n) ==
  [k \in 1 .. CeilPages(n) |-> IF <<r, k>> \in DOMAIN at THEN at[<<r, k>>] ELSE row[k]]

\* what evict_from_tree_cache(num) may leave
Room(m, num) ==
  IF Available(m) >= num THEN {m}
  ELSE {[Free(m, ValuesOf(m.tree, E)) EXCEPT !.tree = Evict(m.tree, E)] :
          E \in Evictions(m.tree, num)}

-----------------------------------------------------------------------------
(* The request's side of the radix cache *)

\* the pages row[a / PageSize + 1 .. ceil(b / PageSize)] of a slice [a : b]
Slice(row, a, b) == {row[k] : k \in FullPages(a) + 1 .. CeilPages(b)}

\* mutant: the row keeps the pages freed as duplicates
CacheUnfinishedKeepsRow(m, q) ==
  LET key  == Aligned(Upto(q.toks, q.fill))
      hit  == Len(Matched(m.tree, key))
      tree == Insert(m.tree, key, q.row)
      m1   == Free(m, Slice(q.row, q.prot, hit))
  IN  [mem |-> [m1 EXCEPT !.tree = IncLockRef(DecLockRef(tree, q.last), key)],
       req |-> [q EXCEPT !.prot = Len(key), !.pre = q.fill, !.last = key]]

\* cache_unfinished_req: insert the pages of fill_ids, free those the tree
\* already has, use the tree's instead, and move the lock to the new node
CacheUnfinished(m, q) ==
  LET key  == Aligned(Upto(q.toks, q.fill))
      hit  == Len(Matched(m.tree, key))
      tree == Insert(m.tree, key, q.row)
      m1   == Free(m, Slice(q.row, q.prot, hit))
  IN  [mem |-> [m1 EXCEPT !.tree = IncLockRef(DecLockRef(tree, q.last), key)],
       req |-> [q EXCEPT !.row  = [k \in 1 .. Len(q.row) |->
                                     IF k > FullPages(q.prot) /\ k <= FullPages(Len(key))
                                     THEN tree.value[Upto(key, k * PageSize)] ELSE q.row[k]],
                         !.prot = Len(key), !.pre = q.fill, !.last = key]]

Min(a, b) == IF a < b THEN a ELSE b

\* _cache_commit_len; a request that has output has reasoning tokens
CommitLen(q, r) == IF StripThinking /\ Len(q.toks) > Len(Prompt[r])
                   THEN Min(q.kv, Len(Prompt[r])) ELSE q.kv

\* release_kv_cache: cache_finished_req, then the over-allocated range
Release(m, r, q, insert) ==
  LET committed == CommitLen(q, r)
      toks == Upto(q.toks, Min(committed, Len(q.toks)))
      key  == Aligned(toks)
      hit  == IF insert THEN Len(Matched(m.tree, key)) ELSE Len(key)
      tree == IF insert THEN Insert(m.tree, key, q.row) ELSE m.tree
      m1   == Free(m, Slice(q.row, q.prot, hit))
      m2   == Free(m1, Slice(q.row, Len(key), Len(toks)))
      m3   == Free(m2, Slice(q.row, CeilPages(committed) * PageSize, q.kv))
  IN  [m3 EXCEPT !.tree = DecLockRef(tree, q.last)]

-----------------------------------------------------------------------------
(* Receiving a request, and aborting one that only waits *)

Pool == NumPages * PageSize
Max(a, b) == IF a > b THEN a ELSE b
CeilTokens(n) == CeilPages(n) * PageSize

\* mutant: the page of overhead is left out of the bound
MaxNewTokensNoPage(r) ==
  Max(0, Min(MaxNew[r], Min(Pool - 1 - Len(Prompt[r]) - 1,
                            Pool - CeilTokens(Len(Prompt[r])) - 1)))

\* init_req_max_new_tokens, for a context length beyond the pool
MaxNewTokens(r) ==
  Max(0, Min(MaxNew[r], Min(Pool - 1 - Len(Prompt[r]) - 1,
                            Pool - CeilTokens(Len(Prompt[r])) - PageSize - 1)))

Outputs(r) == Len(req[r].toks) - Len(Prompt[r])

\* a request validate_input_length accepts joins the waiting queue
Arrive(r) == /\ turn = "schedule" /\ ~mem.failed
             /\ req[r].st = "new"
             /\ Len(Prompt[r]) < Pool - 1 - Margin
             /\ req' = [req EXCEPT ![r].st = "waiting"]
             /\ UNCHANGED <<mem, running, last, full, chunked, pass, queue, fresh, turn, pause>>

\* abort_request, method 1 (a running request is aborted by finishing it when
\* its next result is processed)
AbortWaiting(r) ==
  /\ turn = "schedule" /\ ~mem.failed
  /\ req[r].st = "waiting"
  /\ req' = [req EXCEPT ![r].st = "finished"]
  /\ UNCHANGED <<mem, running, last, full, chunked, pass, queue, fresh, turn, pause>>

-----------------------------------------------------------------------------
(* get_next_batch_to_run: the prefill pass *)

Waiting == {r \in Req : req[r].st = "waiting"}

\* the last extend batch joins running_batch, finished requests and a request
\* still chunked left out
Kept == {r \in last \ {chunked} : req[r].st # "finished"}
FullAfterMerge == full /\ Kept = last /\ (running # {} \/ last = {})

\* the offset is what rem_total_tokens sets aside for running_batch:
\* new_token_ratio, a heuristic from 0 to 1, of what it may still produce
Offsets == 0 .. Cardinality({<<r, i>> \in (running \cup Kept) \X (1 .. Pool) :
                               i <= MaxNewTokens(r) - Outputs(r)})

Merge == /\ running' = running \cup Kept
         /\ last' = {}
         /\ full' = FullAfterMerge
         /\ UNCHANGED <<queue, fresh>>

\* the loop goes round without scheduling while the engine is paused
Scheduling == turn = "schedule" /\ pause.mode = None /\ ~mem.failed

\* the tokens of a pass that mixed chunked prefill sets aside for decoding
Mixed == IF args.mixed THEN Cardinality(running \cup Kept) ELSE 0

\* no prefill while the batch is marked full
BeginPass ==
  /\ Scheduling
  /\ chunked = None
  /\ Merge
  /\ \/ /\ FullAfterMerge \/ Waiting = {}
        /\ turn' = "decoding"
        /\ UNCHANGED pass
     \/ /\ ~FullAfterMerge /\ Waiting # {}
        /\ turn' = "adding"
        /\ \E offset \in Offsets :
             pass' = [list |-> <<>>, chunk |-> ChunkSize - Mixed,
                      offset |-> offset + Mixed, open |-> TRUE]
  /\ UNCHANGED <<mem, req, chunked>>

\* stash_chunked_request, init_next_round_input and add_chunked_req: the chunk
\* always runs, with all of rem_chunk_tokens when the estimate leaves nothing
BeginPassChunked ==
  /\ Scheduling
  /\ chunked # None
  /\ Merge
  /\ \E offset \in {x + Mixed : x \in Offsets} :
       LET c   == CacheUnfinished(mem, req[chunked])
           all == ChunkSize - Mixed
           est == Min(all, Available(c.mem) + c.mem.tree.evictable - offset)
           rem == IF est <= 0 THEN all ELSE est
           ext == Len(c.req.toks) - c.req.pre
           n   == Min(ext, rem)
       IN  /\ mem' = c.mem
           /\ req' = [req EXCEPT ![chunked] = [c.req EXCEPT !.fill = c.req.pre + n]]
           /\ chunked' = IF ext > rem THEN chunked ELSE None
           /\ pass' = [list   |-> <<chunked>>,
                       chunk  |-> all - CeilTokens(n),
                       offset |-> offset + CeilTokens(n) + PageSize
                                    + (IF ext > rem THEN 0 ELSE MaxNewTokens(chunked)),
                       open   |-> ~full']
  /\ turn' = "adding"

\* init_next_round_input: match all but the last token, and what add_one_req
\* then sees, before and after it locks the matched node
ToMatch(r) == Aligned(Upto(req[r].toks, Len(req[r].toks) - 1))
Match(r) == Matched(mem.tree, ToMatch(r))
SplitAt(r) == MatchPrefix(mem.tree, ToMatch(r))

\* mutant: the matched node is not locked
LockedAtNot(r) == SplitAt(r)
LockedAt(r) == IncLockRef(SplitAt(r), Match(r))

Ext(r) == Len(req[r].toks) - Len(Match(r))
Total(r) == Ext(r) + Max(MaxNewTokens(r) - Outputs(r), 0) + PageSize

\* it must fit in what is available or evictable and not set aside
Fits(r) == Total(r) < Available(mem) + LockedAt(r).evictable - pass.offset

\* the tokens of r this pass can still take: all, or up to a page boundary
Chunk(r) == IF CeilTokens(Ext(r)) <= pass.chunk THEN Ext(r)
            ELSE FullPages(FullPages(pass.chunk) * PageSize + Len(Match(r))) * PageSize
                   - Len(Match(r))

Trying(r) == /\ turn = "adding" /\ ~mem.failed
             /\ pass.open
             /\ req[r].st = "waiting"

Admitted(r, n) ==
  [req[r] EXCEPT !.st = "active", !.last = Match(r), !.prot = Len(Match(r)),
                 !.pre = Len(Match(r)), !.fill = Len(Match(r)) + n,
                 !.row = [k \in 1 .. FullPages(Len(Match(r))) |->
                            mem.tree.value[Upto(Match(r), k * PageSize)]]]

\* add_one_req takes the request, whole or its first chunk; a second chunked
\* request is an assertion error
AddOneReq(r) ==
  /\ Trying(r)
  /\ Fits(r) /\ Chunk(r) > 0
  /\ LET n      == Chunk(r)
         whole  == n = Ext(r)
         offset == pass.offset + CeilTokens(n) + PageSize
                     + (IF whole THEN MaxNewTokens(r) ELSE 0)
         noToken == Available(mem) + LockedAt(r).evictable <= offset
     IN  /\ mem' = [mem EXCEPT !.tree = LockedAt(r),
                               !.failed = ~whole /\ chunked # None]
         /\ req' = [req EXCEPT ![r] = Admitted(r, n)]
         /\ chunked' = IF whole THEN chunked ELSE r
         /\ pass' = [list   |-> Append(pass.list, r),
                     chunk  |-> pass.chunk - CeilTokens(n),
                     offset |-> offset,
                     open   |-> ~noToken /\ pass.chunk > CeilTokens(n)]
         /\ full' = (full \/ noToken)
  /\ UNCHANGED <<running, last, queue, fresh, turn>>

\* add_one_req does not take the request: the match has still split a node,
\* and the pass ends
RejectReq(r) ==
  /\ Trying(r)
  /\ ~(Fits(r) /\ Chunk(r) > 0)
  /\ mem' = [mem EXCEPT !.tree = SplitAt(r)]
  /\ pass' = [pass EXCEPT !.open = FALSE]
  /\ full' = (full \/ ~Fits(r))
  /\ UNCHANGED <<req, running, last, chunked, queue, fresh, turn>>

\* the pass ends with an empty can_run_list
NoPrefill ==
  /\ turn = "adding" /\ ~mem.failed
  /\ pass.list = <<>> /\ ~pass.open
  /\ turn' = "decoding"
  /\ UNCHANGED <<mem, req, running, last, full, chunked, pass, queue, fresh>>

-----------------------------------------------------------------------------
(* prepare_for_extend and run_batch *)

InPass == {pass.list[i] : i \in DOMAIN pass.list}

\* the pages of the extend batch, and the tokens it makes room for
ExtendWant == {<<r, k>> \in InPass \X Page :
                 CeilPages(req[r].pre) < k /\ k <= CeilPages(req[r].fill)}
ExtendTokens ==
  LET upto[i \in 0 .. Len(pass.list)] ==
        IF i = 0 THEN 0
        ELSE upto[i - 1] + req[pass.list[i]].fill - req[pass.list[i]].pre
               + (IF PageSize = 1 THEN 0 ELSE PageSize)
  IN  upto[Len(pass.list)]

\* the requests of running_batch that have not finished, and those of them that
\* need a page for their next token
Running == {r \in running : req[r].st # "finished"}
NewPages == {r \in Running : CeilPages(req[r].kv + 1) > CeilPages(req[r].kv)}

\* what prepare_for_decode (alloc_for_decode) of the running requests may do to
\* memory m and requests q
PrepareForDecode(m, q) ==
  {LET a == Allot(n, {<<r, CeilPages(q[r].kv + 1)>> : r \in NewPages})
   IN  IF Cardinality(NewPages) > Cardinality(n.free)
       THEN [mem |-> [n EXCEPT !.failed = TRUE], req |-> q]
       ELSE [mem |-> a.mem,
             req |-> [r \in Req |->
                        IF r \notin Running THEN q[r]
                        ELSE [q[r] EXCEPT !.row = Extended(@, r, a.at, q[r].kv + 1),
                                          !.kv = @ + 1]]]
     : n \in Room(m, PageSize * Cardinality(Running))}

\* mix_with_running
MixWithRunning(m, q) ==
  IF ~args.mixed \/ Running = {} THEN {[mem |-> m, req |-> q]}
  ELSE {[mem |-> d.mem,
         req |-> [r \in Req |-> IF r \in Running THEN [d.req[r] EXCEPT !.fill = Len(q[r].toks)]
                                ELSE d.req[r]]] : d \in PrepareForDecode(m, q)}

\* the batch is launched, or the process dies for want of pages
RunExtend ==
  /\ turn = "adding" /\ ~mem.failed
  /\ pass.list # <<>>
  /\ ~pass.open \/ Waiting = {}
  /\ \E m \in Room(mem, ExtendTokens) :
       IF Cardinality(ExtendWant) > Cardinality(m.free)
       THEN /\ mem' = [m EXCEPT !.failed = TRUE]
            /\ UNCHANGED req
       ELSE LET a == Allot(m, ExtendWant)
                q == [r \in Req |->
                        IF r \notin InPass THEN req[r]
                        ELSE [req[r] EXCEPT !.row = Extended(@, r, a.at, req[r].fill),
                                            !.kv = req[r].fill,
                                            !.retracted = FALSE,
                                            !.mid = IF r = chunked THEN @ + 1 ELSE @]]
            IN  \E x \in MixWithRunning(a.mem, q) : mem' = x.mem /\ req' = x.req
  /\ LET decoding == IF args.mixed THEN Running ELSE {}
     IN  /\ queue' = Append(queue, [kind |-> "extend", reqs |-> InPass \cup decoding,
                                    decoding |-> decoding])
         /\ last' = InPass \cup decoding
         /\ running' = IF args.mixed THEN {} ELSE running
  /\ fresh' = TRUE
  /\ turn' = "process"
  /\ UNCHANGED <<full, chunked, pass>>

-----------------------------------------------------------------------------
(* update_running_batch: filter, retract while memory is short, decode *)

\* mutant: a token is asked for where a page is needed
DecodeTokensNotPages == Cardinality({r \in Running : req[r].kv % PageSize = 0})

\* new_tokens_required_next_decode
DecodeTokens == PageSize * Cardinality({r \in Running : req[r].kv % PageSize = 0})
Deciding == turn = "decoding" /\ ~mem.failed

\* nothing to decode: no batch in this iteration
NoBatch ==
  /\ Deciding
  /\ Running = {}
  /\ running' = {}
  /\ full' = (full /\ running = {})
  /\ fresh' = FALSE
  /\ turn' = "process"
  /\ UNCHANGED <<mem, req, last, chunked, pass, queue>>

\* check_decode_mem, then alloc_for_decode
RunDecode ==
  /\ Deciding
  /\ Running # {}
  /\ \E checked \in Room(mem, DecodeTokens) :
       /\ Available(checked) >= DecodeTokens
       /\ \E d \in PrepareForDecode(checked, req) : mem' = d.mem /\ req' = d.req
  /\ queue' = Append(queue, [kind |-> "decode", reqs |-> Running, decoding |-> Running])
  /\ running' = Running
  /\ full' = (full /\ Running = running)
  /\ fresh' = TRUE
  /\ turn' = "process"
  /\ UNCHANGED <<last, chunked, pass>>

\* reset_for_retract
Reset(q, st) == [q EXCEPT !.st = st, !.fill = 0, !.pre = 0, !.row = <<>>,
                          !.last = None, !.prot = 0, !.kv = 0, !.mid = 0,
                          !.retracted = TRUE]

\* the next victim of retract_decode: the fewest outputs, then the longest prompt
Victims == {r \in Running : \A s \in Running :
              \/ Outputs(r) < Outputs(s)
              \/ Outputs(r) = Outputs(s) /\ Len(Prompt[r]) >= Len(Prompt[s])}

\* mutant: the victim's KV memory is not released
RetractOneKeeps(r) ==
  /\ Deciding
  /\ r \in Victims
  /\ \E checked \in Room(mem, DecodeTokens) :
       /\ Available(checked) < DecodeTokens
       /\ mem' = checked
  /\ LET alone == Running = {r}
     IN  /\ req' = [req EXCEPT ![r] = Reset(@, IF alone THEN "finished" ELSE "waiting")]
         /\ fresh' = (fresh /\ ~alone)
         /\ turn' = IF alone THEN "process" ELSE turn
  /\ running' = Running \ {r}
  /\ full' = FALSE
  /\ UNCHANGED <<last, chunked, pass, queue>>

\* Memory is short after evicting.  One request goes back to the waiting queue,
\* without inserting its pages, and the check is repeated; the last one is
\* aborted instead, and there is no batch.
RetractOne(r) ==
  /\ Deciding
  /\ r \in Victims
  /\ \E checked \in Room(mem, DecodeTokens) :
       /\ Available(checked) < DecodeTokens
       /\ mem' \in Room(Release(checked, r, req[r], FALSE),
                        (Cardinality(Running) - 1) * RetractSteps)
  /\ LET alone == Running = {r}
     IN  /\ req' = [req EXCEPT ![r] = Reset(@, IF alone THEN "finished" ELSE "waiting")]
         /\ fresh' = (fresh /\ ~alone)
         /\ turn' = IF alone THEN "process" ELSE turn
  /\ running' = Running \ {r}
  /\ full' = FALSE
  /\ UNCHANGED <<last, chunked, pass, queue>>

-----------------------------------------------------------------------------
(* process_batch_result *)

\* the overlap loop leaves the batch it has just launched for the next iteration;
\* pause_generation processes all there is
Processing == /\ ~mem.failed
              /\ \/ turn = "process" /\ Len(queue) > IF args.overlap /\ fresh THEN 1 ELSE 0
                 \/ turn = "pausing" /\ queue # <<>>
Head1 == Head(queue)
Handled(r) == queue' = <<[Head1 EXCEPT !.reqs = @ \ {r}]>> \o Tail(queue)
InHead(r) == Processing /\ r \in Head1.reqs
Skipped(r) == req[r].st = "finished" \/ req[r].retracted
MiddleChunk(r) == Head1.kind = "extend" /\ req[r].mid > 0

\* the request finished or was retracted after its batch was launched, or the
\* result is that of a middle chunk
ProcessSkip(r) ==
  /\ InHead(r)
  /\ Skipped(r) \/ MiddleChunk(r)
  /\ req' = IF Skipped(r) THEN req ELSE [req EXCEPT ![r].mid = @ - 1]
  /\ Handled(r)
  /\ UNCHANGED <<mem, running, last, full, chunked, pass, fresh, turn>>

\* a token is appended; the request finishes, at the latest when it has
\* max_new_tokens, or goes on
ProcessToken(r, x) ==
  /\ InHead(r)
  /\ ~Skipped(r) /\ ~MiddleChunk(r)
  /\ LET q == [req[r] EXCEPT !.toks = Append(@, x)]
     IN  \/ /\ mem' = Release(mem, r, q, TRUE)
            /\ req' = [req EXCEPT ![r] = [q EXCEPT !.st = "finished"]]
         \/ /\ Outputs(r) + 1 < MaxNewTokens(r)
            /\ r \notin Head1.decoding
            /\ LET c == CacheUnfinished(mem, q)
               IN  mem' = c.mem /\ req' = [req EXCEPT ![r] = c.req]
         \/ /\ Outputs(r) + 1 < MaxNewTokens(r)
            /\ r \in Head1.decoding
            /\ mem' = mem /\ req' = [req EXCEPT ![r] = q]
  /\ Handled(r)
  /\ UNCHANGED <<running, last, full, chunked, pass, fresh, turn>>

\* the batch is done, or there was none to process: the iteration ends
EndIteration ==
  /\ turn = "process" /\ ~mem.failed
  /\ IF Len(queue) > (IF args.overlap /\ fresh THEN 1 ELSE 0)
     THEN Head1.reqs = {} /\ queue' = Tail(queue)
     ELSE UNCHANGED queue
  /\ turn' = "schedule"
  /\ UNCHANGED <<mem, req, running, last, full, chunked, pass, fresh>>

-----------------------------------------------------------------------------
(* pause_generation, continue_generation and flush_cache, handled before an  *)
(* iteration                                                                 *)

\* In place: nothing but the flag.  In retract mode the last batch is processed
\* first, then every request goes back to the waiting queue.
Pause(mode) ==
  /\ turn = "schedule" /\ ~mem.failed
  /\ pause.left > 0
  /\ pause' = [mode |-> mode, left |-> pause.left - 1]
  /\ turn' = IF mode = "retract" THEN "pausing" ELSE turn
  /\ UNCHANGED <<mem, req, running, last, full, chunked, pass, queue, fresh>>

\* the last batch joins running_batch, the chunked request included
PauseMerge ==
  LET kept == {r \in last : req[r].st # "finished"}
  IN  /\ turn = "pausing" /\ ~mem.failed
      /\ \A i \in DOMAIN queue : queue[i].reqs = {}
      /\ queue' = <<>>
      /\ last' = {}
      /\ running' = running \cup kept
      /\ full' = (full /\ running' = {})
      /\ chunked' = IF running' = {} THEN chunked ELSE None
      /\ turn' = "retracting"
      /\ UNCHANGED <<mem, req, pass, fresh>>

\* mutant: the request's KV memory is not released
PauseRetractKeeps(r) ==
  /\ turn = "retracting" /\ ~mem.failed
  /\ r \in Running
  /\ UNCHANGED mem
  /\ req' = [req EXCEPT ![r] = Reset(@, "waiting")]
  /\ running' = Running \ {r}
  /\ UNCHANGED <<last, full, chunked, pass, queue, fresh, turn>>

\* retract_all, one request
PauseRetract(r) ==
  /\ turn = "retracting" /\ ~mem.failed
  /\ r \in Running
  /\ mem' \in Room(Release(mem, r, req[r], FALSE), Cardinality(Running) * RetractSteps)
  /\ req' = [req EXCEPT ![r] = Reset(@, "waiting")]
  /\ running' = Running \ {r}
  /\ UNCHANGED <<last, full, chunked, pass, queue, fresh, turn>>

PauseDone ==
  /\ turn = "retracting" /\ ~mem.failed
  /\ Running = {}
  /\ running' = {}
  /\ turn' = "schedule"
  /\ UNCHANGED <<mem, req, last, full, chunked, pass, queue, fresh>>

Continue ==
  /\ turn = "schedule" /\ ~mem.failed
  /\ pause.mode # None
  /\ pause' = [pause EXCEPT !.mode = None]
  /\ UNCHANGED <<mem, req, running, last, full, chunked, pass, queue, fresh, turn>>

\* is_fully_idle
FullyIdle == /\ running = {} /\ last = {} /\ queue = <<>> /\ chunked = None
             /\ Waiting = {}

FlushCache ==
  /\ turn = "schedule" /\ ~mem.failed
  /\ FullyIdle
  /\ mem' = [mem EXCEPT !.tree = Empty, !.free = Page]
  /\ UNCHANGED <<req, running, last, full, chunked, pass, queue, fresh, turn, pause>>

-----------------------------------------------------------------------------
Loop == /\ \/ BeginPass \/ BeginPassChunked \/ NoPrefill \/ RunExtend
           \/ NoBatch \/ RunDecode \/ EndIteration
           \/ \E r \in Req : \/ AddOneReq(r) \/ RejectReq(r)
                             \/ RetractOne(r) \/ ProcessSkip(r)
                             \/ \E x \in Token : ProcessToken(r, x)
                             \/ PauseRetract(r)
           \/ PauseMerge \/ PauseDone
        /\ UNCHANGED <<pause, args>>

Next == \/ Loop
        \/ /\ \/ \E r \in Req : Arrive(r) \/ AbortWaiting(r)
              \/ \E mode \in {"in_place", "retract"} : Pause(mode)
              \/ Continue \/ FlushCache
           /\ UNCHANGED args

Spec == Init /\ [][Next]_vars

\* The event loop never stops: it is a while True.
LoopSpec == Spec /\ WF_vars(Loop)

\* The same, in a form that costs TLC less: unless the engine stays paused, some
\* step of Loop is always enabled, and its steps change these variables.
FairSpec == Spec /\ \/ <>[](pause.mode # None)
                    \/ []<><<TRUE>>_<<running, pass, queue, turn>>

-----------------------------------------------------------------------------
(* Properties *)

Active == {r \in Req : req[r].st = "active"}

\* the pages of its row that only request r itself refers to
Private(r) == FullPages(req[r].prot) + 1 .. Len(req[r].row)

\* The tree keeps its radix shape, and evictable_size_, protected_size_ and
\* evictable_leaves, updated piecemeal by inserts, splits, locks and evictions
\* of all requests, always equal what a walk of the tree would count.
TreeExact == RadixShape(mem.tree) /\ BookkeepingExact(mem.tree)

\* lock_ref of a node is the number of active requests whose last_node is at
\* or below it, so no cached prefix in use can be evicted and none stays
\* locked once its users are gone, through splits, chunks and retractions.
LocksExact ==
  \A n \in Nodes(mem.tree) :
    mem.tree.lock[n] = Cardinality({r \in Active : n \in Prefixes(req[r].last)})

\* Every page of the pool has exactly one owner: the free list, the radix tree
\* or one request's private tail; none is freed twice and none is lost.  The
\* shared part of a row is the tree's pages for the request's own tokens.
PageOwnership ==
  /\ mem.twice = {}
  /\ \A p \in Page :
       Cardinality({q \in DOMAIN mem.tree.value : mem.tree.value[q] = p})
         + Cardinality({<<r, k>> \in Active \X Page :
                          k \in Private(r) /\ req[r].row[k] = p})
         = IF p \in mem.free THEN 0 ELSE 1
  /\ \A r \in Active : \A k \in 1 .. FullPages(req[r].prot) :
       LET q == Upto(req[r].toks, k * PageSize)
       IN  q \in DOMAIN mem.tree.value /\ mem.tree.value[q] = req[r].row[k]

\* The scheduler's own check between iterations (_check_pool_invariant):
\* available + evictable + protected + uncached is the size of the pool.
PoolBalance ==
  turn = "schedule" =>
    Available(mem) + mem.tree.evictable + mem.tree.protected
      + PageSize * Cardinality({<<r, k>> \in Active \X Page :
                                  FullPages(req[r].prot) < k /\ k <= CeilPages(req[r].kv)})
      = Pool

\* What attention reads is right: a page of the tree holds the KV of exactly
\* the tokens that lead to it, and a page of a request's row that of the
\* request's tokens, whichever request computed it and whatever was freed,
\* deduplicated, retracted and allocated again since.
Holds(p, toks, k) ==
  /\ mem.kv[p] # None
  /\ mem.kv[p][2] = k
  /\ LET by == req[mem.kv[p][1]].toks
     IN  \A i \in (k - 1) * PageSize + 1 .. k * PageSize :
           i <= Len(toks) => i <= Len(by) /\ Upto(by, i) = Upto(toks, i)
KVMatches ==
  /\ \A q \in DOMAIN mem.tree.value : Holds(mem.tree.value[q], q, FullPages(Len(q)))
  /\ \A r \in Active : \A k \in DOMAIN req[r].row :
       Holds(req[r].row[k], Upto(req[r].toks, Min(Len(req[r].toks), req[r].kv)), k)

\* The admission budget, whose estimate of what running requests will still
\* need may be anything down to zero, and the retraction of requests keep
\* every allocation in the pool: no RuntimeError, and one chunked request at
\* most, as long as prefill and decoding are not mixed in a batch.
NeverFails == ~args.mixed => ~mem.failed

\* Retraction always makes room for the last request left: the branch of
\* retract_decode that aborts it is never taken.
LastOneFits ==
  Deciding /\ Cardinality(Running) = 1 =>
    \A m \in Room(mem, DecodeTokens) : Available(m) >= DecodeTokens

\* A retract pause has found no running request and the last batch finished:
\* batch_is_full, set in that batch's pass, is never reset.
StuckFull == /\ pause.left < MaxPauses /\ turn = "schedule"
             /\ full /\ running = {} /\ last = {} /\ chunked = None

\* Every request is answered in the end, whatever is chunked, retracted or
\* refused for want of memory in between, unless the engine stays paused or a
\* pause has left batch_is_full set on an empty running_batch.
Served == \A r \in Req : req[r].st \in {"waiting", "active"} ~>
                           req[r].st = "finished" \/ pause.mode # None \/ StuckFull

\* "pause slow requests and continue them later": once the engine is not paused
\* any more, every request is answered.
ContinuesLater == \A r \in Req : req[r].st \in {"waiting", "active"} ~>
                                   req[r].st = "finished" \/ pause.mode # None
=============================================================================
