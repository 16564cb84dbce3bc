------------------------------ MODULE HiCache -------------------------------
(***************************************************************************)
(* The hierarchical cache at work: the scheduler (scheduler.py with        *)
(* enable_hicache_storage, schedule_policy.py), the cache controller       *)
(* (cache_controller.py) with its copy streams and its three storage       *)
(* threads, and a storage backend.  A request is a prompt that is matched, *)
(* prefetched, admitted, computed, and cached when it finishes with its    *)
(* first token; after that the same prompt may come again.                 *)
(***************************************************************************)
EXTENDS HiRadixCache

CONSTANTS Req, Prompt,         \* requests, and the tokens of each
          MaxNewTokens,        \* max_new_tokens of each, 0 or 1
          Threshold,           \* prefetch_threshold
          Policies,            \* pairs of a write and a prefetch stop policy
          Stored,              \* the prefixes another server may have stored
          MaxArrivals,         \* bound: how many requests come, by write policy
          MaxFaults            \* bound: how many times something goes wrong

ASSUME RequestAssumption == \A r \in Req : Len(Prompt[r]) > 1

VARIABLES
  args,       \* hicache_write_policy and hicache_storage_prefetch_policy
  c,          \* the tree and its pools
  req,        \* [Req -> [st, row, prefix, node]]
  arrived,    \* how many requests have come
  faults,     \* how many aborts, early stops of prefetches and failures of storage
  batch,      \* can_run_list of the pass
  loading,    \* ack_load_queue
  ops,        \* the prefetch operations, by number
  ongoing,    \* the operations in ongoing_prefetch
  queue,      \* prefetch_queue
  buffer,     \* prefetch_buffer
  aux,        \* the operation of prefetch_io_aux_thread, and where it is
  revoked,    \* prefetch_revoke_queue
  released,   \* host_mem_release_queue
  occupied,   \* prefetch_tokens_occupied
  stored,     \* ack_backup_queue, with the nodes of ongoing_backup
  store       \* the storage backend: pairs of a prefix (its hash) and a content

\* prefetch_capacity_limit
CapacityLimit == (4 * (HostPages - DevicePages)) \div 5

bounds    == <<arrived, faults>>
scheduler == <<args, req, batch, loading>>
prefetch  == <<ops, ongoing, queue, buffer, aux, revoked, released, occupied>>
storage   == <<stored, store>>
vars      == <<scheduler, bounds, c, prefetch, storage>>

Idle == [op |-> 0, at |-> "idle"]
NoRow == <<>>

Init ==
  /\ args \in Policies
  /\ c = HiEmpty
  /\ req = [r \in Req |-> [st |-> "away", row |-> NoRow, prefix |-> 0, node |-> Root]]
  /\ arrived = 0 /\ faults = 0 /\ batch = {} /\ loading = <<>>
  /\ ops = <<>> /\ ongoing = {} /\ queue = <<>> /\ buffer = <<>> /\ aux = Idle
  /\ revoked = {} /\ released = {} /\ occupied = 0
  /\ stored = <<>>
  /\ store \in {{<<q, q>> : q \in S} : S \in Stored}

Alive == ~Failed(c)

\* what init_next_round_input matches: all but the last token
MatchKey(r) == Upto(Prompt[r], Len(Prompt[r]) - 1)

-----------------------------------------------------------------------------
(* Arrival: _prefetch_kvcache and prefetch_from_storage *)

\* An operation is forgotten once no thread, queue or request refers to it.
Held(on) == on \cup Elements(queue) \cup Elements(buffer) \cup {aux.op} \cup revoked
Forget(f, O) == [o \in DOMAIN f \ O |-> f[o]]
NewOp == CHOOSE o \in 1 .. Cardinality(DOMAIN ops) + 1 : o \notin DOMAIN ops

\* s[:k]
First(s, k) == SubSeq(s, 1, IF k < Len(s) THEN k ELSE Len(s))

\* the prefix of k fetched pages of an operation
Fetched(o, k) == o.base \o Upto(o.key, k)

\* protect_host, alloc, and the hand-over to the prefetch thread.  When host
\* memory is short the pages are fewer than prefetch_key asks for.
StartPrefetch(r, d, base, key) ==
  \E e \in HostRoom([d EXCEPT !.href[base] = @ + 1], Len(key)) :
    LET room == Cardinality(e.freeH)
        num  == IF room >= Len(key) THEN Len(key) ELSE room
        host == Alloc(e.freeH, num)
        o    == NewOp
    IN  IF num < Len(key) /\ num < Threshold
        THEN /\ c' = [e EXCEPT !.href[base] = @ - 1]
             /\ UNCHANGED prefetch
        ELSE /\ c' = [e EXCEPT !.freeH = @ \ Elements(host)]
             /\ ops' = (o :> [req |-> r, base |-> base, key |-> key, host |-> host,
                              own |-> host, hits |-> 0, done |-> 0, term |-> FALSE]) @@ ops
             /\ ongoing' = ongoing \cup {o}
             /\ queue' = Append(queue, o)
             /\ occupied' = occupied + Len(key)
             /\ UNCHANGED <<buffer, aux, revoked, released>>

Arrive(r) ==
  /\ Alive /\ batch = {} /\ req[r].st = "away" /\ arrived < MaxArrivals[args.write]
  /\ arrived' = arrived + 1
  /\ req' = [req EXCEPT ![r].st = "waiting"]
  /\ LET m    == HiMatched(c, MatchKey(r))
         d    == HiSplit(c, m)
         base == LastHostNode(d, m)
         key  == SubSeq(Prompt[r], Len(m) + 1, Len(Prompt[r]))
     IN  IF Len(key) < Threshold \/ occupied >= CapacityLimit
         THEN c' = d /\ UNCHANGED prefetch
         ELSE StartPrefetch(r, d, base, key)
  /\ UNCHANGED <<args, faults, batch, loading, storage>>

-----------------------------------------------------------------------------
(* check_hicache_events *)

\* how many of a queue's first entries are done
RECURSIVE DonePrefix(_)
DonePrefix(s) == IF s = <<>> \/ ~Head(s).done THEN 0 ELSE 1 + DonePrefix(Tail(s))

\* writing_check
RECURSIVE WritingCheck(_, _)
WritingCheck(d, n) ==
  IF n = 0 THEN d
  ELSE LET x == Head(d.writes).node
       IN  WritingCheck(WriteBackupStorage(HiDecLockRef([d EXCEPT !.writes = Tail(@)], x), x),
                        n - 1)

\* loading_check
RECURSIVE Unlock(_, _)
Unlock(d, nodes) ==
  IF nodes = <<>> THEN d ELSE Unlock(HiDecLockRef(d, Head(nodes)), Tail(nodes))
RECURSIVE LoadingCheck(_, _)
LoadingCheck(d, acks) ==
  IF acks = <<>> THEN d ELSE LoadingCheck(Unlock(d, Head(acks).nodes), Tail(acks))

\* release_host of each node of a sequence
RECURSIVE ReleaseHost(_, _)
ReleaseHost(d, nodes) ==
  IF nodes = <<>> THEN d
  ELSE ReleaseHost([d EXCEPT !.href[Head(nodes)] = @ - 1], Tail(nodes))

RECURSIVE BasesOf(_)
BasesOf(O) ==
  IF O = {} THEN <<>>
  ELSE LET o == CHOOSE o \in O : TRUE IN <<ops[o].base>> \o BasesOf(O \ {o})

RECURSIVE OccupiedByAll(_)
OccupiedByAll(O) ==
  IF O = {} THEN 0
  ELSE LET o == CHOOSE o \in O : TRUE
       IN  Len(ops[o].key) + OccupiedByAll(O \ {o})

\* there is something to acknowledge; else check_hicache_events changes nothing
Events == ~(/\ DonePrefix(loading) = 0 /\ DonePrefix(c.writes) = 0
            /\ revoked = {} /\ released = {} /\ stored = <<>>)

\* writing_check, loading_check, drain_storage_control_queues
CheckEvents ==
  /\ Alive /\ batch = {} /\ Events
  /\ LET n    == DonePrefix(loading)
         gone == revoked \cap ongoing
         d    == LoadingCheck(WritingCheck(c, DonePrefix(c.writes)), SubSeq(loading, 1, n))
     IN  /\ c' = FreeHost(ReleaseHost(ReleaseHost(d, BasesOf(gone)), stored), released)
         /\ loading' = SubSeq(loading, n + 1, Len(loading))
         /\ ongoing' = ongoing \ gone
         /\ ops' = Forget(ops, revoked)
         /\ occupied' = occupied - OccupiedByAll(gone)
         /\ revoked' = {} /\ released' = {} /\ stored' = <<>>
  /\ UNCHANGED <<args, bounds, req, batch, queue, buffer, aux, store>>

-----------------------------------------------------------------------------
(* The prefill pass *)

OpsOf(r) == {o \in ongoing : ops[o].req = r}

\* can_terminate_prefetch: when the operation has completed or ended, and
\* before that whenever a pass comes to the request (best_effort) or its time
\* is up (timeout)
Completed(o) == ops[o].hits > 0 /\ ops[o].done = ops[o].hits
CanTerminate(o) ==
  \/ Completed(o) \/ ops[o].term
  \/ args.stop \in {"best_effort", "timeout"} /\ faults < MaxFaults

\* check_prefetch_progress of a request whose prefetch may end
CheckPrefetchProgress(r) ==
  /\ Alive /\ req[r].st = "waiting"
  /\ \E o \in OpsOf(r) :
       /\ CanTerminate(o)
       /\ LET p    == ops[o]
              path == Fetched(p, p.done)
              d    == InsertHost(c, p.base, path,
                                 [k \in Len(p.base) + 1 .. Len(p.base) + p.done |->
                                    p.host[k - Len(p.base)]])
              m    == InsertHostMatched(c, p.base, path)
          IN  /\ c' = [FreeHost(d, Elements(SubSeq(p.host, 1, m))) EXCEPT !.href[p.base] = @ - 1]
              /\ ops' = Forget([ops EXCEPT ![o].term = TRUE], {o} \ Held(ongoing \ {o}))
              /\ ongoing' = ongoing \ {o}
              /\ occupied' = occupied - Len(p.key)
              /\ faults' = IF Completed(o) \/ p.term THEN faults ELSE faults + 1
  /\ UNCHANGED <<args, arrived, req, batch, loading, queue, buffer, aux, revoked, released,
                 storage>>

ExtendLen(r, prefix) == Len(Prompt[r]) - prefix

\* what the requests of the pass will take
RECURSIVE Budgeted(_)
Budgeted(R) ==
  IF R = {} THEN 0
  ELSE LET r == CHOOSE r \in R : TRUE
       IN  ExtendLen(r, req[r].prefix) + MaxNewTokens + PageSize + Budgeted(R \ {r})

\* mutant: what the other requests of the pass will take is forgotten
RemTotalTokensUnbudgeted(d) == Cardinality(d.freeD) + d.evictable

\* rem_total_tokens after the requests of the pass
RemTotalTokens(d) == Cardinality(d.freeD) + d.evictable - Budgeted(batch)

\* init_next_round_input and add_one_req.  A request that was refused for lack
\* of tokens leaves only the split of the match behind; one refused after
\* load_back, which happens behind others of the pass, leaves what it loads.
AddOneReq(r) ==
  /\ Alive /\ req[r].st = "waiting" /\ OpsOf(r) = {}
  /\ LET m   == HiMatched(c, MatchKey(r))
         d   == HiSplit(c, m)
         dev == LastDeviceNode(d, m)
         tot == ExtendLen(r, Len(dev)) + MaxNewTokens + PageSize
         l   == HiIncLockRef(d, dev)
     IN  IF tot >= RemTotalTokens(d) \/ tot >= RemTotalTokens(l)
         THEN c' = d /\ UNCHANGED <<req, batch>>
         ELSE \E e \in IF Evicted(d, m) THEN LoadBack(l, args.write, m) ELSE {l} :
                IF Failed(e) THEN c' = e /\ UNCHANGED <<req, batch>>
                ELSE LET n == LastDeviceNode(e, m)
                     IN  \/ /\ c' = HiDecLockRef(HiIncLockRef(e, n), dev)
                            /\ req' = [req EXCEPT ![r] =
                                 [st |-> "admitted", prefix |-> Len(n), node |-> n,
                                  row |-> [k \in 1 .. Len(n) |-> e.value[Upto(n, k)]]]]
                            /\ batch' = batch \cup {r}
                         \/ /\ batch # {}
                            /\ c' = HiDecLockRef(e, dev)
                            /\ UNCHANGED <<req, batch>>
  /\ UNCHANGED <<args, bounds, loading, prefetch, storage>>

RECURSIVE Rows(_, _)
Rows(R, free) ==
  IF R = {} THEN <<>>
  ELSE LET r     == CHOOSE r \in R : TRUE
           pages == Alloc(free, ExtendLen(r, req[r].prefix))
       IN  (r :> (req[r].row \o pages)) @@ Rows(R \ {r}, free \ Elements(pages))

RECURSIVE ExtendTokens(_)
ExtendTokens(R) ==
  IF R = {} THEN 0
  ELSE LET r == CHOOSE r \in R : TRUE IN ExtendLen(r, req[r].prefix) + ExtendTokens(R \ {r})

\* start_loading: the queued loads become one transfer
RECURSIVE NodesOf(_)
NodesOf(s) == IF s = <<>> THEN <<>> ELSE <<Head(s).node>> \o NodesOf(Tail(s))
StartLoading(d) ==
  IF d.loads = <<>> THEN <<>>
  ELSE <<[nodes |-> NodesOf(d.loads), done |-> FALSE, readers |-> {},
          copy |-> UNION {d.loads[k].copy : k \in DOMAIN d.loads}]>>

\* The forward pass of a batch comes after its own load, if there is one, and after
\* the passes launched before it, hence after every load started by now.
ReadAfter(s, R) == [k \in DOMAIN s |-> IF s[k].done THEN s[k]
                                       ELSE [s[k] EXCEPT !.readers = @ \cup R]]

\* ready_to_load_host_cache, prepare_for_extend and the launch of the batch
Launch ==
  /\ Alive /\ batch # {}
  /\ loading' = ReadAfter(loading \o StartLoading(c), batch)
  /\ \E e \in DeviceRoom([c EXCEPT !.loads = <<>>], args.write, ExtendTokens(batch)) :
       IF Failed(e) \/ Cardinality(e.freeD) < ExtendTokens(batch)
       THEN /\ c' = IF Failed(e) THEN e ELSE Raise(e, "out of memory")
            /\ UNCHANGED <<req, batch>>
       ELSE LET rows == Rows(batch, e.freeD)
            IN  /\ c' = [e EXCEPT !.freeD = @ \ UNION {Elements(rows[r]) : r \in batch}]
                /\ req' = [r \in Req |-> IF r \in batch
                                         THEN [req[r] EXCEPT !.st = "running", !.row = rows[r]]
                                         ELSE req[r]]
                /\ batch' = {}
  /\ UNCHANGED <<args, bounds, prefetch, storage>>

\* mutant: the forward pass does not wait for the layers being loaded
LoadedAlways(r) == TRUE

\* wait_until: the forward pass waits for the loads before it, layer by layer
Loaded(r) == \A k \in DOMAIN loading : r \notin loading[k].readers

\* what the forward pass leaves in the pages of a row
Computed(d, r) ==
  LET row == req[r].row
      ok  == \A k \in 1 .. req[r].prefix : d.kvD[row[k]] = Upto(Prompt[r], k)
  IN  [p \in DOMAIN d.kvD |->
         IF \E k \in req[r].prefix + 1 .. Len(row) : row[k] = p
         THEN IF ok THEN Upto(Prompt[r], CHOOSE k \in req[r].prefix + 1 .. Len(row) : row[k] = p)
              ELSE Nothing
         ELSE d.kvD[p]]

\* the result is processed: cache_finished_req
Finish(r) ==
  /\ Alive /\ batch = {} /\ req[r].st = "running" /\ Loaded(r)
  /\ \E i \in HiInsert([c EXCEPT !.kvD = Computed(c, r)], args.write, Prompt[r], req[r].row) :
       c' = HiDecLockRef(
              FreeDevice(i.c, {req[r].row[k] : k \in req[r].prefix + 1 .. i.dup}), req[r].node)
  /\ req' = [req EXCEPT ![r] = [st |-> "away", row |-> NoRow, prefix |-> 0, node |-> Root]]
  /\ UNCHANGED <<args, bounds, batch, loading, prefetch, storage>>

\* abort_request of a waiting request: release_aborted_request
Abort(r) ==
  /\ Alive /\ batch = {} /\ req[r].st = "waiting"
  /\ faults < MaxFaults /\ faults' = faults + 1
  /\ req' = [req EXCEPT ![r].st = "away"]
  /\ LET O == OpsOf(r)
     IN  /\ c' = ReleaseHost(c, BasesOf(O))
         /\ ops' = Forget([o \in DOMAIN ops |-> [ops[o] EXCEPT !.term = @ \/ o \in O]],
                          O \ Held(ongoing \ O))
         /\ ongoing' = ongoing \ O
         /\ occupied' = occupied - OccupiedByAll(O)
         /\ released' = released \cup
                        UNION {Elements(SubSeq(ops[o].host, 1, ops[o].done)) : o \in O}
  /\ UNCHANGED <<args, arrived, batch, loading, queue, buffer, aux, revoked, storage>>

-----------------------------------------------------------------------------
(* The copy streams *)

Source(copy, p) == (CHOOSE x \in copy : x[2] = p)[1]
Targets(copy) == {x[2] : x \in copy}

\* the write stream finishes its first open transfer
WriteDone ==
  /\ \E k \in DOMAIN c.writes :
       /\ ~c.writes[k].done /\ \A i \in 1 .. k - 1 : c.writes[i].done
       /\ LET copy == c.writes[k].copy
          IN  c' = [c EXCEPT !.writes[k].done = TRUE,
                             !.kvH = [p \in DOMAIN @ |-> IF p \in Targets(copy)
                                                         THEN c.kvD[Source(copy, p)] ELSE @[p]]]
  /\ UNCHANGED <<scheduler, bounds, prefetch, storage>>

\* the load stream finishes its first open transfer
LoadDone ==
  /\ \E k \in DOMAIN loading :
       /\ ~loading[k].done /\ \A i \in 1 .. k - 1 : loading[i].done
       /\ loading' = [loading EXCEPT ![k].done = TRUE, ![k].readers = {}]
       /\ LET copy == loading[k].copy
          IN  c' = [c EXCEPT !.kvD = [p \in DOMAIN @ |-> IF p \in Targets(copy)
                                                         THEN c.kvH[Source(copy, p)] ELSE @[p]]]
  /\ UNCHANGED <<args, bounds, req, batch, prefetch, storage>>

-----------------------------------------------------------------------------
(* The storage threads *)

\* HiCacheFile.exists
Exists(q) == \E v \in store : v[1] = q

\* _storage_hit_query, batch_exists: the leading pages that exist
HitCount(o) ==
  CHOOSE k \in 0 .. Len(o.key) :
    /\ \A i \in 1 .. k : Exists(Fetched(o, i))
    /\ k = Len(o.key) \/ ~Exists(Fetched(o, k + 1))

\* one round of prefetch_thread_func
PrefetchThread ==
  /\ queue # <<>>
  /\ queue' = Tail(queue)
  /\ LET o == Head(queue)
         p == ops[o]
         h == HitCount(p)
     IN  IF h < Threshold
         THEN /\ revoked' = revoked \cup {o}
              /\ released' = released \cup Elements(p.own)
              /\ ops' = [ops EXCEPT ![o].own = <<>>]
              /\ UNCHANGED buffer
         ELSE /\ released' = released \cup Elements(SubSeq(p.own, h + 1, Len(p.own)))
              /\ ops' = [ops EXCEPT ![o].hits = h, ![o].own = First(p.own, h)]
              /\ buffer' = Append(buffer, o)
              /\ UNCHANGED revoked
  /\ UNCHANGED <<c, scheduler, bounds, ongoing, aux, occupied, storage>>

\* mutant: a failed read does not mark the operation terminated
AuxEndQuietly(o) ==
  /\ released' = released \cup Elements(SubSeq(ops[o].own, ops[o].done + 1, Len(ops[o].own)))
  /\ ops' = Forget([ops EXCEPT ![o].own = SubSeq(@, 1, ops[o].done)], {o} \ ongoing)
  /\ aux' = Idle

\* the operation in the hands of the I/O thread ends: what was not completed
\* goes back
AuxEnd(o) ==
  /\ released' = released \cup Elements(SubSeq(ops[o].own, ops[o].done + 1, Len(ops[o].own)))
  /\ ops' = Forget([ops EXCEPT ![o].own = SubSeq(@, 1, ops[o].done), ![o].term = TRUE],
                   {o} \ ongoing)
  /\ aux' = Idle

\* _page_transfer reads the next page of the operation, the first of a new
\* one if the thread is idle.  Past the pages the operation was given the
\* index raises, which ends the thread; a page that cannot be read ends the
\* operation.
AuxGet ==
  /\ aux.at = "idle" => buffer # <<>>
  /\ aux.at \in {"idle", "get"}
  /\ LET o == IF aux.at = "idle" THEN Head(buffer) ELSE aux.op
         p == ops[o]
         k == p.done + 1
     IN  /\ buffer' = IF aux.at = "idle" THEN Tail(buffer) ELSE buffer
         /\ \/ /\ k > Len(p.own)
               /\ aux' = [op |-> o, at |-> "dead"]
               /\ UNCHANGED <<c, ops, released, faults>>
            \/ /\ k <= Len(p.own)
               /\ \E v \in store : /\ v[1] = Fetched(p, k)
                                   /\ c' = [c EXCEPT !.kvH[p.own[k]] = v[2]]
               /\ aux' = [op |-> o, at |-> "count"]
               /\ UNCHANGED <<ops, released, faults>>
            \/ /\ faults < MaxFaults /\ faults' = faults + 1
               /\ AuxEnd(o)
               /\ UNCHANGED c
  /\ UNCHANGED <<scheduler, arrived, ongoing, queue, revoked, occupied, storage>>

\* mutant: completed_tokens grows although the operation was terminated
AuxCountAlways ==
  /\ aux.at = "count"
  /\ LET o == aux.op
     IN  /\ ops' = [ops EXCEPT ![o].done = @ + 1]
         /\ aux' = IF ops[o].done + 1 = ops[o].hits THEN Idle ELSE [op |-> o, at |-> "get"]
  /\ UNCHANGED <<c, scheduler, bounds, ongoing, queue, buffer, revoked, released, occupied, storage>>

\* increment, refused once the scheduler has terminated the operation; the
\* last page ends it
AuxCount ==
  /\ aux.at = "count"
  /\ LET o == aux.op
     IN  \/ ops[o].term /\ AuxEnd(o)
         \/ /\ ~ops[o].term
            /\ ops' = [ops EXCEPT ![o].done = @ + 1]
            /\ aux' = IF ops[o].done + 1 = ops[o].hits THEN Idle ELSE [op |-> o, at |-> "get"]
            /\ UNCHANGED released
  /\ UNCHANGED <<c, scheduler, bounds, ongoing, queue, buffer, revoked, occupied, storage>>

\* one round of backup_thread_func: the batch is stored, or its write fails
BackupThread ==
  /\ c.backups # <<>>
  /\ c' = [c EXCEPT !.backups = Tail(@)]
  /\ LET b == Head(c.backups)
     IN  /\ stored' = Append(stored, b.node)
         /\ \/ /\ store' = store \cup {<<q, c.kvH[b.pages[q]]>> : q \in DOMAIN b.pages}
               /\ UNCHANGED faults
            \/ /\ faults < MaxFaults /\ faults' = faults + 1
               /\ UNCHANGED store
  /\ UNCHANGED <<scheduler, arrived, prefetch>>

-----------------------------------------------------------------------------
Next ==
  \/ \E r \in Req : \/ Arrive(r) \/ CheckPrefetchProgress(r) \/ AddOneReq(r)
                    \/ Finish(r) \/ Abort(r)
  \/ CheckEvents \/ Launch \/ WriteDone \/ LoadDone
  \/ PrefetchThread \/ AuxGet \/ AuxCount \/ BackupThread

\* What keeps running, in terms of what each actor finishes: the prefetch
\* thread, the I/O thread unless it has died, the event loop, each iteration of
\* which begins with check_hicache_events, and the prefill pass, which asks
\* check_prefetch_progress of every request it comes to.  As only finitely many
\* requests come, an actor that goes on running has nothing to do in the end.
AuxBusy == aux.at \in {"get", "count"} \/ (aux.at = "idle" /\ buffer # <<>>)
MayEnd == Alive /\ \E o \in ongoing : req[ops[o].req].st = "waiting" /\ CanTerminate(o)
Fairness == /\ []<>(queue = <<>>)
            /\ []<>~AuxBusy
            /\ []<>(revoked = {} \/ Failed(c))
            /\ []<>~MayEnd

Spec == Init /\ [][Next]_vars
FairSpec == Spec /\ Fairness

-----------------------------------------------------------------------------
(* Properties *)

Count(S) == Cardinality(S)

\* the places of the requests' rows whose page is the request's own
OwnRows == {x \in Req \X (1 .. DevicePages) :
              req[x[1]].prefix < x[2] /\ x[2] <= Len(req[x[1]].row)}

\* the places of the host pages an operation still answers for: all it has not
\* given back, and, while its request waits for it, those it has filled
OpPages == {x \in (DOMAIN ops) \X (1 .. HostPages) :
              x[2] \in DOMAIN ops[x[1]].own /\ (x[2] > ops[x[1]].done \/ x[1] \in ongoing)}

\* Every device page is free, in the tree or in one request's row, and every
\* host page is free, in the tree, with one prefetch operation or on its way
\* back, whoever of scheduler and threads gave it up last: none is lost, and,
\* as there are no more places than pages, none is used twice.
PagesOwned ==
  Alive =>
    /\ c.freeD \cup Elements(c.value) \cup {req[x[1]].row[x[2]] : x \in OwnRows}
         = 1 .. DevicePages
    /\ Count(c.freeD) + Count(DOMAIN c.value) + Count(OwnRows) = DevicePages
    /\ c.freeH \cup released \cup Elements(c.host) \cup {ops[x[1]].own[x[2]] : x \in OpPages}
         = 1 .. HostPages
    /\ Count(c.freeH) + Count(released) + Count(DOMAIN c.host) + Count(OpPages) = HostPages

\* What a walk of the tree counts: sizes of the device part, leaves of the
\* device part and of the host part.  The device part reaches up to the root.
TreeCounted ==
  LET dev == {n \in Nodes(c) : ~Evicted(c, n)}
  IN  /\ c.evictable = Size(c, {n \in dev : c.lock[n] = 0})
      /\ c.protected = Size(c, {n \in Nodes(c) : c.lock[n] > 0})
      /\ \A n \in Nodes(c) : c.lock[n] > 0 => n \in dev
      /\ c.leaves = {n \in dev : c.lock[n] = 0 /\ Below(c, n) \cap dev = {}}
      /\ c.hostLeaves = {n \in Nodes(c) \ dev : Below(c, n) = {}}
      /\ \A n \in dev : Path(c, n) \subseteq dev
      /\ \A n \in Nodes(c) \ dev : Key(c, n) \subseteq DOMAIN c.host

\* who relies on the host pages of a node: prefetches that continue it, and
\* backups of it
HostRefsCounted ==
  /\ \A n \in DOMAIN c.href :
       c.href[n] = Count({o \in ongoing : ops[o].base = n})
                   + Count({k \in DOMAIN c.backups : c.backups[k].node = n})
                   + Count({k \in DOMAIN stored : stored[k] = n})
  /\ \A o \in ongoing : ops[o].base \in DOMAIN c.href

\* The counters kept incrementally by a dozen operations of the scheduler stay
\* exact over splits, evictions, loads, aborts, revocations and late
\* acknowledgements: evictable_size_ and the two sets of leaves of the tree,
\* host_ref_counter of each node, and prefetch_tokens_occupied.
HiBookkeepingExact ==
  Alive => TreeCounted /\ HostRefsCounted /\ occupied = OccupiedByAll(ongoing)

\* pages whose transfer is not done yet
LoadTargets ==
  UNION ({Targets(c.loads[k].copy) : k \in DOMAIN c.loads}
         \cup {Targets(loading[k].copy) : k \in {k \in DOMAIN loading : ~loading[k].done}})
WriteTargets == UNION {Targets(c.writes[k].copy) : k \in {k \in DOMAIN c.writes : ~c.writes[k].done}}

\* What the tree serves is the KV of its tokens, on every tier: a device or
\* host page holds the prefix it stands for once the transfer into it is done,
\* and storage only ever gets a prefix's own KV.
KVRight ==
  Alive =>
    /\ \A q \in DOMAIN c.value : c.kvD[c.value[q]] = q \/ c.value[q] \in LoadTargets
    /\ \A q \in DOMAIN c.host : c.kvH[c.host[q]] = q \/ c.host[q] \in WriteTargets
    /\ \A v \in store : v[1] = v[2]

\* a backed-up node below one that is not
Gap(t) == \E n \in Nodes(t) : Backuped(t, n) /\ ~Backuped(t, Parent(t, n))

\* The scheduler meets no failing allocation, no double free and no failing
\* assertion, with these exceptions: a device-only node with a prefetched node
\* below it, at which _evict_regular's assertion fails; and, with write_back, a
\* host without room, when evict frees less than evictable_size_ promised or
\* makes room by evicting the very node that is being loaded.
SchedulerSurvives ==
  Failed(c) => \/ c.fail = "non-leaf" /\ Gap(c)
               \/ /\ args.write = "write_back"
                  /\ c.fail \in {"out of memory", "loaded node detached"}

\* With the write-through policies "backed-up nodes must form a contiguous
\* prefix from root": backups, evictions, splits and inserts never open a gap,
\* only the end of a prefetch does.
ContiguousBackups ==
  [][args.write # "write_back" /\ ~Gap(c) /\ Gap(c')
       => \E r \in Req : CheckPrefetchProgress(r)]_vars

\* A prefetch lets its request go under every stop policy, whatever storage
\* answers: unless the I/O thread has died, the request is free to be admitted.
PrefetchEnds ==
  \A r \in Req : []<>(OpsOf(r) = {} \/ aux.at = "dead" \/ Failed(c))
=============================================================================
