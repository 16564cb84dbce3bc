---------------------------- MODULE HiRadixCache ----------------------------
(***************************************************************************)
(* The hierarchical radix tree (mem_cache/hiradix_cache.py): a radix tree  *)
(* whose nodes have KV on the device, on the host, or on both.  As its     *)
(* class extends RadixCache, this module extends that one; a page is one   *)
(* token (PageSize = 1), and a tree c has, besides the fields of a tree of *)
(* RadixCache,                                                             *)
(*   c.host       host_value, page by page, as c.value is the device's     *)
(*   c.hit        hit_count of each node, up to the largest threshold      *)
(*   c.href       host_ref_counter of each node and of the root            *)
(*   c.hostLeaves evictable_host_leaves                                    *)
(*   c.freeD, c.freeH  the free pages of the two pools                     *)
(*   c.kvD, c.kvH what each page holds: the prompt prefix whose last page  *)
(*                it is the KV of                                          *)
(*   c.writes     ack_write_queue with the nodes of ongoing_write_through  *)
(*   c.loads      load_queue with the nodes of ongoing_load_back           *)
(*   c.backups    backup_queue with the nodes of ongoing_backup            *)
(*   c.fail       the exception that has ended the scheduler, if any       *)
(* Where the order of an eviction heap matters an operator returns the set *)
(* of trees any eviction strategy can leave.                               *)
(***************************************************************************)
EXTENDS RadixCache, TLC

CONSTANTS DevicePages, HostPages, LoadBackThreshold

ASSUME HierarchyAssumption ==
  /\ PageSize = 1
  /\ {DevicePages, LoadBackThreshold} \subseteq Nat \ {0}
  /\ HostPages \in Nat /\ HostPages > DevicePages

\* what a page holds that nothing has been written to
Nothing == Root
NoFailure == "none"
MaxHits == 2

HiEmpty ==
  [lock |-> <<>>, value |-> <<>>, host |-> <<>>, hit |-> <<>>, href |-> Root :> 0,
   evictable |-> 0, protected |-> 0, leaves |-> {}, hostLeaves |-> {},
   freeD |-> 1 .. DevicePages, freeH |-> 1 .. HostPages,
   kvD |-> [p \in 1 .. DevicePages |-> Nothing],
   kvH |-> [p \in 1 .. HostPages |-> Nothing],
   writes |-> <<>>, loads |-> <<>>, backups |-> <<>>, fail |-> NoFailure]

Without(f, S) == [x \in DOMAIN f \ S |-> f[x]]
Failed(c) == c.fail # NoFailure
Raise(c, what) == [c EXCEPT !.fail = what]

\* evicted and backuped of a node
Evicted(c, n) == n # Root /\ n \notin DOMAIN c.value
Backuped(c, n) == n = Root \/ n \in DOMAIN c.host

Children(c, n) == {m \in Below(c, n) : Parent(c, m) = n}

\* _update_leaf_status and _update_host_leaf_status of the nodes of S
LeafStatus(c, S) ==
  [c EXCEPT !.leaves = (@ \ S) \cup {n \in S \cap Nodes(c) :
      ~Evicted(c, n) /\ c.lock[n] <= 0 /\ \A m \in Children(c, n) : Evicted(c, m)}]
HostLeafStatus(c, S) ==
  [c EXCEPT !.hostLeaves = (@ \ S) \cup {n \in S \cap Nodes(c) :
      Evicted(c, n) /\ c.lock[n] <= 0 /\ \A m \in Children(c, n) : ~Backuped(c, m)}]

HiIncLockRef(c, n) == HostLeafStatus(LeafStatus(IncLockRef(c, n), Path(c, n)), Path(c, n))
HiDecLockRef(c, n) == HostLeafStatus(LeafStatus(DecLockRef(c, n), Path(c, n)), Path(c, n))

\* free of the two pools: a page that is free already is a double free
FreeDevice(c, P) ==
  IF P \cap c.freeD # {} THEN Raise(c, "device page freed twice")
  ELSE [c EXCEPT !.freeD = @ \cup P,
                 !.kvD = [p \in DOMAIN @ |-> IF p \in P THEN Nothing ELSE @[p]]]
FreeHost(c, P) ==
  IF P \cap c.freeH # {} THEN Raise(c, "host page freed twice")
  ELSE [c EXCEPT !.freeH = @ \cup P,
                 !.kvH = [p \in DOMAIN @ |-> IF p \in P THEN Nothing ELSE @[p]]]

\* alloc of n pages out of the free ones; which ones makes no difference
Alloc(free, n) ==
  [k \in 1 .. n |-> CHOOSE p \in free : Cardinality({x \in free : x < p}) = k - 1]
Elements(s) == {s[k] : k \in DOMAIN s}

\* the pages of one tier that hold the KV of the nodes of N
PagesOf(c, f, N) == {f[q] : q \in KeysOf(c, N)}

-----------------------------------------------------------------------------
(* match_prefix *)

HiMatched(c, key) == Longest(Prefixes(key) \cap (DOMAIN c.value \cup DOMAIN c.host))

\* mutant: the upper half of a split node inherits its host reference
HiSplitShared(c, q) ==
  IF q \in Nodes(c) \cup {Root} THEN c
  ELSE LET h == Holder(c, q)
       IN  [Split(c, q) EXCEPT !.hit = (q :> c.hit[h]) @@ @,
                               !.href = (q :> c.href[h]) @@ @]

\* _split_node: the lower half keeps the node, and with it the host references
HiSplit(c, q) ==
  IF q \in Nodes(c) \cup {Root} THEN c
  ELSE [Split(c, q) EXCEPT !.hit = (q :> c.hit[Holder(c, q)]) @@ @,
                           !.href = (q :> 0) @@ @]

\* last_device_node and last_host_node of a match that ended at n
LastDeviceNode(c, n) == Longest({m \in Path(c, n) : ~Evicted(c, m)})
LastHostNode(c, n) == Longest({m \in Path(c, n) : Backuped(c, m)})

-----------------------------------------------------------------------------
(* evict_host and write_backup *)

\* evict_host of one node: it leaves the tree
EvictHostNode(c, x) ==
  HostLeafStatus(
    FreeHost([c EXCEPT !.lock = Without(@, {x}), !.hit = Without(@, {x}),
                       !.href = Without(@, {x}),
                       !.host = Without(@, Key(c, x)),
                       !.hostLeaves = @ \ {x}],
             PagesOf(c, c.host, {x})),
    {Parent(c, x)} \ {Root})

\* the loop of evict_host over its heap
RECURSIVE EvictHostLoop(_, _, _)
EvictHostLoop(c, heap, num) ==
  IF num <= 0 \/ heap = {} THEN {c}
  ELSE UNION {IF ~Evicted(c, x) \/ c.href[x] > 0 THEN EvictHostLoop(c, heap \ {x}, num)
              ELSE LET d == EvictHostNode(c, x)
                       y == Parent(c, x)
                   IN  EvictHostLoop(
                         d, (heap \ {x}) \cup {z \in {y} : Children(d, y) = {} /\ Evicted(d, y)},
                         num - Size(c, {x})) : x \in heap}
EvictHost(c, num) == EvictHostLoop(c, c.hostLeaves, num)

\* what an allocation of num host pages finds: the tree as it is, or after
\* evict_host
HostRoom(c, num) == IF Cardinality(c.freeH) >= num THEN {c} ELSE EvictHost(c, num)

\* the host pages are allocated and the copy is under way; write_back writes
\* are not locked
Written(c, x, back) ==
  LET pages == Alloc(c.freeH, Size(c, {x}))
      at    == Len(Parent(c, x))
      d     == [c EXCEPT !.freeH = @ \ Elements(pages),
                         !.host = [q \in Key(c, x) |-> pages[Len(q) - at]] @@ @,
                         !.writes = Append(@, [node |-> x, done |-> FALSE,
                                               copy |-> {<<c.value[q], pages[Len(q) - at]>> :
                                                         q \in Key(c, x)}])]
  IN  IF back THEN d ELSE HiIncLockRef(d, x)

\* mutant: a node is backed up although its parent is not
WriteBackupAnywhere(c, x, back) ==
  {IF Cardinality(d.freeH) >= Size(c, {x}) THEN Written(d, x, back) ELSE d :
     d \in HostRoom(c, Size(c, {x}))}

WriteBackup(c, x, back) ==
  IF ~back /\ ~Backuped(c, Parent(c, x)) THEN {c}
  ELSE {IF Cardinality(d.freeH) >= Size(c, {x}) THEN Written(d, x, back) ELSE d :
          d \in HostRoom(c, Size(c, {x}))}

WriteThreshold(policy) == IF policy = "write_through" THEN 1 ELSE MaxHits

IncHitCount(c, policy, n) ==
  IF policy = "write_back" THEN {c}
  ELSE LET h == IF c.hit[n] < MaxHits THEN c.hit[n] + 1 ELSE MaxHits
           d == [c EXCEPT !.hit[n] = h]
       IN  IF ~Backuped(d, n) /\ h >= WriteThreshold(policy) THEN WriteBackup(d, n, FALSE)
           ELSE {d}

\* write_backup_storage: the host pages are read by the backup thread, and
\* protected until it is done
WriteBackupStorage(c, x) ==
  [c EXCEPT !.backups = Append(@, [node |-> x, pages |-> [q \in Key(c, x) |-> c.host[q]]]),
            !.href[x] = @ + 1]

-----------------------------------------------------------------------------
(* evict *)

\* _evict_backuped: from device and host to host only
EvictBackuped(c, x) ==
  LeafStatus(HostLeafStatus(LeafStatus(
    FreeDevice([c EXCEPT !.value = Without(@, Key(c, x)), !.evictable = @ - Size(c, {x})],
               PagesOf(c, c.value, {x})), {x}), {x}), {Parent(c, x)} \ {Root})

\* _evict_regular, with its assertion that the node is a leaf
EvictRegular(c, x) ==
  IF Children(c, x) # {} THEN Raise(c, "non-leaf")
  ELSE LeafStatus(
         FreeDevice([c EXCEPT !.lock = Without(@, {x}), !.hit = Without(@, {x}),
                              !.href = Without(@, {x}),
                              !.value = Without(@, Key(c, x)),
                              !.evictable = @ - Size(c, {x}),
                              !.leaves = @ \ {x}],
                    PagesOf(c, c.value, {x})),
         {Parent(c, x)} \ {Root})

\* one unlocked node of the heap: the trees it may leave, and whether it is to
\* be written back
EvictOne(c, policy, x) ==
  IF Backuped(c, x) THEN {[c |-> EvictBackuped(c, x), back |-> FALSE]}
  ELSE IF policy = "write_back"
       THEN {[c |-> d, back |-> Backuped(d, x)] : d \in WriteBackup(c, x, TRUE)}
       ELSE {[c |-> EvictRegular(c, x), back |-> FALSE]}

RECURSIVE EvictLoop(_, _, _, _, _)
EvictLoop(c, policy, heap, num, back) ==
  IF num <= 0 \/ heap = {} \/ Failed(c) THEN {[c |-> c, back |-> back]}
  ELSE UNION {
    IF c.lock[x] > 0 THEN EvictLoop(c, policy, heap \ {x}, num, back)
    ELSE UNION {
      LET d     == e.c
          left  == IF e.back THEN Append(back, x) ELSE back
          freed == IF e.back \/ x \notin Nodes(d) \/ Evicted(d, x) THEN Size(c, {x}) ELSE 0
          above == {y \in {Parent(c, x)} \ {Root} :
                      \A m \in Children(d, y) : Evicted(d, m) \/ m \in Elements(left)}
      IN  EvictLoop(d, policy, (heap \ {x}) \cup above, num - freed, left)
      : e \in EvictOne(c, policy, x)}
    : x \in heap}

\* writing_check(write_back=True) and the demotion of what has been written
RECURSIVE WriteBackDone(_, _)
WriteBackDone(c, back) ==
  IF back = <<>> THEN c
  ELSE LET w == Head(c.writes)
           d == [c EXCEPT !.writes = Tail(@),
                          !.kvH = [p \in DOMAIN @ |->
                                     IF \E x \in w.copy : x[2] = p
                                     THEN c.kvD[(CHOOSE x \in w.copy : x[2] = p)[1]]
                                     ELSE @[p]]]
       IN  WriteBackDone(EvictBackuped(WriteBackupStorage(d, w.node), Head(back)), Tail(back))

EvictDevice(c, policy, num) ==
  {WriteBackDone(e.c, e.back) : e \in EvictLoop(c, policy, c.leaves, num, <<>>)}

\* what an allocation of num device pages finds
DeviceRoom(c, policy, num) ==
  IF Cardinality(c.freeD) >= num THEN {c} ELSE EvictDevice(c, policy, num)

-----------------------------------------------------------------------------
(* insert, _insert_helper_host *)

\* an evicted node gets the device pages of a request that computed it again
Revalued(c, n, row) ==
  LeafStatus(HostLeafStatus(LeafStatus(
    [c EXCEPT !.value = [q \in Key(c, n) |-> row[Len(q)]] @@ @,
              !.evictable = @ + Size(c, {n})], {n}), {n}), {Parent(c, n)} \ {Root})

\* The walk of insert from node at.  dup is total_prefix_length.
RECURSIVE InsertFrom(_, _, _, _, _, _)
InsertFrom(c, policy, at, key, row, dup) ==
  LET on == {q \in Prefixes(key) \cap (DOMAIN c.value \cup DOMAIN c.host) :
               \E n \in Children(c, at) : q \in Key(c, n)}
      q  == Longest(on)
      s  == HiSplit(c, q)
  IN  CASE on # {} /\ Evicted(s, q) -> InsertFrom(Revalued(s, q, row), policy, q, key, row, dup)
        [] on # {} /\ ~Evicted(s, q) ->
             UNION {InsertFrom(d, policy, q, key, row, dup + Len(q) - Len(at)) :
                      d \in IncHitCount(s, policy, q)}
        [] on = {} /\ at = key -> {[c |-> c, dup |-> dup]}
        [] on = {} /\ at # key ->
             LET new == [c EXCEPT !.lock = (key :> 0) @@ @, !.hit = (key :> 0) @@ @,
                                  !.href = (key :> 0) @@ @,
                                  !.value = [p \in {p \in Prefixes(key) : Len(p) > Len(at)} |->
                                               row[Len(p)]] @@ @,
                                  !.evictable = @ + Len(key) - Len(at)]
             IN  {[c |-> d, dup |-> dup] :
                    d \in IncHitCount(LeafStatus(new, {at, key} \ {Root}), policy, key)}

HiInsert(c, policy, key, row) == InsertFrom(c, policy, Root, key, row, 0)

\* _insert_helper_host: path is the fetched prefix, page its host pages by
\* position; the matched part of it is already in the tree
InsertHost(c, base, path, page) ==
  LET m == Longest({base} \cup (Prefixes(path) \cap (DOMAIN c.value \cup DOMAIN c.host)))
      s == HiSplit(c, m)
  IN  IF path = base \/ m = path THEN s
      ELSE HostLeafStatus(LeafStatus(
             [s EXCEPT !.lock = (path :> 0) @@ @, !.hit = (path :> 0) @@ @,
                       !.href = (path :> 0) @@ @,
                       !.host = [q \in {q \in Prefixes(path) : Len(q) > Len(m)} |->
                                   page[Len(q)]] @@ @],
             {m} \ {Root}), {m, path} \ {Root})
InsertHostMatched(c, base, path) ==
  Len(Longest({base} \cup (Prefixes(path) \cap (DOMAIN c.value \cup DOMAIN c.host)))) - Len(base)

-----------------------------------------------------------------------------
(* load_back *)

\* The trees load_back(n) may leave: all of the evicted nodes above n and n
\* are given device pages, or none.  The host pages are noted before evict.
\* When evict has removed one of these nodes from the tree the code goes on with
\* the removed node; the model ends there and names what happened.
LoadBack(c, policy, n) ==
  LET todo == {m \in Path(c, n) : Evicted(c, m)}
      anc  == LastDeviceNode(c, n)
      num  == Size(c, todo)
      l    == HiIncLockRef(c, anc)
      give(d) ==
        LET pages == Alloc(d.freeD, num)
        IN  [d EXCEPT !.freeD = @ \ Elements(pages),
                      !.value = [q \in KeysOf(c, todo) |-> pages[Len(q) - Len(anc)]] @@ @,
                      !.evictable = @ + num,
                      !.loads = Append(@, [node |-> n,
                                           copy |-> {<<c.host[q], pages[Len(q) - Len(anc)]>> :
                                                     q \in KeysOf(c, todo)}])]
  IN  IF num < LoadBackThreshold THEN {c}
      ELSE {CASE Failed(d) -> d
              [] ~Failed(d) /\ Cardinality(d.freeD) < num -> HiDecLockRef(d, anc)
              [] ~Failed(d) /\ Cardinality(d.freeD) >= num /\ ~(todo \subseteq Nodes(d)) ->
                   Raise(d, "loaded node detached")
              [] OTHER -> HiIncLockRef(give(HiDecLockRef(d, anc)), n)
            : d \in DeviceRoom(l, policy, num)}
=============================================================================
