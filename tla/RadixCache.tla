----------------------------- MODULE RadixCache -----------------------------
(***************************************************************************)
(* The radix tree of cached KV pages (mem_cache/radix_cache.py), as        *)
(* operators on a record.  A node is named by the tokens on its path from  *)
(* the root, so a split renames nothing and the parent is the longest node *)
(* that is a proper prefix.  A tree t has                                  *)
(*   t.lock       lock_ref of each node below the root: its domain is the  *)
(*                set of nodes                                             *)
(*   t.value      the page of KV of each page of tokens in the tree, by    *)
(*                the tokens up to the end of that page                    *)
(*   t.evictable, t.protected, t.leaves                                    *)
(*                evictable_size_, protected_size_, evictable_leaves       *)
(***************************************************************************)
EXTENDS Integers, Sequences, FiniteSets

CONSTANT PageSize
ASSUME PageSizeAssumption == PageSize \in Nat \ {0}

Root == <<>>
Upto(key, n) == SubSeq(key, 1, n)
FullPages(n) == n \div PageSize
CeilPages(n) == (n + PageSize - 1) \div PageSize
Aligned(key) == Upto(key, FullPages(Len(key)) * PageSize)

\* the page-aligned prefixes of key, one for each of its full pages
Prefixes(key) == {Upto(key, k * PageSize) : k \in 1 .. FullPages(Len(key))}

Empty == [lock      |-> [n \in {} |-> 0],
          value     |-> [q \in {} |-> 0],
          evictable |-> 0,
          protected |-> 0,
          leaves    |-> {}]

Nodes(t) == DOMAIN t.lock

\* n and the nodes above it, the root excluded: the walk by node.parent
Path(t, n) == Prefixes(n) \cap Nodes(t)
Below(t, n) == {m \in Nodes(t) : Len(n) < Len(m) /\ Upto(m, Len(n)) = n}

Longest(S) == IF S = {} THEN Root
              ELSE CHOOSE q \in S : \A s \in S : Len(s) <= Len(q)
Parent(t, n) == Longest(Path(t, n) \ {n})

\* the pages of node.key, and their number of tokens over a set of nodes
Key(t, n) == {q \in Prefixes(n) : Len(q) > Len(Parent(t, n))}
Size(t, S) == PageSize * Cardinality(UNION {Key(t, n) : n \in S})

\* _update_leaf_status of every node of S
UpdateLeafStatus(t, S) ==
  [t EXCEPT !.leaves = (@ \ S) \cup {n \in S : t.lock[n] <= 0 /\ Below(t, n) = {}}]

-----------------------------------------------------------------------------
(* match_prefix and insert *)

\* how far the walk down the tree follows key
Matched(t, key) == Longest(Prefixes(key) \cap DOMAIN t.value)

\* the node whose key the prefix q ends in
Holder(t, q) ==
  CHOOSE n \in Nodes(t) : /\ q \in Prefixes(n)
                          /\ \A m \in Nodes(t) : q \in Prefixes(m) => Len(n) <= Len(m)

\* mutant: the new upper node starts unlocked
SplitUnlocked(t, q) ==
  IF q \in Nodes(t) \cup {Root} THEN t
  ELSE [t EXCEPT !.lock = [n \in Nodes(t) \cup {q} |->
                             IF n = q THEN 0 ELSE t.lock[n]]]

\* _split_node where a walk ends inside a key: the upper part is a new node
\* with the lock_ref of the lower one
Split(t, q) ==
  IF q \in Nodes(t) \cup {Root} THEN t
  ELSE [t EXCEPT !.lock = [n \in Nodes(t) \cup {q} |->
                             t.lock[IF n = q THEN Holder(t, q) ELSE n]]]

\* match_prefix, by what it leaves in the tree; the match itself is Matched
MatchPrefix(t, key) == Split(t, Matched(t, key))

\* insert of key with pages[k] the page of its k-th page of tokens; the
\* prefix_len it returns is Len(Matched(t, key))
Insert(t, key, pages) ==
  LET m == Matched(t, key)
      s == Split(t, m)
  IN  IF m = key THEN s
      ELSE UpdateLeafStatus(
             [s EXCEPT
                !.lock  = [n \in Nodes(s) \cup {key} |-> IF n = key THEN 0 ELSE s.lock[n]],
                !.value = [q \in DOMAIN s.value \cup Prefixes(key) |->
                             IF q \in DOMAIN s.value THEN s.value[q]
                             ELSE pages[FullPages(Len(q))]],
                !.evictable = @ + Len(key) - Len(m)],
             {m, key} \ {Root})

-----------------------------------------------------------------------------
(* inc_lock_ref, dec_lock_ref *)

\* mutant: an evictable node that gets locked stays counted as evictable
IncLockRefUncounted(t, n) ==
  UpdateLeafStatus(
    [t EXCEPT !.lock = [m \in Nodes(t) |-> IF m \in Path(t, n) THEN t.lock[m] + 1
                                           ELSE t.lock[m]]],
    Path(t, n))

IncLockRef(t, n) ==
  LET d == Size(t, {m \in Path(t, n) : t.lock[m] = 0})
  IN  UpdateLeafStatus(
        [t EXCEPT !.lock = [m \in Nodes(t) |-> IF m \in Path(t, n) THEN t.lock[m] + 1
                                               ELSE t.lock[m]],
                  !.evictable = @ - d,
                  !.protected = @ + d],
        Path(t, n))

DecLockRef(t, n) ==
  LET d == Size(t, {m \in Path(t, n) : t.lock[m] = 1})
  IN  UpdateLeafStatus(
        [t EXCEPT !.lock = [m \in Nodes(t) |-> IF m \in Path(t, n) THEN t.lock[m] - 1
                                               ELSE t.lock[m]],
                  !.evictable = @ + d,
                  !.protected = @ - d],
        Path(t, n))

-----------------------------------------------------------------------------
(* evict *)

\* The heap starts with evictable_leaves and gets a parent once its last
\* child is gone and it is unlocked: the loop can have removed exactly E.
CanRemove(t, E) ==
  \A x \in E : /\ Below(t, x) \subseteq E
               /\ x \in t.leaves \/ (t.lock[x] = 0 /\ Below(t, x) # {})

\* What evict(num_tokens) may remove, whatever the eviction strategy: it
\* stops with the node that reaches num_tokens, or when the heap is empty.
Evictions(t, num) ==
  LET some == {E \in SUBSET (t.leaves \cup {n \in Nodes(t) : t.lock[n] = 0}) :
                 CanRemove(t, E)}
  IN  {E \in some : \/ /\ Size(t, E) >= num
                       /\ \E x \in E : E \ {x} \in some /\ Size(t, E \ {x}) < num
                    \/ /\ Size(t, E) < num
                       /\ E = UNION some}

KeysOf(t, E) == UNION {Key(t, n) : n \in E}
ValuesOf(t, E) == {t.value[q] : q \in KeysOf(t, E)}

\* the tree after the evictions
Evict(t, E) ==
  UpdateLeafStatus(
    [t EXCEPT !.lock  = [n \in Nodes(t) \ E |-> t.lock[n]],
              !.value = [q \in DOMAIN t.value \ KeysOf(t, E) |-> t.value[q]],
              !.evictable = @ - Size(t, E),
              !.leaves = @ \ E],
    {Parent(t, x) : x \in E} \ (E \cup {Root}))

-----------------------------------------------------------------------------
(* What a well-formed tree is *)

\* The keys of siblings differ in their first page: where two paths part there
\* is a node.  Every page of a path has a value.
RadixShape(t) ==
  /\ DOMAIN t.value = UNION {Prefixes(n) : n \in Nodes(t)}
  /\ \A n, m \in Nodes(t) : Longest(Prefixes(n) \cap Prefixes(m)) \in Nodes(t) \cup {Root}

\* The running totals and the set of leaves, kept incrementally over locks,
\* unlocks, inserts, splits and evictions, are what a walk of the tree counts.
BookkeepingExact(t) ==
  /\ t.evictable = Size(t, {n \in Nodes(t) : t.lock[n] = 0})
  /\ t.protected = Size(t, {n \in Nodes(t) : t.lock[n] > 0})
  /\ t.leaves = {n \in Nodes(t) : t.lock[n] = 0 /\ Below(t, n) = {}}
=============================================================================
