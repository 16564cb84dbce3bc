------------------------ MODULE HeadAwareCachePolicy ------------------------
(***************************************************************************)
(* The reuse-prioritised chunk cache of RedKnot's capacity model           *)
(* (layers/attention/redknot/scheduler.py).  Chunks are kept by priority:  *)
(* reuse count and recovery cost, with recency to break ties.  The loop    *)
(* of admit takes one step per eviction.                                   *)
(***************************************************************************)
EXTENDS ByteCounts, ChunkEntry

CONSTANTS Chunk,      \* chunk ids
          Sizes,      \* byte counts a chunk may have
          Costs,      \* recovery costs
          Capacity,   \* capacity_bytes
          MaxStep,    \* bound on _step
          MaxReuse    \* bound on reuse_count

ASSUME PolicyAssumption ==
  /\ IsFiniteSet(Chunk)
  /\ Sizes \subseteq Nat /\ Costs \subseteq Nat
  /\ Capacity \in Nat
  /\ MaxStep \in Nat /\ MaxReuse \in Nat

VARIABLES entries,   \* _entries: what is kept of each resident chunk
          used,      \* _used_bytes
          step,      \* _step
          call,      \* the arguments of the admit that is in its loop, if any
          settled    \* history: _entries when the last call returned

vars == <<entries, used, step, call, settled>>

Entry == [nbytes : Sizes, cost : Costs, reuse : 0 .. MaxReuse, last : 0 .. MaxStep]
Call == [id : Chunk, nbytes : Sizes, cost : Costs]

Init == /\ entries = << >>
        /\ used = 0
        /\ step = 0
        /\ call = {}
        /\ settled = entries

Tick == /\ call = {}
        /\ step < MaxStep
        /\ step' = step + 1
        /\ UNCHANGED <<entries, used, call, settled>>

\* a hit of get, or an admit of a resident chunk
Touch(c) == /\ call = {}
            /\ c \in DOMAIN entries
            /\ entries[c].reuse < MaxReuse
            /\ entries' = [entries EXCEPT ![c] = Used(@, step)]
            /\ settled' = entries'
            /\ UNCHANGED <<used, step, call>>

\* admit of a new chunk; one that cannot ever fit is refused at once
AdmitCalled(a) == /\ call = {}
                  /\ a.id \notin DOMAIN entries
                  /\ a.nbytes <= Capacity
                  /\ call' = {a}
                  /\ UNCHANGED <<entries, used, step, settled>>

\* mutant: the loop goes on while the sum is >= capacity, not >
FullAtCapacity(a) == used + a.nbytes >= Capacity /\ DOMAIN entries # {}

\* the loop's condition
Full(a) == used + a.nbytes > Capacity /\ DOMAIN entries # {}

\* mutant: the bytes of the victim stay counted
EvictLeaks(a) ==
  /\ Full(a)
  /\ \E v \in DOMAIN entries :
       /\ \A e \in DOMAIN entries : PriorityLeq(step, entries[v], entries[e])
       /\ entries' = [x \in DOMAIN entries \ {v} |-> entries[x]]
  /\ UNCHANGED <<used, step, call, settled>>

\* The loop's body: a chunk of least priority goes (among equals any, in the code
\* the first of the dictionary).  That it may have more priority than the new
\* chunk changes nothing: the body's test for it only passes.
Evict(a) ==
  /\ Full(a)
  /\ \E v \in DOMAIN entries :
       /\ \A e \in DOMAIN entries : PriorityLeq(step, entries[v], entries[e])
       /\ entries' = [x \in DOMAIN entries \ {v} |-> entries[x]]
       /\ used' = used - entries[v].nbytes
  /\ UNCHANGED <<step, call, settled>>

\* after the loop: the chunk goes in, if it fits
AdmitReturns(a) ==
  /\ ~Full(a)
  /\ IF used + a.nbytes > Capacity
     THEN UNCHANGED <<entries, used>>
     ELSE /\ entries' = [x \in DOMAIN entries \cup {a.id} |->
                           IF x = a.id THEN NewEntry(a.nbytes, a.cost, step)
                           ELSE entries[x]]
          /\ used' = used + a.nbytes
  /\ call' = {}
  /\ settled' = entries'
  /\ UNCHANGED step

Next == \/ Tick
        \/ \E c \in Chunk : Touch(c)
        \/ \E a \in Call : AdmitCalled(a)
        \/ \E a \in call : Evict(a) \/ AdmitReturns(a)

Spec == Init /\ [][Next]_vars

-----------------------------------------------------------------------------
(* Properties *)

\* The bookkeeping of admit and its loop: _used_bytes is what the resident
\* chunks take, and never more than the capacity, also between two evictions.
CapacityRespected ==
  /\ DOMAIN entries \subseteq Chunk /\ entries \in [DOMAIN entries -> Entry]
  /\ used = Bytes(entries, DOMAIN entries)
  /\ used <= Capacity

Evicted == DOMAIN entries \ DOMAIN entries'

\* A chunk that was reused at least as often, costs at least as much to
\* recover and was used at least as recently as another, and more in one of
\* these, is never evicted while the other one stays.
DominatedGoFirst ==
  [][\A v \in Evicted, e \in DOMAIN entries \cap DOMAIN entries' :
       ~ /\ entries[v].reuse >= entries[e].reuse
         /\ entries[v].cost >= entries[e].cost
         /\ entries[v].last >= entries[e].last
         /\ entries[v].cost > 0
         /\ \/ entries[v].reuse > entries[e].reuse
            \/ entries[v].cost > entries[e].cost
            \/ entries[v].last > entries[e].last]_vars

\* An admit seen from outside, its loop and byte counter hidden: the chunk is
\* resident when the call returns, what was evicted has least priority, and
\* the loop went no further than it had to.
Promise == INSTANCE ChunkAdmission WITH entries <- settled
ImplementsAdmission == Promise!Spec
=============================================================================
