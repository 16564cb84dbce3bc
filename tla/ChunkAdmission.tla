---------------------------- MODULE ChunkAdmission ----------------------------
(***************************************************************************)
(* What RedKnot's chunk cache promises its callers, without its loop or    *)
(* its byte counter: an admission happens at once, makes the chunk         *)
(* resident, and evicts only chunks of least priority, the last of which   *)
(* was still in the way.                                                   *)
(***************************************************************************)
EXTENDS ByteCounts, ChunkEntry

CONSTANTS Chunk, Sizes, Costs, Capacity, MaxStep, MaxReuse

VARIABLES entries,   \* what is kept of each resident chunk
          step

vars == <<entries, step>>

Init == entries = << >> /\ step = 0

Tick == /\ step < MaxStep
        /\ step' = step + 1
        /\ UNCHANGED entries

Touch(c) == /\ c \in DOMAIN entries
            /\ entries[c].reuse < MaxReuse
            /\ entries' = [entries EXCEPT ![c] = Used(@, step)]
            /\ UNCHANGED step

\* n bytes find room once the chunks of V are gone
Room(V, n) == Bytes(entries, DOMAIN entries \ V) + n <= Capacity

\* The sets of victims that make room for n bytes: no victim comes before a
\* chunk that stays, and without the victim of most priority there was no room.
Victims(n) ==
  {V \in SUBSET DOMAIN entries :
     /\ \A v \in V, e \in DOMAIN entries \ V : PriorityLeq(step, entries[v], entries[e])
     /\ Room(V, n)
     /\ V # {} => \E v \in V : /\ \A w \in V : PriorityLeq(step, entries[w], entries[v])
                               /\ ~Room(V \ {v}, n)}

Admit(c, n, cost) ==
  /\ c \notin DOMAIN entries
  /\ n <= Capacity
  /\ \E V \in Victims(n) :
       entries' = [x \in (DOMAIN entries \ V) \cup {c} |->
                     IF x = c THEN NewEntry(n, cost, step) ELSE entries[x]]
  /\ UNCHANGED step

Next == \/ Tick
        \/ \E c \in Chunk : Touch(c)
        \/ \E c \in Chunk, n \in Sizes, cost \in Costs : Admit(c, n, cost)

Spec == Init /\ [][Next]_vars
===============================================================================
