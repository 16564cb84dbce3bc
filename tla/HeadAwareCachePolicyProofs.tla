---------------------- MODULE HeadAwareCachePolicyProofs ----------------------
(***************************************************************************)
(* TLAPS proofs about HeadAwareCachePolicy: for every set of chunks, sizes *)
(* and costs and every capacity, the byte count is exact and within the    *)
(* capacity at every step of admit's loop, the loop evicts in priority     *)
(* order, and seen from outside an admit keeps the promise of              *)
(* ChunkAdmission.                                                         *)
(***************************************************************************)
EXTENDS HeadAwareCachePolicy, ByteCountsProofs

-----------------------------------------------------------------------------
(* The inductive invariant.  The bytes are exact and no resident chunk was *)
(* last used in the future; and in the loop of admit, what is gone since   *)
(* the call came before what is left, and was in the way.                  *)

\* the chunks the admit in progress has evicted so far
Gone == DOMAIN settled \ DOMAIN entries

Bookkeeping == /\ CapacityRespected
               /\ step \in 0 .. MaxStep
               /\ \A c \in DOMAIN entries : entries[c].last <= step
               /\ call \subseteq Call /\ \A a, b \in call : a = b

\* entries is what is left of settled
Left == /\ DOMAIN settled \subseteq Chunk /\ settled \in [DOMAIN settled -> Entry]
        /\ DOMAIN entries \subseteq DOMAIN settled
        /\ \A c \in DOMAIN entries : entries[c] = settled[c]
        /\ call = {} => entries = settled

\* what the loop has done for the call a
Loop(a) ==
  /\ a.id \notin DOMAIN settled
  /\ a.nbytes <= Capacity
  /\ \A v \in Gone, e \in DOMAIN entries : PriorityLeq(step, settled[v], settled[e])
  /\ Gone # {} => \E v \in Gone :
                    /\ \A w \in Gone : PriorityLeq(step, settled[w], settled[v])
                    /\ Bytes(settled, DOMAIN settled \ (Gone \ {v})) + a.nbytes > Capacity

Inv == Bookkeeping /\ Left /\ \A a \in call : Loop(a)

\* What the type of _entries gives the proofs below.
LEMMA EntryFacts ==
  ASSUME CapacityRespected
  PROVE  /\ DOMAIN entries \subseteq Chunk
         /\ entries = [c \in DOMAIN entries |-> entries[c]]
         /\ \A c \in DOMAIN entries :
              /\ entries[c] \in Entry
              /\ entries[c].nbytes \in Nat /\ entries[c].cost \in Nat
              /\ entries[c].reuse \in Nat /\ entries[c].last \in Nat
         /\ \A S \in SUBSET DOMAIN entries : Sized(entries, S)
         /\ used \in Nat
<1>1. DOMAIN entries \subseteq Chunk /\ entries \in [DOMAIN entries -> Entry]
  BY DEF CapacityRespected
<1>2. entries = [c \in DOMAIN entries |-> entries[c]]
  BY <1>1
<1>3. \A c \in DOMAIN entries :
        /\ entries[c] \in Entry
        /\ entries[c].nbytes \in Nat /\ entries[c].cost \in Nat
        /\ entries[c].reuse \in Nat /\ entries[c].last \in Nat
  <2>1. \A c \in DOMAIN entries : entries[c] \in Entry
    BY <1>1
  <2>2. \A e \in Entry : /\ e.nbytes \in Nat /\ e.cost \in Nat
                        /\ e.reuse \in Nat /\ e.last \in Nat
    <3>1. Sizes \subseteq Nat /\ Costs \subseteq Nat
      BY PolicyAssumption
    <3>2. 0 .. MaxReuse \subseteq Nat /\ 0 .. MaxStep \subseteq Nat
      OBVIOUS
    <3> QED BY <3>1, <3>2, Zenon DEF Entry
  <2> QED BY <2>1, <2>2
<1>4. \A T \in SUBSET DOMAIN entries : Sized(entries, T)
  BY <1>1, <1>3, PolicyAssumption, FS_Subset DEF Sized
<1>5. used \in Nat
  BY <1>4, CellsFinite DEF CapacityRespected
<1> QED BY <1>1, <1>2, <1>3, <1>4, <1>5

\* What the last call left has sizes that can be added up.
LEMMA SettledSized ==
  ASSUME Inv, NEW S \in SUBSET DOMAIN settled
  PROVE  Sized(settled, S)
<1>1. DOMAIN settled \subseteq Chunk /\ \A c \in DOMAIN settled : settled[c] \in Entry
  BY DEF Inv, Left
<1>2. \A c \in DOMAIN settled : settled[c].nbytes \in Nat
  BY <1>1, PolicyAssumption DEF Entry
<1> QED BY <1>1, <1>2, PolicyAssumption, FS_Subset DEF Sized

\* What an eviction does to _entries and _used_bytes.
LEMMA EvictStep ==
  ASSUME CapacityRespected, NEW v \in DOMAIN entries,
         entries' = [x \in DOMAIN entries \ {v} |-> entries[x]],
         used' = used - entries[v].nbytes
  PROVE  /\ DOMAIN entries' = DOMAIN entries \ {v}
         /\ \A x \in DOMAIN entries' : entries'[x] = entries[x]
         /\ CapacityRespected'
<1>1. /\ DOMAIN entries \subseteq Chunk
      /\ \A c \in DOMAIN entries : entries[c] \in Entry
      /\ Sized(entries, DOMAIN entries) /\ entries[v].nbytes \in Nat
      /\ used = Bytes(entries, DOMAIN entries) /\ used \in Nat /\ used <= Capacity
  BY EntryFacts DEF CapacityRespected
<1>2. /\ DOMAIN entries' = DOMAIN entries \ {v}
      /\ \A x \in DOMAIN entries' : entries'[x] = entries[x]
  OBVIOUS
<1>3. Bytes(entries', DOMAIN entries') = Bytes(entries, DOMAIN entries \ {v})
  <2>1. \A x \in DOMAIN entries \ {v} : entries'[x].nbytes = entries[x].nbytes
    BY <1>2
  <2> QED BY <1>2, <2>1, BytesSame
<1>4. Bytes(entries, DOMAIN entries \ {v}) = used - entries[v].nbytes
  <2>1. {v} \subseteq DOMAIN entries
    OBVIOUS
  <2>2. Bytes(entries, DOMAIN entries \ {v})
          = Bytes(entries, DOMAIN entries) - Bytes(entries, {v})
    BY <1>1, <2>1, BytesDiff
  <2>3. Bytes(entries, {v}) = entries[v].nbytes
    BY <1>1, BytesBase
  <2> QED BY <1>1, <2>2, <2>3
<1>5. used' <= Capacity
  BY <1>1, PolicyAssumption
<1>6. entries' \in [DOMAIN entries' -> Entry] /\ DOMAIN entries' \subseteq Chunk
  BY <1>1, <1>2
<1>7. used' = Bytes(entries', DOMAIN entries')
  BY <1>3, <1>4
<1> QED BY <1>2, <1>5, <1>6, <1>7 DEF CapacityRespected

\* What an insertion does to them.
LEMMA InsertStep ==
  ASSUME CapacityRespected, step \in 0 .. MaxStep, NEW a \in Call,
         a.id \notin DOMAIN entries, used + a.nbytes <= Capacity,
         entries' = [x \in DOMAIN entries \cup {a.id} |->
                       IF x = a.id THEN NewEntry(a.nbytes, a.cost, step) ELSE entries[x]],
         used' = used + a.nbytes
  PROVE  /\ DOMAIN entries' = DOMAIN entries \cup {a.id}
         /\ entries'[a.id] = NewEntry(a.nbytes, a.cost, step)
         /\ \A x \in DOMAIN entries : entries'[x] = entries[x]
         /\ CapacityRespected'
<1> DEFINE R == DOMAIN entries
           e == NewEntry(a.nbytes, a.cost, step)
<1>1. a.id \in Chunk /\ a.nbytes \in Sizes /\ a.cost \in Costs /\ a.nbytes \in Nat
  BY PolicyAssumption DEF Call
<1>2. e \in Entry /\ e.nbytes = a.nbytes
  BY <1>1, PolicyAssumption DEF Entry, NewEntry
<1>3. /\ R \subseteq Chunk /\ Sized(entries, R)
      /\ \A c \in R : entries[c] \in Entry
      /\ used = Bytes(entries, R)
  BY EntryFacts DEF CapacityRespected
<1> HIDE DEF e
<1>4. /\ DOMAIN entries' = R \cup {a.id} /\ entries'[a.id] = e
      /\ \A x \in R : entries'[x] = entries[x]
  BY DEF e
<1>5. /\ entries' = [x \in DOMAIN entries' |-> entries'[x]]
      /\ \A x \in DOMAIN entries' : entries'[x] \in Entry
  BY <1>2, <1>3, <1>4
<1>6. entries' \in [DOMAIN entries' -> Entry] /\ DOMAIN entries' \subseteq Chunk
  BY <1>1, <1>3, <1>4, <1>5
<1>7. Bytes(entries', R \cup {a.id}) = Bytes(entries, R) + a.nbytes
  <2>1. Bytes(entries', R) = Bytes(entries, R)
    BY <1>4, BytesSame
  <2>2. Bytes(entries', {a.id}) = a.nbytes
    BY <1>1, <1>2, <1>4, BytesBase
  <2>3. Sized(entries', R)
    BY <1>3, <1>4 DEF Sized
  <2>4. Sized(entries', {a.id})
    BY <1>1, <1>2, <1>4, FS_Singleton DEF Sized
  <2> QED BY <2>1, <2>2, <2>3, <2>4, BytesUnion
<1>8. used' = Bytes(entries', DOMAIN entries')
  BY <1>3, <1>4, <1>7
<1>9. CapacityRespected'
  BY <1>6, <1>8 DEF CapacityRespected
<1> QED BY <1>4, <1>9 DEF e

\* What a hit does to them: it changes no size.
LEMMA TouchStep ==
  ASSUME CapacityRespected, step \in 0 .. MaxStep, NEW c \in DOMAIN entries,
         entries[c].reuse < MaxReuse,
         entries' = [entries EXCEPT ![c] = Used(@, step)], used' = used
  PROVE  /\ DOMAIN entries' = DOMAIN entries
         /\ entries'[c].last = step
         /\ \A x \in DOMAIN entries : x # c => entries'[x] = entries[x]
         /\ CapacityRespected'
<1>3. /\ DOMAIN entries \subseteq Chunk
      /\ entries = [x \in DOMAIN entries |-> entries[x]]
      /\ \A x \in DOMAIN entries : entries[x] \in Entry
  BY EntryFacts
<1>4. /\ DOMAIN entries' = DOMAIN entries
      /\ \A x \in DOMAIN entries : x # c => entries'[x] = entries[x]
      /\ entries'[c] = Used(entries[c], step)
  BY <1>3
<1>5. /\ entries'[c] \in Entry /\ entries'[c].nbytes = entries[c].nbytes
      /\ entries'[c].last = step
  <2>1. ASSUME NEW e \in Entry, e.reuse < MaxReuse,
               NEW f, f = [e EXCEPT !.reuse = @ + 1, !.last = step]
        PROVE  f \in Entry /\ f.nbytes = e.nbytes /\ f.last = step
    <3>1. PICK n \in Sizes, k \in Costs, r \in 0 .. MaxReuse, l \in 0 .. MaxStep :
            e = [nbytes |-> n, cost |-> k, reuse |-> r, last |-> l]
      BY DEF Entry
    <3>2. r + 1 \in 0 .. MaxReuse
      BY <2>1, <3>1, PolicyAssumption
    <3>3. f = [nbytes |-> n, cost |-> k, reuse |-> r + 1, last |-> step]
      BY <2>1, <3>1
    <3> QED BY <3>1, <3>2, <3>3 DEF Entry
  <2>2. entries[c] \in Entry /\ entries[c].reuse < MaxReuse
    BY <1>3
  <2> QED BY <1>4, <2>1, <2>2 DEF Used
<1>6. entries' \in [DOMAIN entries -> Entry]
  BY <1>3, <1>4, <1>5
<1>7. Bytes(entries', DOMAIN entries) = Bytes(entries, DOMAIN entries)
  <2>1. \A x \in DOMAIN entries : entries'[x].nbytes = entries[x].nbytes
    <3>1. \A x \in DOMAIN entries : x # c => entries'[x] = entries[x]
      BY <1>4
    <3> QED BY <1>5, <3>1
  <2>2. \A g, h : (\A x \in DOMAIN entries : g[x].nbytes = h[x].nbytes)
                   => Bytes(g, DOMAIN entries) = Bytes(h, DOMAIN entries)
    BY BytesSame
  <2> QED BY <2>1, <2>2
<1>8. CapacityRespected'
  BY <1>3, <1>4, <1>6, <1>7 DEF CapacityRespected
<1> QED BY <1>4, <1>5, <1>8

-----------------------------------------------------------------------------
(* Every step keeps the invariant.                                         *)

LEMMA TouchInv ==
  ASSUME Inv, NEW c \in Chunk, Touch(c)
  PROVE  Inv'
<1>1. /\ call = {} /\ c \in DOMAIN entries /\ entries[c].reuse < MaxReuse
      /\ entries' = [entries EXCEPT ![c] = Used(@, step)]
      /\ used' = used /\ step' = step /\ call' = call /\ settled' = entries'
  BY DEF Touch
<1>2. CapacityRespected /\ step \in 0 .. MaxStep
  BY DEF Inv, Bookkeeping
<1>3. /\ DOMAIN entries' = DOMAIN entries
      /\ entries'[c].last = step
      /\ \A x \in DOMAIN entries : x # c => entries'[x] = entries[x]
      /\ CapacityRespected'
  BY <1>1, <1>2, TouchStep
<1>4. \A x \in DOMAIN entries' : entries'[x].last <= step
  <2>1. \A x \in DOMAIN entries : entries[x].last <= step
    BY DEF Inv, Bookkeeping
  <2> QED BY <1>2, <1>3, <2>1
<1>5. Bookkeeping'
  BY <1>1, <1>2, <1>3, <1>4 DEF Bookkeeping
<1>6. Left'
  BY <1>1, <1>3 DEF Left, CapacityRespected
<1> QED BY <1>1, <1>5, <1>6 DEF Inv

\* admit evicts a chunk of least priority: it comes after what is gone and
\* before what stays, and the loop's condition says that it is in the way.
LEMMA EvictInv ==
  ASSUME Inv, NEW a \in call, Evict(a)
  PROVE  Inv'
<1>1. /\ used + a.nbytes > Capacity
      /\ step' = step /\ call' = call /\ settled' = settled
  BY DEF Evict, Full
<1>2. PICK v \in DOMAIN entries :
        /\ \A e \in DOMAIN entries : PriorityLeq(step, entries[v], entries[e])
        /\ entries' = [x \in DOMAIN entries \ {v} |-> entries[x]]
        /\ used' = used - entries[v].nbytes
  BY DEF Evict
<1>3. /\ DOMAIN entries' = DOMAIN entries \ {v}
      /\ \A x \in DOMAIN entries' : entries'[x] = entries[x]
      /\ CapacityRespected'
  BY <1>2, EvictStep DEF Inv, Bookkeeping
<1>4. Bookkeeping'
  BY <1>1, <1>3 DEF Inv, Bookkeeping
<1>5. /\ DOMAIN entries \subseteq DOMAIN settled
      /\ \A c \in DOMAIN entries : entries[c] = settled[c]
  BY DEF Inv, Left
<1>6. Left'
  BY <1>1, <1>3 DEF Inv, Left
<1>7. Gone' = Gone \cup {v} /\ v \notin Gone
  BY <1>1, <1>3, <1>5 DEF Gone
<1>8. \A e \in DOMAIN entries : PriorityLeq(step, settled[v], settled[e])
  BY <1>2, <1>5
<1>9. ASSUME NEW b \in call PROVE Loop(b)'
  <2>1. /\ b.id \notin DOMAIN settled /\ b.nbytes <= Capacity
        /\ \A w \in Gone, e \in DOMAIN entries : PriorityLeq(step, settled[w], settled[e])
    BY DEF Inv, Loop
  <2>2. \A w \in Gone', e \in DOMAIN entries' : PriorityLeq(step, settled[w], settled[e])
    BY <1>3, <1>7, <1>8, <2>1
  <2>3. \A w \in Gone' : PriorityLeq(step, settled[w], settled[v])
    BY <1>7, <1>8, <2>1
  <2>4. Bytes(settled, DOMAIN settled \ (Gone' \ {v})) = used
    <3>1. DOMAIN settled \ (Gone' \ {v}) = DOMAIN entries
      BY <1>5, <1>7 DEF Gone
    <3>2. Bytes(settled, DOMAIN entries) = Bytes(entries, DOMAIN entries)
      BY <1>5, BytesSame
    <3> QED BY <3>1, <3>2 DEF Inv, Bookkeeping, CapacityRespected
  <2>5. b.nbytes = a.nbytes
    BY DEF Inv, Bookkeeping
  <2>6. v \in Gone' /\ Bytes(settled, DOMAIN settled \ (Gone' \ {v})) + b.nbytes > Capacity
    BY <1>1, <1>7, <2>4, <2>5
  <2> QED BY <1>1, <2>1, <2>2, <2>3, <2>6 DEF Loop
<1> QED BY <1>1, <1>4, <1>6, <1>9 DEF Inv

\* When the loop ends there is room: with nothing resident no byte is used.
LEMMA LoopMadeRoom ==
  ASSUME Inv, NEW a \in call, ~Full(a)
  PROVE  used + a.nbytes <= Capacity
<1>1. a.nbytes \in Nat /\ Capacity \in Nat /\ a.nbytes <= Capacity
  BY PolicyAssumption DEF Inv, Bookkeeping, Call, Loop
<1>2. used \in Nat /\ used = Bytes(entries, DOMAIN entries)
  BY EntryFacts DEF Inv, Bookkeeping, CapacityRespected
<1>3. DOMAIN entries = {} => used = 0
  BY <1>2, BytesBase
<1>4. used + a.nbytes > Capacity => DOMAIN entries = {}
  BY DEF Full
<1>5. CASE DOMAIN entries = {}
  BY <1>1, <1>3, <1>5
<1>6. CASE ~(used + a.nbytes > Capacity)
  BY <1>1, <1>2, <1>6
<1> QED BY <1>4, <1>5, <1>6

LEMMA ReturnInv ==
  ASSUME Inv, NEW a \in call, AdmitReturns(a)
  PROVE  Inv'
<1>1. used + a.nbytes <= Capacity
  BY LoopMadeRoom DEF AdmitReturns
<1>2. a \in Call /\ a.id \notin DOMAIN entries /\ step \in 0 .. MaxStep
      /\ CapacityRespected
  BY DEF Inv, Bookkeeping, Loop, Left
<1>3. a.nbytes \in Nat /\ used \in Nat /\ Capacity \in Nat
  BY <1>2, EntryFacts, PolicyAssumption DEF Call
<1>4. /\ entries' = [x \in DOMAIN entries \cup {a.id} |->
                       IF x = a.id THEN NewEntry(a.nbytes, a.cost, step) ELSE entries[x]]
      /\ used' = used + a.nbytes
  BY <1>1, <1>3 DEF AdmitReturns
<1>5. call' = {} /\ settled' = entries' /\ step' = step
  BY DEF AdmitReturns
<1>6. /\ DOMAIN entries' = DOMAIN entries \cup {a.id}
      /\ entries'[a.id] = NewEntry(a.nbytes, a.cost, step)
      /\ \A x \in DOMAIN entries : entries'[x] = entries[x]
      /\ CapacityRespected'
  BY <1>1, <1>2, <1>4, InsertStep
<1>7. \A x \in DOMAIN entries' : entries'[x].last <= step
  <2>1. entries'[a.id].last = step
    BY <1>6 DEF NewEntry
  <2>2. \A x \in DOMAIN entries : entries[x].last <= step
    BY DEF Inv, Bookkeeping
  <2> QED BY <1>2, <1>6, <2>1, <2>2
<1>8. Bookkeeping'
  BY <1>2, <1>5, <1>6, <1>7 DEF Bookkeeping
<1>9. Left'
  BY <1>5, <1>6 DEF Left, CapacityRespected
<1> QED BY <1>5, <1>8, <1>9 DEF Inv

\* The call of a new chunk: nothing is gone yet.
LEMMA CallInv ==
  ASSUME Inv, NEW a \in Call, AdmitCalled(a)
  PROVE  Inv'
<1>1. /\ call = {} /\ a.id \notin DOMAIN entries /\ a.nbytes <= Capacity /\ call' = {a}
      /\ entries' = entries /\ used' = used /\ step' = step /\ settled' = settled
  BY DEF AdmitCalled
<1>2. settled = entries
  BY <1>1 DEF Inv, Left
<1>3. Bookkeeping'
  BY <1>1 DEF Inv, Bookkeeping, CapacityRespected
<1>4. Left'
  BY <1>1, <1>2 DEF Inv, Left
<1>5. Gone' = {}
  BY <1>1, <1>2 DEF Gone
<1>6. Loop(a)'
  BY <1>1, <1>2, <1>5 DEF Loop
<1> QED BY <1>1, <1>3, <1>4, <1>6 DEF Inv

LEMMA TickInv ==
  ASSUME Inv, Tick
  PROVE  Inv'
<1>1. /\ call = {} /\ step < MaxStep /\ step' = step + 1
      /\ entries' = entries /\ used' = used /\ call' = call /\ settled' = settled
  BY DEF Tick
<1>2. \A c \in DOMAIN entries : entries[c].last \in Nat
  BY EntryFacts DEF Inv, Bookkeeping
<1>3. Bookkeeping'
  BY <1>1, <1>2, PolicyAssumption DEF Inv, Bookkeeping, CapacityRespected
<1>4. Left'
  BY <1>1 DEF Inv, Left
<1> QED BY <1>1, <1>3, <1>4 DEF Inv

LEMMA NextInv == Inv /\ [Next]_vars => Inv'
<1> SUFFICES ASSUME Inv, [Next]_vars PROVE Inv'
  OBVIOUS
<1>1. ASSUME UNCHANGED vars PROVE Inv'
  BY <1>1 DEF vars, Inv, Bookkeeping, Left, Loop, Gone, CapacityRespected
<1> QED BY <1>1, TickInv, TouchInv, CallInv, EvictInv, ReturnInv DEF Next

\* The policy starts with nothing resident.
LEMMA InitInv == Init => Inv
<1> SUFFICES ASSUME Init PROVE Inv
  OBVIOUS
<1>1. DOMAIN entries = {} /\ entries \in [{} -> Entry] /\ settled = entries /\ call = {}
  BY DEF Init
<1>2. used = Bytes(entries, DOMAIN entries)
  BY <1>1, BytesBase DEF Init
<1>3. CapacityRespected
  BY <1>1, <1>2, PolicyAssumption DEF Init, CapacityRespected
<1>4. Left
  BY <1>1 DEF Left
<1> QED BY <1>1, <1>3, <1>4, PolicyAssumption DEF Init, Inv, Bookkeeping

\* For every set of chunks, sizes and costs and every capacity: _used_bytes is
\* what the resident chunks take, and never more than capacity_bytes, also
\* between two evictions of one admit.
THEOREM PolicyWithinCapacity == Spec => []CapacityRespected
<1>1. Inv => CapacityRespected
  BY DEF Inv, Bookkeeping
<1> QED BY <1>1, InitInv, NextInv, PTL DEF Spec

-----------------------------------------------------------------------------
(* The order of the victims.                                               *)

\* Products of naturals grow with their factors.
LEMMA ProductMonotone ==
  ASSUME NEW a \in Nat, NEW b \in Nat, NEW c \in Nat, NEW d \in Nat,
         a <= b, c <= d
  PROVE  a * c <= b * d
<1>1. PICK i \in Nat : b = a + i
  <2>1. b - a \in Nat /\ b = a + (b - a)
    OBVIOUS
  <2> QED BY <2>1
<1>2. PICK j \in Nat : d = c + j
  <2>1. d - c \in Nat /\ d = c + (d - c)
    OBVIOUS
  <2> QED BY <2>1
<1>3. b * d = a * c + a * j + i * c + i * j
  BY <1>1, <1>2
<1>4. a * c \in Nat /\ a * j \in Nat /\ i * c \in Nat /\ i * j \in Nat
  OBVIOUS
<1> QED BY <1>3, <1>4

\* They grow strictly when one factor does and the other is positive.
LEMMA ProductStrict ==
  ASSUME NEW a \in Nat, NEW b \in Nat, NEW c \in Nat, NEW d \in Nat,
         a < b, c <= d, d > 0
  PROVE  a * c < b * d
<1>1. a * c <= a * d
  BY ProductMonotone
<1>2. (a + 1) * d <= b * d
  <2>1. a + 1 \in Nat /\ a + 1 <= b
    OBVIOUS
  <2> QED BY <2>1, ProductMonotone
<1>3. (a + 1) * d = a * d + d
  OBVIOUS
<1>4. a * c \in Nat /\ a * d \in Nat /\ b * d \in Nat
  OBVIOUS
<1> QED BY <1>1, <1>2, <1>3, <1>4

\* One entry dominates another: reused at least as often, at least as costly,
\* used at least as recently, and more in one of these.
Dominates(e, f) == /\ e.reuse >= f.reuse
                   /\ e.cost >= f.cost
                   /\ e.last >= f.last
                   /\ e.cost > 0
                   /\ \/ e.reuse > f.reuse
                      \/ e.cost > f.cost
                      \/ e.last > f.last

\* The priority of admit respects domination.
LEMMA DominatesPriority ==
  ASSUME NEW e, NEW f, NEW now \in Nat,
         e.reuse \in Nat, e.cost \in Nat, e.last \in Nat, e.last <= now,
         f.reuse \in Nat, f.cost \in Nat, f.last \in Nat, f.last <= now,
         Dominates(e, f)
  PROVE  ~PriorityLeq(now, e, f)
<1> DEFINE P == (e.reuse + 1) * e.cost
           Q == (f.reuse + 1) * f.cost
           a == now - e.last + 1
           b == now - f.last + 1
           X == (a + 1) * b
           Y == (b + 1) * a
<1>1. a \in Nat /\ b \in Nat /\ a > 0 /\ b > 0 /\ a <= b /\ (e.last > f.last => a < b)
  BY DEF Dominates
<1>2. X = a * b + b /\ Y = a * b + a /\ a * b \in Nat
  <2> HIDE DEF a, b
  <2> QED BY <1>1
<1>3. X \in Nat /\ Y \in Nat /\ X > 0 /\ Y > 0 /\ Y <= X /\ (e.last > f.last => Y < X)
  <2> HIDE DEF a, b, X, Y
  <2> QED BY <1>1, <1>2
<1>4. P \in Nat /\ Q \in Nat /\ Q <= P /\ P > 0
  <2>1. e.reuse + 1 \in Nat /\ f.reuse + 1 \in Nat /\ f.reuse + 1 <= e.reuse + 1
        /\ f.cost <= e.cost
    BY DEF Dominates
  <2>2. Q <= P
    BY <2>1, ProductMonotone
  <2>3. 0 * 0 < P
    <3>1. 0 < e.reuse + 1 /\ 0 <= e.cost /\ e.cost > 0
      BY DEF Dominates
    <3> QED BY <2>1, <3>1, ProductStrict
  <2>4. P \in Nat /\ Q \in Nat
    BY <2>1
  <2> HIDE DEF P, Q
  <2> QED BY <2>2, <2>3, <2>4
<1>5. e.reuse > f.reuse \/ e.cost > f.cost => Q < P
  <2>1. ASSUME e.reuse > f.reuse PROVE Q < P
    <3>1. e.reuse + 1 \in Nat /\ f.reuse + 1 \in Nat /\ f.reuse + 1 < e.reuse + 1
          /\ f.cost <= e.cost /\ e.cost > 0
      BY <2>1 DEF Dominates
    <3> QED BY <3>1, ProductStrict
  <2>2. ASSUME e.cost > f.cost PROVE Q < P
    <3>1. e.reuse + 1 \in Nat /\ f.reuse + 1 \in Nat /\ f.reuse + 1 <= e.reuse + 1
          /\ e.reuse + 1 > 0 /\ f.cost < e.cost
      BY <2>2 DEF Dominates
    <3>2. f.cost * (f.reuse + 1) < e.cost * (e.reuse + 1)
      BY <3>1, ProductStrict
    <3> QED BY <3>2
  <2> QED BY <2>1, <2>2
<1>6. Q * Y < P * X
  <2> HIDE DEF P, Q, X, Y
  <2>1. CASE Q < P
    BY <1>3, <1>4, <2>1, ProductStrict
  <2>2. CASE Y < X
    <3>1. Y * Q < X * P
      BY <1>3, <1>4, <2>2, ProductStrict
    <3> QED BY <1>3, <1>4, <3>1
  <2> QED BY <1>3, <1>5, <2>1, <2>2 DEF Dominates
<1>7. /\ P * (now - e.last + 2) * (now - f.last + 1) = P * X
      /\ Q * (now - f.last + 2) * (now - e.last + 1) = Q * Y
  <2>1. now - e.last + 2 = a + 1 /\ now - f.last + 2 = b + 1
    OBVIOUS
  <2>2. P * (a + 1) * b = P * X /\ Q * (b + 1) * a = Q * Y
    <3> HIDE DEF P, Q, a, b
    <3> QED BY <1>1, <1>4
  <2> QED BY <2>1, <2>2
<1>8. P * X \in Nat /\ Q * Y \in Nat
  <2> HIDE DEF P, Q, X, Y
  <2> QED BY <1>3, <1>4
<1> HIDE DEF X, Y
<1> QED BY <1>6, <1>7, <1>8 DEF PriorityLeq

\* Only the loop of admit evicts, a chunk of least priority.
LEMMA EvictedIsLeast ==
  ASSUME Inv, [Next]_vars, NEW v \in Evicted, NEW e \in DOMAIN entries
  PROVE  v \in DOMAIN entries /\ PriorityLeq(step, entries[v], entries[e])
<1>1. ~Tick /\ ~UNCHANGED vars /\ \A a \in Call : ~AdmitCalled(a)
  BY DEF Tick, vars, AdmitCalled, Evicted
<1>2. ASSUME NEW c \in Chunk, Touch(c) PROVE FALSE
  <2>1. DOMAIN entries' = DOMAIN entries
    BY <1>2 DEF Touch
  <2> QED BY <2>1 DEF Evicted
<1>3. ASSUME NEW a \in call, AdmitReturns(a) PROVE FALSE
  <2>1. DOMAIN entries \subseteq DOMAIN entries'
    BY <1>3 DEF AdmitReturns
  <2> QED BY <2>1 DEF Evicted
<1>4. PICK a \in call : Evict(a)
  BY <1>1, <1>2, <1>3 DEF Next
<1>5. PICK w \in DOMAIN entries :
        /\ \A x \in DOMAIN entries : PriorityLeq(step, entries[w], entries[x])
        /\ entries' = [x \in DOMAIN entries \ {w} |-> entries[x]]
  BY <1>4 DEF Evict
<1>6. v = w
  BY <1>5 DEF Evicted
<1> QED BY <1>5, <1>6

\* For every instance: admit never evicts a chunk while one that it dominates
\* stays resident.
THEOREM EvictionRespectsDomination == Spec => DominatedGoFirst
<1>1. ASSUME Inv, [Next]_vars
      PROVE  \A v \in Evicted, e \in DOMAIN entries \cap DOMAIN entries' :
               ~Dominates(entries[v], entries[e])
  <2> SUFFICES ASSUME NEW v \in Evicted, NEW e \in DOMAIN entries \cap DOMAIN entries'
               PROVE  ~Dominates(entries[v], entries[e])
    OBVIOUS
  <2>1. v \in DOMAIN entries /\ PriorityLeq(step, entries[v], entries[e])
    BY <1>1, EvictedIsLeast
  <2>2. \A x \in DOMAIN entries :
          /\ entries[x].reuse \in Nat /\ entries[x].cost \in Nat
          /\ entries[x].last \in Nat /\ entries[x].last <= step
    BY <1>1, EntryFacts DEF Inv, Bookkeeping
  <2>3. step \in Nat
    BY <1>1 DEF Inv, Bookkeeping
  <2> QED BY <2>1, <2>2, <2>3, DominatesPriority
<1>2. Inv /\ [Next]_vars =>
        [\A v \in Evicted, e \in DOMAIN entries \cap DOMAIN entries' :
           ~ /\ entries[v].reuse >= entries[e].reuse
             /\ entries[v].cost >= entries[e].cost
             /\ entries[v].last >= entries[e].last
             /\ entries[v].cost > 0
             /\ \/ entries[v].reuse > entries[e].reuse
                \/ entries[v].cost > entries[e].cost
                \/ entries[v].last > entries[e].last]_vars
  BY <1>1 DEF Dominates
<1> QED BY <1>2, InitInv, NextInv, PTL DEF Spec, DominatedGoFirst

-----------------------------------------------------------------------------
(* The refinement: an admit happens when it returns, its loop is hidden.   *)

\* The operators of the abstract specification are those of the detailed one.
LEMMA SameOperators ==
  /\ \A g, S : Promise!Bytes(g, S) = Bytes(g, S)
  /\ \A e, f : Promise!PriorityLeq(step, e, f) = PriorityLeq(step, e, f)
  /\ \A n, cost : Promise!NewEntry(n, cost, step) = NewEntry(n, cost, step)
  /\ \A e : Promise!Used(e, step) = Used(e, step)
<1>1. \A g, S : Promise!Bytes(g, S) = Bytes(g, S)
  BY Zenon DEF Promise!Bytes, Bytes, Promise!Cells, Cells, Promise!Cardinality, Cardinality
<1>2. \A e, f : Promise!PriorityLeq(step, e, f) = PriorityLeq(step, e, f)
  BY DEF Promise!PriorityLeq, PriorityLeq
<1>3. \A n, cost : Promise!NewEntry(n, cost, step) = NewEntry(n, cost, step)
  BY DEF Promise!NewEntry, NewEntry
<1>4. \A e : Promise!Used(e, step) = Used(e, step)
  BY DEF Promise!Used, Used
<1> QED BY <1>1, <1>2, <1>3, <1>4

\* What the loop has evicted when it ends is what the promise allows.
LEMMA GoneAreVictims ==
  ASSUME Inv, NEW a \in call, ~Full(a)
  PROVE  Gone \in Promise!Victims(a.nbytes)
<1>1. /\ DOMAIN entries \subseteq DOMAIN settled
      /\ \A c \in DOMAIN entries : entries[c] = settled[c]
  BY DEF Inv, Left
<1>2. DOMAIN settled \ Gone = DOMAIN entries
  BY <1>1 DEF Gone
<1>3. Bytes(settled, DOMAIN settled \ Gone) = used
  <2>1. Bytes(settled, DOMAIN entries) = Bytes(entries, DOMAIN entries)
    BY <1>1, BytesSame
  <2> QED BY <1>2, <2>1 DEF Inv, Bookkeeping, CapacityRespected
<1>4. Promise!Room(Gone, a.nbytes)
  BY <1>3, LoopMadeRoom, SameOperators DEF Promise!Room
<1>5. \A v \in Gone, e \in DOMAIN settled \ Gone :
        Promise!PriorityLeq(step, settled[v], settled[e])
  BY <1>2, SameOperators DEF Inv, Loop
<1>6. ASSUME Gone # {}
      PROVE  \E v \in Gone : /\ \A w \in Gone : Promise!PriorityLeq(step, settled[w], settled[v])
                             /\ ~Promise!Room(Gone \ {v}, a.nbytes)
  <2>1. PICK v \in Gone :
          /\ \A w \in Gone : PriorityLeq(step, settled[w], settled[v])
          /\ Bytes(settled, DOMAIN settled \ (Gone \ {v})) + a.nbytes > Capacity
    BY <1>6 DEF Inv, Loop
  <2>2. ~Promise!Room(Gone \ {v}, a.nbytes)
    <3>1. DOMAIN settled \ (Gone \ {v}) = DOMAIN entries \cup {v}
      BY <1>1 DEF Gone
    <3>2. Sized(settled, DOMAIN settled \ (Gone \ {v}))
      BY SettledSized, <3>1 DEF Gone
    <3>3. Bytes(settled, DOMAIN settled \ (Gone \ {v})) \in Nat
      BY <3>2, CellsFinite
    <3>4. a.nbytes \in Nat /\ Capacity \in Nat
      BY PolicyAssumption DEF Inv, Bookkeeping, Call
    <3> QED BY <2>1, <3>3, <3>4, SameOperators DEF Promise!Room
  <2> QED BY <2>1, <2>2, SameOperators
<1>7. Gone \subseteq DOMAIN settled
  BY DEF Gone
<1> QED BY <1>4, <1>5, <1>6, <1>7 DEF Promise!Victims

\* Every step is a step of the promise or leaves what it is about alone.
LEMMA StepKeepsPromise ==
  ASSUME Inv, [Next]_vars
  PROVE  [Promise!Next]_(Promise!vars)
<1>1. ASSUME Tick PROVE Promise!Tick
  BY <1>1 DEF Tick, Promise!Tick
<1>2. ASSUME NEW c \in Chunk, Touch(c) PROVE Promise!Touch(c)
  <2>1. settled = entries
    BY <1>2 DEF Touch, Inv, Left
  <2> QED BY <1>2, <2>1 DEF Touch, Promise!Touch, Used, Promise!Used
<1>3. ASSUME NEW a \in Call, AdmitCalled(a) PROVE UNCHANGED Promise!vars
  BY <1>3 DEF AdmitCalled, Promise!vars
<1>4. ASSUME NEW a \in call, Evict(a) PROVE UNCHANGED Promise!vars
  BY <1>4 DEF Evict, Promise!vars
<1>5. ASSUME NEW a \in call, AdmitReturns(a)
      PROVE  Promise!Admit(a.id, a.nbytes, a.cost)
  <2>1. ~Full(a) /\ settled' = entries' /\ step' = step
    BY <1>5 DEF AdmitReturns
  <2>2. a.id \notin DOMAIN settled /\ a.nbytes <= Capacity
    BY DEF Inv, Loop
  <2>3. used + a.nbytes <= Capacity
    BY <2>1, LoopMadeRoom
  <2>4. used \in Nat /\ a.nbytes \in Nat /\ Capacity \in Nat
    BY EntryFacts, PolicyAssumption DEF Inv, Bookkeeping, Call
  <2>5. entries' = [x \in DOMAIN entries \cup {a.id} |->
                      IF x = a.id THEN NewEntry(a.nbytes, a.cost, step) ELSE entries[x]]
    BY <1>5, <2>3, <2>4 DEF AdmitReturns
  <2>6. /\ DOMAIN settled \ Gone = DOMAIN entries
        /\ \A x \in DOMAIN entries : entries[x] = settled[x]
    BY DEF Inv, Left, Gone
  <2>7. entries' = [x \in (DOMAIN settled \ Gone) \cup {a.id} |->
                      IF x = a.id THEN Promise!NewEntry(a.nbytes, a.cost, step)
                      ELSE settled[x]]
    <3>1. \A x \in DOMAIN entries \cup {a.id} :
            (IF x = a.id THEN NewEntry(a.nbytes, a.cost, step) ELSE entries[x])
              = (IF x = a.id THEN Promise!NewEntry(a.nbytes, a.cost, step) ELSE settled[x])
      BY <2>6, SameOperators
    <3> QED BY <2>5, <2>6, <3>1
  <2>8. Gone \in Promise!Victims(a.nbytes)
    BY <2>1, GoneAreVictims
  <2> QED BY <2>1, <2>2, <2>7, <2>8 DEF Promise!Admit
<1>6. \A a \in call : a.id \in Chunk /\ a.nbytes \in Sizes /\ a.cost \in Costs
  BY DEF Inv, Bookkeeping, Call
<1>7. ASSUME UNCHANGED vars PROVE UNCHANGED Promise!vars
  BY <1>7 DEF vars, Promise!vars
<1> QED BY <1>1, <1>2, <1>3, <1>4, <1>5, <1>6, <1>7 DEF Next, Promise!Next

\* For every instance: an admit whose chunk can fit at all, with its loop and
\* its byte counter hidden, makes the chunk resident in one step, evicts only
\* chunks of least priority, and not one more than it has to.
THEOREM AdmitKeepsPromise == Spec => ImplementsAdmission
<1>1. Init => Promise!Init
  BY DEF Init, Promise!Init
<1> QED BY <1>1, InitInv, NextInv, StepKeepsPromise, PTL
        DEF Spec, ImplementsAdmission, Promise!Spec
=============================================================================
