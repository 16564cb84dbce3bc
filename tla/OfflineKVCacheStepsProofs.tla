---------------------- MODULE OfflineKVCacheStepsProofs ----------------------
(***************************************************************************)
(* For every set of segments, every set of sizes and every pair of         *)
(* ceilings: the loops of _enforce_limits, which call to_device and so     *)
(* themselves while they iterate over keys listed before, never look up a  *)
(* key that is gone, and do what the atomic operations of OfflineKVCache   *)
(* do.                                                                     *)
(***************************************************************************)
EXTENDS OfflineKVCacheSteps, ByteCountsProofs

USE SMTT(30)

-----------------------------------------------------------------------------
(* The keys of an OrderedDict                                              *)

\* a list of keys, none of them twice
IsList(q) == q \in Seq(Seg) /\ \A i, j \in DOMAIN q : q[i] = q[j] => i = j

\* What After, Keys and Len say of a list
LEMMA ListFacts ==
  ASSUME NEW q, IsList(q)
  PROVE  /\ Len(q) \in Nat /\ DOMAIN q = 1 .. Len(q) /\ Keys(q) \subseteq Seg
         /\ \A i \in 1 .. Len(q) : q[i] \in Keys(q) /\ q[i] \in Seg
         /\ \A s \in Keys(q) : \E i \in 1 .. Len(q) : q[i] = s
         /\ \A i, j \in 1 .. Len(q) : <<q[i], q[j]>> \in After(q) <=> i < j
         /\ After(q) \subseteq Keys(q) \X Keys(q)
<1>1. /\ q \in Seq(Seg) /\ Len(q) \in Nat /\ DOMAIN q = 1 .. Len(q)
      /\ \A i, j \in 1 .. Len(q) : q[i] = q[j] => i = j
  BY DEF IsList
<1>2. \A i \in 1 .. Len(q) : q[i] \in Keys(q) /\ q[i] \in Seg
  BY <1>1 DEF Keys
<1>3. After(q) \subseteq Keys(q) \X Keys(q)
  BY Zenon DEF After
<1>4. ASSUME NEW i \in 1 .. Len(q), NEW j \in 1 .. Len(q)
      PROVE  <<q[i], q[j]>> \in After(q) <=> i < j
  BY <1>1, <1>2, Zenon DEF After
<1> QED BY <1>1, <1>2, <1>3, <1>4, Zenon DEF Keys

\* The order of a list is a strict total order of its keys, and the first key has
\* none before it.
LEMMA AfterOrder ==
  ASSUME NEW q, IsList(q)
  PROVE  /\ Cache!StrictTotalOrder(After(q), Keys(q))
         /\ Len(q) > 0 => Cache!Before(After(q), Keys(q), q[1]) = {}
<1>1. ASSUME NEW a \in Keys(q) PROVE <<a, a>> \notin After(q)
  <2>1. PICK i \in 1 .. Len(q) : q[i] = a
    BY ListFacts, Zenon
  <2> QED BY <2>1, ListFacts
<1>2. ASSUME NEW a \in Keys(q), NEW b \in Keys(q), a # b
      PROVE  <<a, b>> \in After(q) \/ <<b, a>> \in After(q)
  <2>1. PICK i \in 1 .. Len(q), j \in 1 .. Len(q) : q[i] = a /\ q[j] = b
    BY ListFacts, Zenon
  <2> QED BY <2>1, <1>2, ListFacts
<1>3. ASSUME NEW a \in Keys(q), NEW b \in Keys(q), NEW c \in Keys(q),
             <<a, b>> \in After(q), <<b, c>> \in After(q)
      PROVE  <<a, c>> \in After(q)
  <2>1. PICK i \in 1 .. Len(q), j \in 1 .. Len(q), k \in 1 .. Len(q) :
          q[i] = a /\ q[j] = b /\ q[k] = c
    BY ListFacts, Zenon
  <2> QED BY <2>1, <1>3, ListFacts
<1>4. ASSUME Len(q) > 0, NEW t \in Cache!Before(After(q), Keys(q), q[1]) PROVE FALSE
  <2>1. t \in Keys(q) /\ <<t, q[1]>> \in After(q)
    BY <1>4, Zenon DEF Cache!Before
  <2>2. PICK i \in 1 .. Len(q) : q[i] = t
    BY <2>1, ListFacts, Zenon
  <2> QED BY <2>1, <2>2, <1>4, ListFacts
<1> QED BY ListFacts, <1>1, <1>2, <1>3, <1>4, Zenon DEF Cache!StrictTotalOrder

\* the order of a list is given by its pairs
LEMMA SameOrder ==
  ASSUME NEW q, IsList(q), NEW o, o \subseteq Keys(q) \X Keys(q),
         \A i, j \in 1 .. Len(q) : <<q[i], q[j]>> \in o <=> i < j
  PROVE  After(q) = o
<1>1. ASSUME NEW a \in Keys(q), NEW b \in Keys(q) PROVE <<a, b>> \in After(q) <=> <<a, b>> \in o
  <2>1. PICK i \in 1 .. Len(q), j \in 1 .. Len(q) : q[i] = a /\ q[j] = b
    BY ListFacts, Zenon
  <2> QED BY <2>1, ListFacts, Zenon
<1>2. \A p \in Keys(q) \X Keys(q) : p \in After(q) <=> p \in o
  <2> TAKE p \in Keys(q) \X Keys(q)
  <2>1. PICK a \in Keys(q), b \in Keys(q) : p = <<a, b>>
    OBVIOUS
  <2> QED BY <1>1, <2>1, Zenon
<1> QED BY ListFacts, <1>2, Zenon

\* popping a key
LEMMA WithoutIs ==
  ASSUME NEW q, IsList(q), NEW s \in Keys(q)
  PROVE  LET w == Without(q, s) IN
         /\ IsList(w) /\ Len(w) = Len(q) - 1 /\ Keys(w) = Keys(q) \ {s}
         /\ After(w) = {p \in After(q) : p[1] # s /\ p[2] # s}
         /\ \A i \in 1 .. Len(w) : \E k \in 1 .. Len(q) : w[i] = q[k]
         /\ s = q[1] => \A i \in 1 .. Len(w) : w[i] = q[i + 1]
<1> DEFINE w == Without(q, s)
           n == Len(q)
<1>1. PICK k \in 1 .. n : q[k] = s /\ w = [i \in 1 .. n - 1 |-> IF i < k THEN q[i] ELSE q[i + 1]]
  <2>1. PICK k : k = CHOOSE i \in DOMAIN q : q[i] = s
    OBVIOUS
  <2>2. k \in 1 .. n /\ q[k] = s
    BY ListFacts, <2>1, Zenon
  <2> QED BY <2>1, <2>2, Zenon DEF Without
<1>2. n \in Nat /\ DOMAIN q = 1 .. n /\ n > 0 /\ \A i, j \in 1 .. n : q[i] = q[j] => i = j
  BY <1>1, ListFacts DEF IsList
<1> HIDE DEF w, n
<1> DEFINE old(i) == IF i < k THEN i ELSE i + 1
<1>3. ASSUME NEW i \in 1 .. n - 1
      PROVE  old(i) \in 1 .. n /\ old(i) # k /\ w[i] = q[old(i)] /\ w[i] \in Seg
  BY <1>1, <1>2, ListFacts DEF n
<1>4. w \in Seq(Seg) /\ Len(w) = n - 1 /\ DOMAIN w = 1 .. n - 1
  BY <1>2, <1>1, <1>3
<1>5. \A i, j \in 1 .. n - 1 : i < j <=> old(i) < old(j)
  BY <1>1, <1>2
<1>6. ASSUME NEW m \in 1 .. n, m # k PROVE \E i \in 1 .. n - 1 : old(i) = m
  <2>1. CASE m < k
    BY <1>1, <1>2, <2>1
  <2>2. CASE m > k
    <3>1. m - 1 \in 1 .. n - 1 /\ old(m - 1) = m
      BY <1>1, <1>2, <2>2
    <3> QED BY <3>1, Zenon
  <2> QED BY <1>1, <1>2, <1>6, <2>1, <2>2
<1> HIDE DEF old
<1>7. IsList(w)
  BY <1>2, <1>3, <1>4, <1>1 DEF IsList
<1>8. Keys(w) = Keys(q) \ {s}
  <2>1. ASSUME NEW t \in Keys(w) PROVE t \in Keys(q) \ {s}
    <3>1. PICK i \in 1 .. n - 1 : w[i] = t
      BY <1>4, Zenon DEF Keys
    <3> QED BY <1>1, <1>2, <1>3, <3>1, ListFacts DEF n
  <2>2. ASSUME NEW t \in Keys(q) \ {s} PROVE t \in Keys(w)
    <3>1. PICK m \in 1 .. n : q[m] = t
      BY ListFacts, Zenon DEF n
    <3>2. PICK i \in 1 .. n - 1 : old(i) = m
      BY <1>1, <1>6, <3>1, Zenon
    <3> QED BY <1>3, <1>4, <3>1, <3>2, Zenon DEF Keys
  <2> QED BY <2>1, <2>2, Zenon
<1>9. After(w) = {p \in After(q) : p[1] # s /\ p[2] # s}
  <2> DEFINE o == {p \in After(q) : p[1] # s /\ p[2] # s}
  <2>1. o \subseteq Keys(w) \X Keys(w)
    BY <1>8, ListFacts
  <2>2. ASSUME NEW i \in 1 .. n - 1, NEW j \in 1 .. n - 1 PROVE <<w[i], w[j]>> \in o <=> i < j
    <3>1. <<w[i], w[j]>> \in After(q) <=> old(i) < old(j)
      BY <1>3, ListFacts, Zenon DEF n
    <3> QED BY <1>5, <1>1, <1>2, <1>3, <3>1
  <2> HIDE DEF o
  <2> QED BY <1>4, <1>7, <2>1, <2>2, SameOrder, Zenon DEF o
<1>10. s = q[1] => \A i \in 1 .. n - 1 : w[i] = q[i + 1]
  BY <1>1, <1>2
<1> QED BY <1>3, <1>4, <1>7, <1>8, <1>9, <1>10, Zenon DEF w, n

\* a new key at the end
LEMMA AppendIs ==
  ASSUME NEW q, IsList(q), NEW s \in Seg, s \notin Keys(q)
  PROVE  LET a == Append(q, s) IN
         /\ IsList(a) /\ Keys(a) = Keys(q) \cup {s}
         /\ After(a) = After(q) \cup (Keys(q) \X {s})
<1> DEFINE a == Append(q, s)
           n == Len(q)
<1>1. n \in Nat /\ q \in Seq(Seg) /\ DOMAIN q = 1 .. n
      /\ \A i, j \in 1 .. n : q[i] = q[j] => i = j
  BY DEF IsList
<1>2. /\ a \in Seq(Seg) /\ Len(a) = n + 1 /\ DOMAIN a = 1 .. n + 1
      /\ a[n + 1] = s /\ \A i \in 1 .. n : a[i] = q[i]
  BY <1>1
<1> HIDE DEF a, n
<1>3. \A i \in 1 .. n : q[i] \in Keys(q) /\ q[i] # s
  BY ListFacts, Zenon DEF n
<1>4. IsList(a)
  <2>1. ASSUME NEW i \in 1 .. n + 1, NEW j \in 1 .. n + 1, a[i] = a[j] PROVE i = j
    <3>1. CASE i \in 1 .. n /\ j \in 1 .. n
      BY <1>1, <1>2, <2>1, <3>1, Zenon
    <3>2. CASE i = n + 1 /\ j \in 1 .. n
      BY <1>2, <1>3, <2>1, <3>2, Zenon
    <3>3. CASE i \in 1 .. n /\ j = n + 1
      BY <1>2, <1>3, <2>1, <3>3, Zenon
    <3> QED BY <1>1, <3>1, <3>2, <3>3
  <2> QED BY <1>2, <2>1, Zenon DEF IsList
<1>5. Keys(a) = Keys(q) \cup {s}
  <2>1. ASSUME NEW t \in Keys(a) PROVE t \in Keys(q) \cup {s}
    <3>1. PICK i \in 1 .. n + 1 : a[i] = t
      BY <1>2, Zenon DEF Keys
    <3> QED BY <1>2, <1>3, <3>1, <1>1
  <2>2. ASSUME NEW t \in Keys(q) PROVE t \in Keys(a)
    <3>1. PICK i \in 1 .. n : q[i] = t
      BY <1>1, Zenon DEF Keys
    <3> QED BY <1>2, <1>1, <3>1 DEF Keys
  <2>3. s \in Keys(a)
    BY <1>2, <1>1 DEF Keys
  <2> QED BY <2>1, <2>2, <2>3, Zenon
<1>6. After(a) = After(q) \cup (Keys(q) \X {s})
  <2> DEFINE o == After(q) \cup (Keys(q) \X {s})
  <2>1. o \subseteq Keys(a) \X Keys(a)
    BY <1>5, ListFacts
  <2>2. ASSUME NEW i \in 1 .. n + 1, NEW j \in 1 .. n + 1
        PROVE  <<a[i], a[j]>> \in o <=> i < j
    <3>1. CASE i \in 1 .. n /\ j \in 1 .. n
      BY <1>2, <1>3, <3>1, ListFacts, Zenon DEF n
    <3>2. CASE i = n + 1
      BY ListFacts, <1>1, <1>2, <3>2
    <3>3. CASE i \in 1 .. n /\ j = n + 1
      BY <1>1, <1>2, <1>3, <3>3
    <3> QED BY <1>1, <3>1, <3>2, <3>3
  <2> HIDE DEF o
  <2>3. After(a) = o
    BY <1>2, <1>4, <2>1, <2>2, SameOrder, Zenon
  <2> QED BY <2>3, Zenon DEF o
<1> QED BY <1>4, <1>5, <1>6, Zenon DEF a

\* move_to_end
LEMMA ToEndIs ==
  ASSUME NEW q, IsList(q), NEW s \in Keys(q)
  PROVE  /\ IsList(ToEnd(q, s)) /\ Keys(ToEnd(q, s)) = Keys(q)
         /\ After(ToEnd(q, s)) = Cache!MoveToEnd(After(q), Keys(q), {s})
<1> DEFINE w == Without(q, s)
<1>1. /\ IsList(w) /\ Keys(w) = Keys(q) \ {s}
      /\ After(w) = {p \in After(q) : p[1] # s /\ p[2] # s}
  BY WithoutIs, Zenon
<1> HIDE DEF w
<1>2. /\ IsList(Append(w, s)) /\ Keys(Append(w, s)) = Keys(w) \cup {s}
      /\ After(Append(w, s)) = After(w) \cup (Keys(w) \X {s})
  BY <1>1, ListFacts, AppendIs, Zenon
<1>3. After(w) \cup (Keys(w) \X {s}) = Cache!MoveToEnd(After(q), Keys(q), {s})
  <2>1. After(q) \subseteq Keys(q) \X Keys(q) /\ <<s, s>> \notin After(q)
    BY AfterOrder, Zenon DEF Cache!StrictTotalOrder
  <2> QED BY <1>1, <2>1 DEF Cache!MoveToEnd
<1> QED BY <1>1, <1>2, <1>3, Zenon DEF ToEnd, w

-----------------------------------------------------------------------------
(* _enforce_limits, one segment at a time                                  *)

Record(g, o, d, h) == [segments |-> g, older |-> o, deviceBytes |-> d, hostBytes |-> h]

\* What both loops need to know of the cache
Legal(g, o, d, h) ==
  /\ g \in Cache!Store
  /\ Cache!StrictTotalOrder(o, DOMAIN g)
  /\ d = Bytes(g, Cache!On(g, "cuda"))
  /\ h \in Int

\* OfflineKVCache counts bytes as this module does
LEMMA SameBytes == \A g, S : Cache!Bytes(g, S) = Bytes(g, S)
<1> QED BY Zenon DEF Cache!Bytes, Cache!Cells, Bytes, Cells, Cache!Cardinality, Cardinality

\* The segments of a store have a device and a size, and their bytes are counted.
LEMMA StoreIs ==
  ASSUME NEW g \in Cache!Store
  PROVE  /\ DOMAIN g \subseteq Seg /\ g \in [DOMAIN g -> Cache!Segment]
         /\ \A s \in DOMAIN g : /\ g[s].device \in Device /\ g[s].nbytes \in Nat
                                /\ g[s].nbytes \in Sizes
         /\ \A S \in SUBSET DOMAIN g : Sized(g, S) /\ Bytes(g, S) \in Nat
<1>1. PICK S \in SUBSET Seg : g \in [S -> Cache!Segment]
  BY Zenon DEF Cache!Store
<1>2. DOMAIN g = S
  BY <1>1, Zenon
<1>3. \A s \in DOMAIN g : g[s].device \in Device /\ g[s].nbytes \in Sizes
  BY <1>1, <1>2, Zenon DEF Cache!Segment, Cache!Device, Device
<1>4. \A s \in DOMAIN g : g[s].nbytes \in Nat
  BY <1>3, StepsAssumption, Zenon
<1>5. ASSUME NEW T \in SUBSET DOMAIN g PROVE Sized(g, T) /\ Bytes(g, T) \in Nat
  BY <1>4, <1>2, StepsAssumption, FS_Subset, CellsFinite, Zenon DEF Sized
<1> QED BY <1>1, <1>2, <1>3, <1>4, <1>5, Zenon

\* a store with the segments in V offloaded, or a new segment; a store and an order
\* without V
Offloads(g, V) == [s \in DOMAIN g |-> IF s \in V THEN [device |-> "cpu", nbytes |-> g[s].nbytes]
                                      ELSE g[s]]
Adds(g, s, d, n) == [t \in DOMAIN g \cup {s} |-> IF t = s THEN [device |-> d, nbytes |-> n] ELSE g[t]]
Others(g, V) == [s \in DOMAIN g \ V |-> g[s]]
Among(o, V) == {p \in o : p[1] \notin V /\ p[2] \notin V}

\* What the two loops do to a cache, given the segments they take
LEMMA OffloadIs ==
  ASSUME NEW g \in Cache!Store, NEW o, NEW d, NEW h, NEW V,
         Cache!Offloaded(Record(g, o, d, h)) = V
  PROVE  Cache!Offload(Record(g, o, d, h))
           = Record(Offloads(g, V), Cache!MoveToEnd(o, DOMAIN g, V),
                    d - Bytes(g, V), h + Bytes(g, V))
<1> DEFINE st == Record(g, o, d, h)
<1>1. st.segments = g /\ st.older = o /\ st.deviceBytes = d /\ st.hostBytes = h
  BY Zenon DEF Record
<1>2. ASSUME NEW s \in DOMAIN g
      PROVE  [g[s] EXCEPT !.device = "cpu"] = [device |-> "cpu", nbytes |-> g[s].nbytes]
  BY StoreIs DEF Cache!Segment
<1>3. Cache!Offload(st)
        = Record([s \in DOMAIN g |-> IF s \in V THEN [g[s] EXCEPT !.device = "cpu"] ELSE g[s]],
                 Cache!MoveToEnd(o, DOMAIN g, V), d - Cache!Bytes(g, V), h + Cache!Bytes(g, V))
  <2> HIDE DEF st
  <2> QED BY <1>1, Zenon DEF Cache!Offload, Record, st
<1> QED BY <1>2, <1>3, SameBytes, Zenon DEF Offloads

\* what removing the segments V leaves
LEMMA RemoveIs ==
  ASSUME NEW g, NEW o, NEW d, NEW h, NEW V
  PROVE  Cache!Remove(Record(g, o, d, h), V)
           = Record(Others(g, V), Among(o, V),
                    d - Bytes(g, V \cap Cache!On(g, "cuda")),
                    h - Bytes(g, V \cap Cache!On(g, "cpu")))
<1> DEFINE st == Record(g, o, d, h)
<1>1. st.segments = g /\ st.older = o /\ st.deviceBytes = d /\ st.hostBytes = h
  BY Zenon DEF Record
<1> HIDE DEF st
<1> QED BY <1>1, SameBytes, Zenon DEF st, Cache!Remove, Record, Others, Among

\* within the device's ceiling the first loop does nothing
LEMMA OffloadNothing ==
  ASSUME NEW g, NEW o, NEW d, NEW h, Legal(g, o, d, h),
         ~(MaxDevice # None /\ d > MaxDevice)
  PROVE  Cache!Offload(Record(g, o, d, h)) = Record(g, o, d, h)
<1> DEFINE st == Record(g, o, d, h)
           D == Cache!On(g, "cuda")
<1>1. d \in Nat /\ h \in Int /\ D \subseteq DOMAIN g
  BY StoreIs, Zenon DEF Legal, Cache!On
<1>2. Cache!Offloaded(st) = {}
  <2>1. ASSUME MaxDevice # None, NEW s \in D, d - Bytes(g, Cache!Before(o, D, s)) > MaxDevice
        PROVE  FALSE
    <3>1. Bytes(g, Cache!Before(o, D, s)) \in Nat
      BY <1>1, StoreIs, Zenon DEF Legal, Cache!Before
    <3> QED BY <1>1, <2>1, <3>1, StepsAssumption
  <2> QED BY <2>1, SameBytes, Zenon DEF Cache!Offloaded, Record
<1>3. d - 0 = d /\ h + 0 = h
  BY <1>1
<1>4. Cache!Offload(st) = Record(Offloads(g, {}), Cache!MoveToEnd(o, DOMAIN g, {}),
                                 d - Bytes(g, {}), h + Bytes(g, {}))
  BY <1>2, OffloadIs DEF Legal
<1> QED BY BytesBase, StoreIs, <1>3, <1>4, Zenon DEF Cache!MoveToEnd, Legal, Offloads

\* and below both ceilings the second
LEMMA EvictNothing ==
  ASSUME NEW g, NEW o, NEW d, NEW h, Legal(g, o, d, h),
         \/ DOMAIN g = {}
         \/ ~(MaxHost # None /\ d + h > (IF MaxDevice = None THEN 0 ELSE MaxDevice) + MaxHost)
  PROVE  LET st == Record(g, o, d, h) IN Cache!Remove(st, Cache!Evicted(st)) = st
<1> DEFINE st == Record(g, o, d, h)
<1>1. d \in Nat /\ h \in Int
  BY StoreIs, Zenon DEF Legal, Cache!On
<1>2. Cache!Evicted(st) = {}
  <2>1. ASSUME MaxHost # None, NEW s \in DOMAIN g,
               d + h - Bytes(g, Cache!Before(o, DOMAIN g, s)) > Cache!Ceiling
        PROVE  FALSE
    <3>1. Bytes(g, Cache!Before(o, DOMAIN g, s)) \in Nat
      BY StoreIs, Zenon DEF Legal, Cache!Before
    <3> QED BY <1>1, <2>1, <3>1, StepsAssumption DEF Cache!Ceiling
  <2> QED BY <2>1, SameBytes, Zenon DEF Cache!Evicted, Record
<1>3. \A S : Bytes(g, {} \cap S) = 0
  BY BytesBase, Zenon
<1>4. Cache!Remove(st, {}) = st
  <2>1. Others(g, {}) = g /\ Among(o, {}) = o
    BY StoreIs, Zenon DEF Others, Among, Legal
  <2> QED BY <1>3, <1>1, <2>1, RemoveIs
<1> QED BY <1>2, <1>4, Zenon

\* The oldest device segment of an overfull device offloaded on its own, and the
\* first loop run then: the same as the first loop.
LEMMA OffloadFirst ==
  ASSUME NEW g, NEW o, NEW d, NEW h, Legal(g, o, d, h),
         MaxDevice # None, d > MaxDevice,
         NEW s \in Cache!On(g, "cuda"), Cache!Before(o, Cache!On(g, "cuda"), s) = {}
  PROVE  LET n  == g[s].nbytes
             g2 == Offloads(g, {s})
             o2 == Cache!MoveToEnd(o, DOMAIN g, {s})
         IN  /\ Legal(g2, o2, d - n, h + n)
             /\ Cache!Offload(Record(g2, o2, d - n, h + n)) = Cache!Offload(Record(g, o, d, h))
<1> DEFINE n  == g[s].nbytes
           g2 == Offloads(g, {s})
           o2 == Cache!MoveToEnd(o, DOMAIN g, {s})
           R  == DOMAIN g
           D  == Cache!On(g, "cuda")
           V  == Cache!Offloaded(Record(g, o, d, h))
           V2 == Cache!Offloaded(Record(g2, o2, d - n, h + n))
<1>1. /\ g \in Cache!Store /\ R \subseteq Seg /\ s \in D /\ s \in R /\ D \subseteq R
      /\ n \in Nat /\ d = Bytes(g, D) /\ d \in Nat /\ h \in Int
  BY StoreIs, Zenon DEF Legal, Cache!On
<1>2. /\ o \subseteq R \X R /\ <<s, s>> \notin o
      /\ \A t \in D : <<t, s>> \notin o
      /\ \A t \in D \ {s} : <<s, t>> \in o
  BY <1>1, Zenon DEF Legal, Cache!StrictTotalOrder, Cache!Before
<1>3. DOMAIN g2 = R /\ \A t \in R : g2[t].nbytes = g[t].nbytes
  BY Zenon DEF Offloads
<1>4. g2 \in Cache!Store
  BY <1>1, StoreIs DEF Cache!Store, Offloads, Cache!Segment, Cache!Device
<1>5. Cache!On(g2, "cuda") = D \ {s}
  BY <1>1, Zenon DEF Cache!On, Offloads
<1>6. o2 = {p \in o : p[1] = s => p[2] = s} \cup ((R \ {s}) \X {s})
  BY Zenon DEF Cache!MoveToEnd
<1> HIDE DEF g2, o2, n, R, D
<1>7. ASSUME NEW S \in SUBSET R
      PROVE  Bytes(g2, S) = Bytes(g, S) /\ Bytes(g, S) \in Nat /\ Sized(g, S)
  BY <1>1, StoreIs, <1>3, BytesSame, Zenon DEF R
<1>8. ASSUME NEW S \in SUBSET R, s \in S
      PROVE  Bytes(g, S \ {s}) = Bytes(g, S) - n
  <2>1. Bytes(g, S \ {s}) = Bytes(g, S) - Bytes(g, {s})
    BY <1>7, <1>8, BytesDiff
  <2> QED BY <1>1, BytesBase, <2>1, Zenon DEF n
<1>9. Cache!StrictTotalOrder(o2, R)
  BY <1>1, <1>6 DEF Cache!StrictTotalOrder, Legal, R
<1>10. Legal(g2, o2, d - n, h + n)
  <2>1. h + n \in Int
    BY <1>1
  <2> QED BY <1>3, <1>4, <1>5, <1>9, <1>1, <1>7, <1>8, <2>1, Zenon DEF Legal
<1>11. V = {t \in D : d - Bytes(g, Cache!Before(o, D, t)) > MaxDevice}
  BY SameBytes, Zenon DEF Cache!Offloaded, Record, D
<1>12. V2 = {t \in D \ {s} : (d - n) - Bytes(g2, Cache!Before(o2, D \ {s}, t)) > MaxDevice}
  BY <1>5, SameBytes, Zenon DEF Cache!Offloaded, Record
<1>13. ASSUME NEW t \in D \ {s}
       PROVE  (d - n) - Bytes(g2, Cache!Before(o2, D \ {s}, t)) = d - Bytes(g, Cache!Before(o, D, t))
  <2> DEFINE B == Cache!Before(o, D, t)
  <2>1. Cache!Before(o2, D \ {s}, t) = B \ {s} /\ s \in B /\ B \subseteq R
    BY <1>1, <1>2, <1>6, Zenon DEF Cache!Before
  <2>2. Bytes(g2, B \ {s}) = Bytes(g, B) - n /\ Bytes(g, B) \in Nat
    BY <1>7, <1>8, <2>1, Zenon
  <2> HIDE DEF B
  <2>3. (d - n) - (Bytes(g, B) - n) = d - Bytes(g, B)
    BY <1>1, <2>2
  <2> QED BY <2>1, <2>2, <2>3, Zenon DEF B
<1>14. s \in V
  <2>1. Bytes(g, Cache!Before(o, D, s)) = 0
    BY BytesBase, Zenon DEF D
  <2> QED BY <1>1, <1>11, <2>1, StepsAssumption
<1>15. V2 = V \ {s} /\ V \subseteq R
  BY <1>1, <1>11, <1>12, <1>13, Zenon
<1>16. Cache!Offload(Record(g, o, d, h))
         = Record(Offloads(g, V), Cache!MoveToEnd(o, R, V), d - Bytes(g, V), h + Bytes(g, V))
  BY <1>1, OffloadIs DEF R
<1>17. Cache!Offload(Record(g2, o2, d - n, h + n))
         = Record(Offloads(g2, V2), Cache!MoveToEnd(o2, R, V2),
                  (d - n) - Bytes(g2, V2), (h + n) + Bytes(g2, V2))
  BY <1>3, <1>4, OffloadIs
<1> HIDE DEF V, V2
<1>18. (d - n) - Bytes(g2, V2) = d - Bytes(g, V) /\ (h + n) + Bytes(g2, V2) = h + Bytes(g, V)
  BY <1>1, <1>7, <1>8, <1>14, <1>15
<1>19. Offloads(g2, V2) = Offloads(g, V)
  BY <1>3, <1>14, <1>15, Zenon DEF Offloads, g2, R
<1>20. Cache!MoveToEnd(o2, R, V2) = Cache!MoveToEnd(o, R, V)
  <2>1. V \subseteq D
    BY <1>11, Zenon
  <2>2. Cache!MoveToEnd(o2, R, V2) = {p \in o2 : p[1] \in V2 => p[2] \in V2} \cup ((R \ V2) \X V2)
    BY Zenon DEF Cache!MoveToEnd
  <2>3. Cache!MoveToEnd(o, R, V) = {p \in o : p[1] \in V => p[2] \in V} \cup ((R \ V) \X V)
    BY Zenon DEF Cache!MoveToEnd
  <2>4. \A x, y \in R : <<x, y>> \in Cache!MoveToEnd(o2, R, V2) <=> <<x, y>> \in Cache!MoveToEnd(o, R, V)
    BY <1>1, <1>2, <1>6, <1>14, <1>15, <2>1, <2>2, <2>3, Zenon
  <2>5. /\ Cache!MoveToEnd(o2, R, V2) \subseteq R \X R
        /\ Cache!MoveToEnd(o, R, V) \subseteq R \X R
    BY <1>1, <1>2, <1>6, <1>15, <2>2, <2>3, Zenon
  <2> HIDE DEF Cache!MoveToEnd
  <2>6. \A p \in R \X R : p \in Cache!MoveToEnd(o2, R, V2) <=> p \in Cache!MoveToEnd(o, R, V)
    <3> TAKE p \in R \X R
    <3>1. PICK x \in R, y \in R : p = <<x, y>>
      OBVIOUS
    <3> QED BY <2>4, <3>1, Zenon
  <2> QED BY <2>5, <2>6, Zenon
<1> QED BY <1>10, <1>16, <1>17, <1>18, <1>19, <1>20, Zenon DEF g2, o2, n, R

\* A segment popped leaves a legal cache; the oldest one of an overfull cache popped
\* on its own, and the second loop run then: the same as the second loop.
LEMMA EvictFirst ==
  ASSUME NEW g, NEW o, NEW d, NEW h, Legal(g, o, d, h), NEW s \in DOMAIN g
  PROVE  LET n  == g[s].nbytes
             d2 == IF g[s].device = "cuda" THEN d - n ELSE d
             h2 == IF g[s].device = "cuda" THEN h ELSE h - n
             st  == Record(g, o, d, h)
             st2 == Record(Others(g, {s}), Among(o, {s}), d2, h2)
         IN  /\ Legal(Others(g, {s}), Among(o, {s}), d2, h2)
             /\ /\ MaxHost # None
                /\ d + h > (IF MaxDevice = None THEN 0 ELSE MaxDevice) + MaxHost
                /\ Cache!Before(o, DOMAIN g, s) = {}
                => Cache!Remove(st2, Cache!Evicted(st2)) = Cache!Remove(st, Cache!Evicted(st))
<1> DEFINE n  == g[s].nbytes
           g2 == Others(g, {s})
           o2 == Among(o, {s})
           d2 == IF g[s].device = "cuda" THEN d - n ELSE d
           h2 == IF g[s].device = "cuda" THEN h ELSE h - n
           R  == DOMAIN g
           V  == Cache!Evicted(Record(g, o, d, h))
           V2 == Cache!Evicted(Record(g2, o2, d2, h2))
           C(f) == Cache!On(f, "cuda")
           H(f) == Cache!On(f, "cpu")
<1>1. /\ g \in Cache!Store /\ R \subseteq Seg /\ s \in R /\ C(g) \subseteq R /\ H(g) \subseteq R
      /\ n \in Nat /\ d = Bytes(g, C(g)) /\ d \in Nat /\ h \in Int
      /\ \A t \in R : g[t].device \in Device
  BY StoreIs, Zenon DEF Legal, Cache!On
<1>2. DOMAIN g2 = R \ {s} /\ \A t \in R \ {s} : g2[t] = g[t]
  BY Zenon DEF Others
<1>3. g2 \in Cache!Store
  <2>1. g2 \in [R \ {s} -> Cache!Segment]
    BY <1>1, StoreIs, Zenon DEF Others
  <2> QED BY <1>1, <2>1, Zenon DEF Cache!Store
<1>4. C(g2) = C(g) \ {s} /\ H(g2) = H(g) \ {s}
  BY <1>2, Zenon DEF Cache!On
<1>5. d2 \in Int /\ h2 \in Int /\ d2 + h2 = d + h - n
  BY <1>1
<1>6. /\ g[s].device = "cuda" => s \in C(g) /\ s \notin H(g) /\ d2 = d - n /\ h2 = h
      /\ g[s].device # "cuda" => s \notin C(g) /\ s \in H(g) /\ d2 = d /\ h2 = h - n
  BY <1>1, Zenon DEF Cache!On, Device
<1>7. Cache!StrictTotalOrder(o2, R \ {s})
  BY <1>1, Zenon DEF Cache!StrictTotalOrder, Among, Legal
<1> HIDE DEF g2, d2, h2, n, R, C, H
<1>8. ASSUME NEW S \in SUBSET R
      PROVE  Bytes(g2, S \ {s}) = Bytes(g, S \ {s}) /\ Bytes(g, S) \in Nat /\ Sized(g, S)
  BY <1>1, StoreIs, <1>2, BytesSame DEF R
<1>9. ASSUME NEW S \in SUBSET R, s \in S
      PROVE  Bytes(g, S \ {s}) = Bytes(g, S) - n
  <2>1. Sized(g, S) /\ {s} \subseteq S
    BY <1>8, <1>9, Zenon
  <2>2. Bytes(g, S \ {s}) = Bytes(g, S) - Bytes(g, {s})
    BY <2>1, BytesDiff, Zenon
  <2> QED BY <1>1, BytesBase, <2>2, Zenon DEF n
<1>10. Legal(g2, o2, d2, h2)
  <2>1. d2 = Bytes(g2, C(g2))
    <3>1. CASE g[s].device = "cuda"
      BY <1>1, <1>4, <1>6, <1>8, <1>9, <3>1, Zenon
    <3>2. CASE g[s].device # "cuda"
      BY <1>1, <1>4, <1>6, <1>8, <3>2, Zenon
    <3> QED BY <3>1, <3>2, Zenon
  <2> QED BY <1>2, <1>3, <1>5, <1>7, <2>1, Zenon DEF Legal, C
<1> SUFFICES ASSUME MaxHost # None,
                    d + h > (IF MaxDevice = None THEN 0 ELSE MaxDevice) + MaxHost,
                    Cache!Before(o, DOMAIN g, s) = {}
             PROVE  Cache!Remove(Record(g2, o2, d2, h2), V2) = Cache!Remove(Record(g, o, d, h), V)
  BY <1>10, Zenon DEF g2, d2, h2, n
<1>11. V = {t \in R : d + h - Bytes(g, Cache!Before(o, R, t)) > Cache!Ceiling}
  BY SameBytes, Zenon DEF Cache!Evicted, Record, R
<1>12. V2 = {t \in R \ {s} : d2 + h2 - Bytes(g2, Cache!Before(o2, R \ {s}, t)) > Cache!Ceiling}
  BY <1>2, SameBytes, Zenon DEF Cache!Evicted, Record
<1>13. ASSUME NEW t \in R \ {s}
       PROVE  d2 + h2 - Bytes(g2, Cache!Before(o2, R \ {s}, t)) = d + h - Bytes(g, Cache!Before(o, R, t))
  <2> DEFINE B == Cache!Before(o, R, t)
  <2>1. Cache!Before(o2, R \ {s}, t) = B \ {s} /\ s \in B /\ B \subseteq R
    BY <1>1, Zenon DEF Cache!Before, Among, Legal, Cache!StrictTotalOrder, R
  <2>2. Bytes(g2, B \ {s}) = Bytes(g, B) - n /\ Bytes(g, B) \in Nat
    BY <1>8, <1>9, <2>1, Zenon
  <2> HIDE DEF B
  <2>3. d2 + h2 - Bytes(g2, B \ {s}) = d + h - Bytes(g, B)
    BY <1>1, <1>5, <2>2
  <2> QED BY <2>1, <2>3, Zenon DEF B
<1> HIDE DEF o2
<1>14. s \in V
  <2>1. d + h > Cache!Ceiling /\ d + h - 0 = d + h
    BY <1>1 DEF Cache!Ceiling
  <2> QED BY <1>1, <1>11, BytesBase, <2>1, Zenon DEF R
<1>15. V2 = V \ {s} /\ V \subseteq R
  BY <1>1, <1>11, <1>12, <1>13, Zenon
<1> HIDE DEF V, V2
<1>16. Others(g2, V2) = Others(g, V) /\ Among(o2, V2) = Among(o, V)
  BY <1>2, <1>14, <1>15, Zenon DEF Others, R, Among, o2
<1>17. ASSUME NEW S \in SUBSET R
       PROVE  /\ s \in S => Bytes(g2, V2 \cap (S \ {s})) = Bytes(g, V \cap S) - n
              /\ s \notin S => Bytes(g2, V2 \cap (S \ {s})) = Bytes(g, V \cap S)
              /\ Bytes(g, V \cap S) \in Nat
  <2>1. V2 \cap (S \ {s}) = (V \cap S) \ {s} /\ V \cap S \in SUBSET R
    BY <1>15, Zenon
  <2>2. Bytes(g2, (V \cap S) \ {s}) = Bytes(g, (V \cap S) \ {s}) /\ Bytes(g, V \cap S) \in Nat
    BY <1>8, <2>1, Zenon
  <2> QED BY <2>1, <1>9, <1>14, <2>2, Zenon
<1>18. /\ d2 - Bytes(g2, V2 \cap C(g2)) = d - Bytes(g, V \cap C(g))
       /\ h2 - Bytes(g2, V2 \cap H(g2)) = h - Bytes(g, V \cap H(g))
  BY <1>1, <1>4, <1>6, <1>17
<1> QED BY <1>16, <1>18, RemoveIs DEF C, H

\* to_device of a segment that lives elsewhere, up to _enforce_limits: a legal cache
LEMMA RelocateLegal ==
  ASSUME NEW g, NEW o, NEW d, NEW h, Legal(g, o, d, h),
         NEW s \in DOMAIN g, NEW dev \in Device, g[s].device # dev
  PROVE  LET n == g[s].nbytes
         IN  Legal([g EXCEPT ![s].device = dev], Cache!MoveToEnd(o, DOMAIN g, {s}),
                   IF dev = "cuda" THEN d + n ELSE d - n,
                   IF dev = "cuda" THEN h - n ELSE h + n)
<1> DEFINE n  == g[s].nbytes
           g2 == [g EXCEPT ![s].device = dev]
           o2 == Cache!MoveToEnd(o, DOMAIN g, {s})
           d2 == IF dev = "cuda" THEN d + n ELSE d - n
           R  == DOMAIN g
           C(f) == Cache!On(f, "cuda")
<1>1. /\ g \in Cache!Store /\ R \subseteq Seg /\ C(g) \subseteq R /\ g \in [R -> Cache!Segment]
      /\ n \in Nat /\ d = Bytes(g, C(g)) /\ d \in Nat /\ h \in Int /\ g[s].device \in Device
  BY StoreIs, Zenon DEF Legal, Cache!On
<1>2. DOMAIN g2 = R /\ g2 \in [R -> Cache!Segment]
  BY <1>1, Zenon DEF Cache!Segment, Cache!Device, Device
<1>3. /\ \A t \in R : g2[t].nbytes = g[t].nbytes
      /\ \A t \in R \ {s} : g2[t].device = g[t].device
      /\ g2[s].device = dev
  BY <1>1, Zenon DEF Cache!Segment
<1>4. Cache!StrictTotalOrder(o2, R)
  <2>1. Cache!StrictTotalOrder(o, R)
    BY Zenon DEF Legal
  <2>2. o2 = {p \in o : p[1] = s => p[2] = s} \cup ((R \ {s}) \X {s})
    BY Zenon DEF Cache!MoveToEnd
  <2> QED BY <2>1, <2>2, Zenon DEF Cache!StrictTotalOrder
<1> HIDE DEF g2, o2, n, R
<1>5. ASSUME NEW S \in SUBSET R
      PROVE  Bytes(g2, S) = Bytes(g, S) /\ Bytes(g, S) \in Nat /\ Sized(g, S)
  BY <1>1, StoreIs, <1>3, BytesSame DEF R
<1>6. s \in R /\ Bytes(g, {s}) = n
  BY <1>1, BytesBase, Zenon DEF n, R
<1>7. d2 = Bytes(g2, C(g2))
  <2>1. CASE dev = "cuda"
    <3>1. C(g2) = C(g) \cup {s} /\ C(g) \cap {s} = {}
      BY <1>1, <1>2, <1>3, <1>6, <2>1, Zenon DEF Cache!On, R
    <3>2. Sized(g, C(g)) /\ Sized(g, {s}) /\ C(g2) \in SUBSET R
      BY <1>1, <1>5, <1>6, <3>1, Zenon
    <3>3. Bytes(g, C(g) \cup {s}) = Bytes(g, C(g)) + Bytes(g, {s})
      BY <3>1, <3>2, BytesUnion, Zenon
    <3> QED BY <1>1, <1>5, <1>6, <2>1, <3>1, <3>2, <3>3, Zenon
  <2>2. CASE dev = "cpu"
    <3>1. C(g2) = C(g) \ {s} /\ {s} \subseteq C(g)
      BY <1>1, <1>2, <1>3, <1>6, <2>2, Zenon DEF Cache!On, R, Device
    <3>2. Sized(g, C(g)) /\ C(g2) \in SUBSET R
      BY <1>1, <1>5, <3>1, Zenon
    <3>3. Bytes(g, C(g) \ {s}) = Bytes(g, C(g)) - Bytes(g, {s})
      BY <3>1, <3>2, BytesDiff, Zenon
    <3> QED BY <1>1, <1>5, <1>6, <2>2, <3>1, <3>2, <3>3, Zenon
  <2> QED BY <2>1, <2>2, Zenon DEF Device
<1> QED BY <1>2, <1>1, <1>4, <1>7 DEF g2, o2, n, R, Legal, Cache!Store

\* put of a new segment, up to _enforce_limits: a legal cache
LEMMA InsertLegal ==
  ASSUME NEW g, NEW o, NEW d, NEW h, Legal(g, o, d, h),
         NEW s \in Seg, s \notin DOMAIN g, NEW dev \in Device, NEW n \in Sizes
  PROVE  Legal(Adds(g, s, dev, n), o \cup ((DOMAIN g) \X {s}),
               IF dev = "cuda" THEN d + n ELSE d, IF dev = "cuda" THEN h ELSE h + n)
<1> DEFINE R  == DOMAIN g
           g2 == [t \in R \cup {s} |-> IF t = s THEN [device |-> dev, nbytes |-> n] ELSE g[t]]
           o2 == o \cup (R \X {s})
           d2 == IF dev = "cuda" THEN d + n ELSE d
           h2 == IF dev = "cuda" THEN h ELSE h + n
           C(f) == Cache!On(f, "cuda")
<1>1. /\ R \subseteq Seg /\ C(g) \subseteq R /\ g \in [R -> Cache!Segment]
      /\ n \in Nat /\ d = Bytes(g, C(g)) /\ d \in Nat /\ h \in Int
  BY StoreIs, StepsAssumption, Zenon DEF Legal, Cache!On
<1>2. DOMAIN g2 = R \cup {s} /\ g2 \in [R \cup {s} -> Cache!Segment]
  BY <1>1, Zenon DEF Cache!Segment, Cache!Device, Device
<1>3. /\ \A t \in R : g2[t] = g[t]
      /\ g2[s].device = dev /\ g2[s].nbytes = n
  OBVIOUS
<1>4. g2 \in Cache!Store
  BY <1>1, <1>2, Zenon DEF Cache!Store
<1>5. Cache!StrictTotalOrder(o2, R \cup {s})
  BY DEF Cache!StrictTotalOrder, Legal
<1>6. C(g2) = IF dev = "cuda" THEN C(g) \cup {s} ELSE C(g)
  BY <1>1, <1>2, <1>3, Zenon DEF Cache!On
<1> HIDE DEF g2, o2, R
<1>7. Bytes(g2, C(g)) = Bytes(g, C(g)) /\ Sized(g2, C(g)) /\ Sized(g2, {s}) /\ Bytes(g2, {s}) = n
  <2>1. \A t \in C(g) : g2[t].nbytes = g[t].nbytes
    BY <1>1, <1>3, Zenon
  <2>2. C(g) \in SUBSET DOMAIN g2 /\ {s} \in SUBSET DOMAIN g2
    BY <1>1, <1>2, Zenon
  <2> QED BY <1>1, <1>3, <1>4, <2>1, <2>2, StoreIs, BytesSame, BytesBase
<1>8. d2 = Bytes(g2, C(g2))
  <2>1. CASE dev = "cuda"
    <3>1. Bytes(g2, C(g) \cup {s}) = Bytes(g2, C(g)) + Bytes(g2, {s})
      BY <1>7, <1>1, BytesUnion DEF R
    <3> QED BY <1>1, <1>6, <1>7, <2>1, <3>1, Zenon
  <2>2. CASE dev # "cuda"
    BY <1>1, <1>6, <1>7, <2>2, Zenon
  <2> QED BY <2>1, <2>2, Zenon
<1>9. h2 \in Int
  BY <1>1
<1>10. Legal(g2, o2, d2, h2)
  BY <1>2, <1>4, <1>5, <1>8, <1>9, Zenon DEF Legal
<1> QED BY <1>10, Zenon DEF g2, o2, R, Adds

\* So what _enforce_limits would do stays the same when it has offloaded one segment,
LEMMA EnforceOffload ==
  ASSUME NEW g, NEW o, NEW d, NEW h, Legal(g, o, d, h),
         MaxDevice # None, d > MaxDevice,
         NEW s \in Cache!On(g, "cuda"), Cache!Before(o, Cache!On(g, "cuda"), s) = {}
  PROVE  LET n == g[s].nbytes
         IN  Cache!EnforceLimits(Record(Offloads(g, {s}), Cache!MoveToEnd(o, DOMAIN g, {s}), d - n, h + n))
               = Cache!EnforceLimits(Record(g, o, d, h))
BY OffloadFirst DEF Cache!EnforceLimits

\* and when it has then removed one,
LEMMA EnforceEvict ==
  ASSUME NEW g, NEW o, NEW d, NEW h, Legal(g, o, d, h),
         ~(MaxDevice # None /\ d > MaxDevice),
         MaxHost # None, d + h > (IF MaxDevice = None THEN 0 ELSE MaxDevice) + MaxHost,
         NEW s \in DOMAIN g, Cache!Before(o, DOMAIN g, s) = {},
         NEW d2, d2 = IF g[s].device = "cuda" THEN d - g[s].nbytes ELSE d,
         NEW h2, h2 = IF g[s].device = "cuda" THEN h ELSE h - g[s].nbytes
  PROVE  /\ Legal(Others(g, {s}), Among(o, {s}), d2, h2)
         /\ ~(MaxDevice # None /\ d2 > MaxDevice)
         /\ Cache!EnforceLimits(Record(Others(g, {s}), Among(o, {s}), d2, h2))
              = Cache!EnforceLimits(Record(g, o, d, h))
<1> DEFINE st  == Record(g, o, d, h)
           st2 == Record(Others(g, {s}), Among(o, {s}), d2, h2)
<1>1. /\ Legal(Others(g, {s}), Among(o, {s}), d2, h2)
      /\ Cache!Remove(st2, Cache!Evicted(st2)) = Cache!Remove(st, Cache!Evicted(st))
  BY EvictFirst
<1>2. ~(MaxDevice # None /\ d2 > MaxDevice)
  BY StoreIs, StepsAssumption DEF Legal, Cache!On
<1>3. Cache!Offload(st) = st /\ Cache!Offload(st2) = st2
  BY <1>1, <1>2, OffloadNothing, Zenon
<1> HIDE DEF st, st2
<1>4. Cache!EnforceLimits(st2) = Cache!EnforceLimits(st)
  BY <1>1, <1>3, Zenon DEF Cache!EnforceLimits
<1> QED BY <1>1, <1>2, <1>4, Zenon DEF st, st2

\* and it is nothing when neither total is too large.
LEMMA EnforceStays ==
  ASSUME NEW g, NEW o, NEW d, NEW h, Legal(g, o, d, h),
         ~(MaxDevice # None /\ d > MaxDevice),
         \/ DOMAIN g = {}
         \/ ~(MaxHost # None /\ d + h > (IF MaxDevice = None THEN 0 ELSE MaxDevice) + MaxHost)
  PROVE  Cache!EnforceLimits(Record(g, o, d, h)) = Record(g, o, d, h)
<1> QED BY OffloadNothing, EvictNothing DEF Cache!EnforceLimits

-----------------------------------------------------------------------------
(* The loops                                                               *)

Frame == [loop : {"device", "host"}, keys : Seq(Seg), i : Nat \ {0}]

\* What the innermost call may rely on: its first loop goes through the keys as they
\* are, or is about to break; its second pops the first key in each iteration.
LoopRight(f) ==
  /\ f.loop = "device" /\ OverDevice =>
       /\ f.keys = order
       /\ \A j \in DOMAIN order : j < f.i => seg[order[j]].device = "cpu"
  /\ f.loop = "host" =>
       /\ ~OverDevice
       /\ Len(f.keys) = Len(order) + f.i - 1
       /\ \A j \in DOMAIN order : order[j] = f.keys[f.i + j - 1]

\* the cache that put and to_device call _enforce_limits for
InsertedIn(st, s, d, n) ==
  Record(Adds(st.segments, s, d, n), st.older \cup ((DOMAIN st.segments) \X {s}),
         IF d = "cuda" THEN st.deviceBytes + n ELSE st.deviceBytes,
         IF d = "cuda" THEN st.hostBytes ELSE st.hostBytes + n)
MovedIn(st, s, d) ==
  LET n == st.segments[s].nbytes
  IN  Record([st.segments EXCEPT ![s].device = d],
             Cache!MoveToEnd(st.older, DOMAIN st.segments, {s}),
             IF d = "cuda" THEN st.deviceBytes + n ELSE st.deviceBytes - n,
             IF d = "cuda" THEN st.hostBytes - n ELSE st.hostBytes + n)

\* st is what the operation that holds the lock should leave behind
Owed(st) ==
  \E s \in Seg, d \in Device :
    \/ /\ s \notin DOMAIN saved.segments
       /\ \E n \in Sizes : st = Cache!EnforceLimits(InsertedIn(saved, s, d, n))
    \/ /\ s \in DOMAIN saved.segments /\ saved.segments[s].device # d
       /\ st = Cache!EnforceLimits(MovedIn(saved, s, d))

\* The inductive invariant: wherever the loops are, running _enforce_limits from
\* here has the outcome that the operation owes.
StepsInv ==
  /\ Legal(seg, After(order), dBytes, hBytes)
  /\ IsList(order) /\ Keys(order) = DOMAIN seg
  /\ raised = FALSE
  /\ frames \in Seq(Frame)
  /\ \A j \in 1 .. Len(frames) - 1 : frames[j].loop = "device"
  /\ frames # <<>> => LoopRight(Top) /\ Owed(Cache!EnforceLimits(Now))

\* Nothing of the loops runs between operations.
LEMMA IdleSteps ==
  ASSUME StepsInv, Legal(seg, After(order), dBytes, hBytes)',
         IsList(order)', (Keys(order) = DOMAIN seg)', frames = <<>>, raised' = raised, frames' = frames
  PROVE  StepsInv'
BY Zenon DEF StepsInv, Legal, IsList

\* What _enforce_limits is called for, put of a new id or to_device, starts the first
\* loop with the keys as they are.
LEMMA CallSteps ==
  ASSUME StepsInv, Legal(seg, After(order), dBytes, hBytes)',
         IsList(order)', (Keys(order) = DOMAIN seg)', frames' = <<Call(order')>>, raised' = raised,
         Owed(Cache!EnforceLimits(Now))'
  PROVE  StepsInv'
<1>1. /\ frames' \in Seq(Frame) /\ Len(frames') = 1 /\ frames' # <<>>
      /\ frames'[1] = Call(order')
  BY DEF Call, Frame, IsList
<1> QED BY <1>1 DEF StepsInv, Legal, IsList, LoopRight, Top, Depth, Call, OverDevice

\* the empty cache
LEMMA EmptyLegal ==
  ASSUME NEW g, g = [s \in {} |-> [device |-> "cpu", nbytes |-> 0]], NEW q, q = <<>>
  PROVE  Legal(g, After(q), 0, 0) /\ IsList(q) /\ Keys(q) = DOMAIN g
<1>1. DOMAIN g = {} /\ DOMAIN q = {} /\ q \in Seq(Seg)
  OBVIOUS
<1>2. Keys(q) = {} /\ After(q) = {} /\ IsList(q)
  BY <1>1, Zenon DEF Keys, After, IsList
<1>3. g \in Cache!Store
  <2>1. g \in [{} -> Cache!Segment]
    OBVIOUS
  <2> QED BY <2>1, Zenon DEF Cache!Store
<1>4. Cache!On(g, "cuda") = {} /\ Bytes(g, {}) = 0
  BY <1>1, BytesBase, Zenon DEF Cache!On
<1>5. Cache!StrictTotalOrder({}, {})
  BY Zenon DEF Cache!StrictTotalOrder
<1> QED BY <1>1, <1>2, <1>3, <1>4, <1>5 DEF Legal

\* the operations, called while no other holds the lock
LEMMA OperationSteps ==
  ASSUME StepsInv,
         \/ \E s \in Seg : Touch(s) \/ Drop(s)
         \/ \E s \in Seg, d \in Device : ToDevice(s, d)
         \/ \E s \in Seg, d \in Device, n \in Sizes : PutNew(s, d, n)
         \/ Clear
  PROVE  StepsInv'
<1>0. /\ Legal(seg, After(order), dBytes, hBytes) /\ IsList(order) /\ Keys(order) = DOMAIN seg
  BY Zenon DEF StepsInv
<1>1. ASSUME NEW s \in Seg, Touch(s) PROVE StepsInv'
  <2>1. /\ s \in Keys(order) /\ order' = ToEnd(order, s)
        /\ UNCHANGED <<seg, dBytes, hBytes, frames, raised>> /\ frames = <<>>
    BY <1>0, <1>1, Zenon DEF Touch, Idle, Promote
  <2>2. /\ IsList(order') /\ Keys(order') = DOMAIN seg
        /\ After(order') = Cache!MoveToEnd(After(order), DOMAIN seg, {s})
    BY <1>0, <2>1, ToEndIs, Zenon
  <2> QED BY <2>1, <2>2, <1>0, AfterOrder, IdleSteps DEF Legal
<1>2. ASSUME NEW s \in Seg, Drop(s) PROVE StepsInv'
  <2>1. /\ s \in DOMAIN seg /\ s \in Keys(order) /\ order' = Without(order, s) /\ seg' = Others(seg, {s})
        /\ dBytes' = IF seg[s].device = "cuda" THEN dBytes - seg[s].nbytes ELSE dBytes
        /\ hBytes' = IF seg[s].device = "cuda" THEN hBytes ELSE hBytes - seg[s].nbytes
        /\ UNCHANGED <<frames, raised>> /\ frames = <<>>
    BY <1>0, <1>2, Zenon DEF Drop, Pop, Discharge, Idle, Others
  <2>2. /\ IsList(order') /\ Keys(order') = Keys(order) \ {s}
        /\ After(order') = Among(After(order), {s})
    BY <1>0, <2>1, WithoutIs DEF Among
  <2>3. Legal(seg', After(order'), dBytes', hBytes')
    BY <1>0, <2>1, <2>2, EvictFirst
  <2>4. Keys(order') = DOMAIN seg'
    BY <1>0, <2>1, <2>2, Zenon DEF Others
  <2> QED BY <2>1, <2>2, <2>3, <2>4, IdleSteps, Zenon
<1>3. ASSUME NEW s \in Seg, NEW d \in Device, ToDevice(s, d) PROVE StepsInv'
  <2>1. /\ s \in DOMAIN seg /\ s \in Keys(order) /\ order' = ToEnd(order, s) /\ seg[s].device # d
        /\ seg' = [seg EXCEPT ![s].device = d]
        /\ dBytes' = IF d = "cuda" THEN dBytes + seg[s].nbytes ELSE dBytes - seg[s].nbytes
        /\ hBytes' = IF d = "cuda" THEN hBytes - seg[s].nbytes ELSE hBytes + seg[s].nbytes
        /\ frames' = <<Call(order')>> /\ saved' = Now /\ raised' = raised
    BY <1>0, <1>3, Zenon DEF ToDevice, Relocate
  <2>2. /\ IsList(order') /\ Keys(order') = DOMAIN seg'
        /\ After(order') = Cache!MoveToEnd(After(order), DOMAIN seg, {s})
    BY <1>0, <2>1, ToEndIs, Zenon
  <2>3. Legal(seg', After(order'), dBytes', hBytes')
    BY <1>0, <2>1, <2>2, RelocateLegal, Zenon
  <2>4. Now' = MovedIn(saved', s, d)
    BY <2>1, <2>2, Zenon DEF Now, MovedIn, Record
  <2>5. Owed(Cache!EnforceLimits(Now))'
    BY <2>4, <2>1, Zenon DEF Owed, Now
  <2> QED BY <2>1, <2>2, <2>3, <2>5, CallSteps, Zenon
<1>4. ASSUME NEW s \in Seg, NEW d \in Device, NEW n \in Sizes, PutNew(s, d, n) PROVE StepsInv'
  <2>1. /\ s \notin DOMAIN seg /\ s \notin Keys(order) /\ order' = Append(order, s)
        /\ seg' = Adds(seg, s, d, n)
        /\ dBytes' = IF d = "cuda" THEN dBytes + n ELSE dBytes
        /\ hBytes' = IF d = "cuda" THEN hBytes ELSE hBytes + n
        /\ frames' = <<Call(order')>> /\ saved' = Now /\ raised' = raised
    BY <1>0, <1>4, Zenon DEF PutNew, Charge, Adds
  <2>2. /\ IsList(order') /\ Keys(order') = DOMAIN seg'
        /\ After(order') = After(order) \cup ((DOMAIN seg) \X {s})
    BY <1>0, <2>1, AppendIs DEF Adds
  <2>3. Legal(seg', After(order'), dBytes', hBytes')
    <3>1. Legal(Adds(seg, s, d, n), After(order) \cup ((DOMAIN seg) \X {s}),
                IF d = "cuda" THEN dBytes + n ELSE dBytes, IF d = "cuda" THEN hBytes ELSE hBytes + n)
      BY <1>0, <2>1, InsertLegal, Zenon
    <3> QED BY <2>1, <2>2, <3>1, Zenon
  <2> QED BY <2>1, <2>2, <2>3, CallSteps, Zenon DEF Owed, Now, InsertedIn, Record
<1>5. CASE Clear
  BY <1>5, EmptyLegal, IdleSteps, Zenon DEF Clear, Idle
<1> QED BY <1>1, <1>2, <1>3, <1>4, <1>5, Zenon

\* An iteration of the first loop: the key it looks up is there, and the segment it
\* offloads is the oldest on the device.
LEMMA DeviceSteps == StepsInv /\ DeviceLoopStep => StepsInv'
<1> SUFFICES ASSUME StepsInv, DeviceLoopStep PROVE StepsInv'
  OBVIOUS
<1> DEFINE s == Top.keys[Top.i]
           f == Top
<1>0. /\ Legal(seg, After(order), dBytes, hBytes) /\ IsList(order) /\ Keys(order) = DOMAIN seg
      /\ frames \in Seq(Frame) /\ frames # <<>> /\ raised = FALSE
      /\ \A j \in 1 .. Depth - 1 : frames[j].loop = "device"
      /\ LoopRight(Top) /\ Owed(Cache!EnforceLimits(Now))
  BY Zenon DEF StepsInv, DeviceLoopStep, Running, Depth
<1>1. Depth \in Nat \ {0} /\ Depth \in DOMAIN frames /\ f \in Frame /\ f = frames[Depth]
  BY <1>0 DEF Depth, Top
<1>2. /\ f.loop = "device" /\ OverDevice /\ f.i <= Len(f.keys) /\ f.i \in Nat \ {0} /\ f.keys = order
      /\ \A j \in DOMAIN order : j < f.i => seg[order[j]].device = "cpu"
  BY <1>0, <1>1, Zenon DEF DeviceLoopStep, Running, LoopRight, Frame
<1>3. /\ f.i \in 1 .. Len(order) /\ DOMAIN order = 1 .. Len(order)
      /\ s = order[f.i] /\ s \in Keys(order) /\ s \in DOMAIN seg
  BY <1>0, <1>2, ListFacts
<1>4. /\ Advance \in Seq(Frame) /\ Len(Advance) = Depth
      /\ \A j \in 1 .. Depth - 1 : Advance[j] = frames[j]
      /\ Advance[Depth] = [loop |-> "device", keys |-> order, i |-> f.i + 1]
  <2>1. Advance = [frames EXCEPT ![Depth] = [loop |-> "device", keys |-> order, i |-> f.i + 1]]
    <3>1. [f EXCEPT !.i = f.i + 1] = [loop |-> "device", keys |-> order, i |-> f.i + 1]
      <4> HIDE DEF f
      <4> QED BY <1>1, <1>2 DEF Frame
    <3> QED BY <3>1, <1>0, <1>1, Zenon DEF Advance
  <2>2. [loop |-> "device", keys |-> order, i |-> f.i + 1] \in Frame
    BY <1>0, <1>2 DEF Frame, IsList
  <2> QED BY <1>0, <1>1, <2>1, <2>2 DEF Depth
<1> HIDE DEF s, f
<1>5. CASE /\ seg[s].device = "cuda" /\ Relocate(s, "cpu")
           /\ frames' = Append(Advance, Call(order')) /\ UNCHANGED <<saved, raised>>
  <2>1. /\ order' = ToEnd(order, s) /\ seg' = [seg EXCEPT ![s].device = "cpu"]
        /\ dBytes' = dBytes - seg[s].nbytes /\ hBytes' = hBytes + seg[s].nbytes
    BY <1>5, Zenon DEF Relocate
  <2>2. /\ IsList(order') /\ Keys(order') = DOMAIN seg'
        /\ After(order') = Cache!MoveToEnd(After(order), DOMAIN seg, {s})
    BY <1>0, <1>3, <2>1, ToEndIs, Zenon
  <2>3. seg' = Offloads(seg, {s})
    <3>1. seg \in [DOMAIN seg -> Cache!Segment]
      BY <1>0, StoreIs, Zenon DEF Legal
    <3>2. ASSUME NEW t \in DOMAIN seg PROVE seg'[t] = Offloads(seg, {s})[t]
      <4>1. CASE t = s
        BY <1>3, <2>1, <3>1, <4>1 DEF Offloads, Cache!Segment
      <4>2. CASE t # s
        BY <2>1, <4>2, Zenon DEF Offloads
      <4> QED BY <4>1, <4>2, Zenon
    <3> QED BY <3>2, <2>1, Zenon DEF Offloads
  <2>4. Legal(seg', After(order'), dBytes', hBytes')
    BY <1>0, <1>3, <1>5, <2>1, <2>2, RelocateLegal, Zenon DEF Device
  <2>5. s \in Cache!On(seg, "cuda") /\ Cache!Before(After(order), Cache!On(seg, "cuda"), s) = {}
    <3>1. ASSUME NEW t \in DOMAIN seg, seg[t].device = "cuda", <<t, s>> \in After(order) PROVE FALSE
      <4>1. PICK j \in 1 .. Len(order) : order[j] = t
        BY <1>0, ListFacts, Zenon
      <4>2. j < f.i
        BY <1>0, <1>3, <3>1, <4>1, ListFacts, Zenon
      <4> QED BY <1>2, <1>3, <3>1, <4>1, <4>2, Zenon
    <3> QED BY <1>3, <1>5, <3>1, Zenon DEF Cache!On, Cache!Before
  <2>6. Cache!EnforceLimits(Now)' = Cache!EnforceLimits(Now)
    <3>1. Cache!EnforceLimits(Record(seg', After(order'), dBytes', hBytes'))
            = Cache!EnforceLimits(Record(seg, After(order), dBytes, hBytes))
      <4> DEFINE n == seg[s].nbytes
                 o2 == Cache!MoveToEnd(After(order), DOMAIN seg, {s})
      <4>1. Cache!EnforceLimits(Record(Offloads(seg, {s}), o2, dBytes - n, hBytes + n))
              = Cache!EnforceLimits(Record(seg, After(order), dBytes, hBytes))
        <5>1. Legal(seg, After(order), dBytes, hBytes)
          BY <1>0, Zenon
        <5> QED BY <2>5, <1>2, <5>1, EnforceOffload DEF OverDevice
      <4> HIDE DEF n, o2
      <4> QED BY <2>3, <4>1, <2>1, <2>2, Zenon DEF n, o2
    <3> QED BY <3>1, Zenon DEF Now, Record
  <2>7. Owed(Cache!EnforceLimits(Now))'
    BY <1>0, <1>5, <2>6, Zenon DEF Owed
  <2>8. /\ frames' \in Seq(Frame) /\ Len(frames') = Depth + 1 /\ frames' # <<>>
        /\ frames'[Depth + 1] = Call(order')
        /\ \A j \in 1 .. Depth : frames'[j] = Advance[j]
    BY <1>1, <1>4, <1>5, <2>2 DEF Call, Frame, IsList
  <2>9. LoopRight(Top)'
    BY <2>2, <2>8 DEF LoopRight, Top, Depth, Call, IsList, OverDevice
  <2>10. \A j \in 1 .. Len(frames') - 1 : frames'[j].loop = "device"
    BY <1>0, <1>1, <1>4, <2>8
  <2> QED BY <1>0, <1>5, <2>2, <2>4, <2>7, <2>8, <2>9, <2>10 DEF StepsInv, Legal, IsList
<1>6. CASE /\ seg[s].device # "cuda" /\ frames' = Advance
           /\ UNCHANGED <<seg, order, dBytes, hBytes, saved, raised>>
  <2>1. seg[s].device = "cpu"
    BY <1>0, <1>3, <1>6, StoreIs, Zenon DEF Legal, Device
  <2>2. Now' = Now /\ Owed(Cache!EnforceLimits(Now))'
    BY <1>0, <1>6, Zenon DEF Now, Owed
  <2>3. frames' \in Seq(Frame) /\ Len(frames') = Depth /\ frames' # <<>>
    BY <1>1, <1>4, <1>6, Zenon
  <2>4. LoopRight(Top)'
    <3>1. Top' = [loop |-> "device", keys |-> order, i |-> f.i + 1]
      BY <1>4, <1>6, <2>3, Zenon DEF Top, Depth
    <3>2. \A j \in DOMAIN order : j < f.i + 1 => seg[order[j]].device = "cpu"
      BY <1>2, <1>3, <2>1
    <3> QED BY <1>6, <3>1, <3>2, Zenon DEF LoopRight
  <2>5. \A j \in 1 .. Len(frames') - 1 : frames'[j].loop = "device"
    BY <1>0, <1>4, <1>6, <2>3, Zenon
  <2> QED BY <1>0, <1>6, <2>2, <2>3, <2>4, <2>5, Zenon DEF StepsInv, Legal, IsList
<1> QED BY <1>3, <1>5, <1>6, Zenon DEF DeviceLoopStep, s

\* The first loop ends only within the device's ceiling.
LEMMA DoneSteps == StepsInv /\ DeviceLoopDone => StepsInv' /\ ~OverDevice
<1> SUFFICES ASSUME StepsInv, DeviceLoopDone PROVE StepsInv' /\ ~OverDevice
  OBVIOUS
<1> DEFINE f == Top
           g == [loop |-> "host", keys |-> order, i |-> 1]
<1>0. /\ Legal(seg, After(order), dBytes, hBytes) /\ IsList(order) /\ Keys(order) = DOMAIN seg
      /\ frames \in Seq(Frame) /\ frames # <<>> /\ raised = FALSE
      /\ \A j \in 1 .. Depth - 1 : frames[j].loop = "device"
      /\ LoopRight(f) /\ Owed(Cache!EnforceLimits(Now))
  BY Zenon DEF StepsInv, DeviceLoopDone, Running, Depth
<1>1. Depth \in Nat \ {0} /\ Depth \in DOMAIN frames /\ f \in Frame /\ f.loop = "device"
  BY <1>0 DEF Depth, Top, DeviceLoopDone, Running
<1>2. /\ ~OverDevice \/ f.i > Len(f.keys)
      /\ frames' = [frames EXCEPT ![Depth] = g]
      /\ UNCHANGED <<seg, order, dBytes, hBytes, saved, raised>>
  BY Zenon DEF DeviceLoopDone
<1> HIDE DEF f
<1>3. ~OverDevice
  <2> SUFFICES ASSUME OverDevice PROVE FALSE
    OBVIOUS
  <2>1. f.keys = order /\ \A j \in DOMAIN order : j < f.i => seg[order[j]].device = "cpu"
    BY <1>0, <1>1, Zenon DEF LoopRight
  <2>2. Cache!On(seg, "cuda") = {}
    <3> SUFFICES ASSUME NEW t \in DOMAIN seg, seg[t].device = "cuda" PROVE FALSE
      BY Zenon DEF Cache!On
    <3>1. PICK j \in 1 .. Len(order) : order[j] = t
      BY <1>0, ListFacts, Zenon
    <3>2. j \in DOMAIN order /\ j < f.i
      BY <1>0, <1>1, <1>2, <2>1, ListFacts DEF Frame
    <3> QED BY <2>1, <3>1, <3>2, Zenon
  <2>3. dBytes = 0
    BY <1>0, <2>2, BytesBase, Zenon DEF Legal
  <2> QED BY <2>3, StepsAssumption DEF OverDevice
<1>4. g \in Frame
  BY <1>0 DEF Frame, IsList
<1> HIDE DEF g
<1>5. /\ frames' \in Seq(Frame) /\ Len(frames') = Depth /\ frames' # <<>>
      /\ frames'[Depth] = g /\ \A j \in 1 .. Depth - 1 : frames'[j] = frames[j]
  BY <1>0, <1>1, <1>2, <1>4 DEF Depth
<1>6. Now' = Now /\ Owed(Cache!EnforceLimits(Now))'
  BY <1>0, <1>2, Zenon DEF Now, Owed
<1>7. LoopRight(Top)'
  <2>1. Top' = g
    BY <1>5, Zenon DEF Top, Depth
  <2>2. Len(order) \in Nat /\ DOMAIN order = 1 .. Len(order)
    BY <1>0, ListFacts, Zenon
  <2> QED BY <1>2, <1>3, <2>1, <2>2 DEF LoopRight, g, OverDevice
<1>8. \A j \in 1 .. Len(frames') - 1 : frames'[j].loop = "device"
  BY <1>0, <1>5, Zenon
<1> QED BY <1>0, <1>2, <1>3, <1>5, <1>6, <1>7, <1>8, Zenon DEF StepsInv, Legal, IsList

\* An iteration of the second loop: the key it pops is the oldest.
LEMMA HostSteps == StepsInv /\ HostLoopStep => StepsInv'
<1> SUFFICES ASSUME StepsInv, HostLoopStep PROVE StepsInv'
  OBVIOUS
<1> DEFINE s == Top.keys[Top.i]
           f == Top
           g == [loop |-> "host", keys |-> f.keys, i |-> f.i + 1]
<1>0. /\ Legal(seg, After(order), dBytes, hBytes) /\ IsList(order) /\ Keys(order) = DOMAIN seg
      /\ frames \in Seq(Frame) /\ frames # <<>> /\ raised = FALSE
      /\ \A j \in 1 .. Depth - 1 : frames[j].loop = "device"
      /\ LoopRight(f) /\ Owed(Cache!EnforceLimits(Now))
  BY Zenon DEF StepsInv, HostLoopStep, Running, Depth
<1>1. Depth \in Nat \ {0} /\ Depth \in DOMAIN frames /\ f \in Frame /\ f = frames[Depth]
  BY <1>0 DEF Depth, Top
<1>2. f.loop = "host" /\ OverBoth /\ f.i <= Len(f.keys)
  BY Zenon DEF HostLoopStep, Running
<1>3. /\ ~OverDevice /\ Len(f.keys) = Len(order) + f.i - 1
      /\ \A j \in DOMAIN order : order[j] = f.keys[f.i + j - 1]
      /\ f.i \in Nat \ {0} /\ f.keys \in Seq(Seg)
  BY <1>0, <1>1, <1>2, Zenon DEF LoopRight, Frame
<1>4. /\ Len(order) \in Nat \ {0} /\ DOMAIN order = 1 .. Len(order)
      /\ s = order[1] /\ s \in Keys(order) /\ s \in DOMAIN seg
  <2>1. Len(order) \in Nat /\ DOMAIN order = 1 .. Len(order)
    BY <1>0, ListFacts, Zenon
  <2>2. Len(order) > 0 /\ 1 \in DOMAIN order /\ f.i + 1 - 1 = f.i
    BY <1>2, <1>3, <2>1
  <2>3. s = order[1]
    BY <1>3, <2>2, Zenon
  <2> QED BY <1>0, <2>1, <2>2, <2>3, ListFacts
<1>5. Pop(s) /\ frames' = Advance /\ UNCHANGED <<saved, raised>>
  BY <1>4, Zenon DEF HostLoopStep
<1>6. /\ g \in Frame /\ Advance = [frames EXCEPT ![Depth] = g]
  <2>1. [f EXCEPT !.i = f.i + 1] = g /\ g \in Frame
    <3> HIDE DEF f
    <3> QED BY <1>1, <1>2, <1>3 DEF Frame
  <2> QED BY <2>1, <1>0, <1>1, Zenon DEF Advance
<1> HIDE DEF s, f, g
<1>7. /\ frames' \in Seq(Frame) /\ Len(frames') = Depth /\ frames' # <<>>
      /\ frames'[Depth] = g /\ \A j \in 1 .. Depth - 1 : frames'[j] = frames[j]
  BY <1>0, <1>1, <1>5, <1>6 DEF Depth
<1>8. /\ order' = Without(order, s) /\ seg' = Others(seg, {s})
      /\ dBytes' = IF seg[s].device = "cuda" THEN dBytes - seg[s].nbytes ELSE dBytes
      /\ hBytes' = IF seg[s].device = "cuda" THEN hBytes ELSE hBytes - seg[s].nbytes
  BY <1>5, Zenon DEF Pop, Discharge, Others
<1>9. /\ IsList(order') /\ Keys(order') = DOMAIN seg' /\ Len(order') = Len(order) - 1
      /\ After(order') = Among(After(order), {s})
      /\ \A i \in 1 .. Len(order) - 1 : order'[i] = order[i + 1]
  <2>1. /\ IsList(order') /\ Keys(order') = Keys(order) \ {s}
        /\ After(order') = Among(After(order), {s})
    BY <1>0, <1>4, <1>8, WithoutIs DEF Among
  <2>2. /\ Len(order') = Len(order) - 1
        /\ \A i \in 1 .. Len(order') : order'[i] = order[i + 1]
    BY <1>0, <1>4, <1>8, WithoutIs, Zenon
  <2> QED BY <1>0, <1>8, <2>1, <2>2, Zenon DEF Others
<1>10. /\ Legal(seg', After(order'), dBytes', hBytes') /\ ~OverDevice'
       /\ Cache!EnforceLimits(Now)' = Cache!EnforceLimits(Now)
  <2>1. Cache!Before(After(order), DOMAIN seg, s) = {}
    <3>1. IsList(order) /\ Keys(order) = DOMAIN seg /\ Len(order) > 0
      BY <1>0, <1>4
    <3> QED BY <1>4, <3>1, AfterOrder, Zenon
  <2>2. /\ ~(MaxDevice # None /\ dBytes > MaxDevice) /\ MaxHost # None
        /\ dBytes + hBytes > (IF MaxDevice = None THEN 0 ELSE MaxDevice) + MaxHost
    BY <1>2, <1>3, Zenon DEF OverDevice, OverBoth
  <2>3. Legal(seg, After(order), dBytes, hBytes)
    BY <1>0, Zenon
  <2>4. /\ Legal(seg', After(order'), dBytes', hBytes') /\ ~(MaxDevice # None /\ dBytes' > MaxDevice)
        /\ Cache!EnforceLimits(Record(seg', After(order'), dBytes', hBytes'))
             = Cache!EnforceLimits(Record(seg, After(order), dBytes, hBytes))
    <3>1. /\ Legal(Others(seg, {s}), Among(After(order), {s}), dBytes', hBytes')
          /\ ~(MaxDevice # None /\ dBytes' > MaxDevice)
          /\ Cache!EnforceLimits(Record(Others(seg, {s}), Among(After(order), {s}), dBytes', hBytes'))
               = Cache!EnforceLimits(Record(seg, After(order), dBytes, hBytes))
      BY <1>4, <1>8, <2>1, <2>2, <2>3, EnforceEvict
    <3> QED BY <1>8, <1>9, <3>1, Zenon
  <2> QED BY <2>4, Zenon DEF Now, Record, OverDevice
<1>11. Owed(Cache!EnforceLimits(Now))'
  BY <1>0, <1>5, <1>10, Zenon DEF Owed
<1>12. LoopRight(Top)'
  <2>1. Len(f.keys) = Len(order') + (f.i + 1) - 1
    BY <1>3, <1>4, <1>9
  <2>2. ASSUME NEW j \in DOMAIN order' PROVE order'[j] = f.keys[(f.i + 1) + j - 1]
    <3>1. j \in 1 .. Len(order) - 1 /\ j + 1 \in DOMAIN order /\ f.i + (j + 1) - 1 = (f.i + 1) + j - 1
      <4>1. /\ Len(order') = Len(order) - 1 /\ f.i \in Nat \ {0}
            /\ Len(order) \in Nat \ {0} /\ DOMAIN order = 1 .. Len(order)
        BY <1>3, <1>4, <1>9, Zenon
      <4>2. j \in 1 .. Len(order) - 1 /\ j \in Nat
        BY <1>9, ListFacts, <4>1
      <4> QED BY <4>1, <4>2
    <3> QED BY <1>3, <1>9, <3>1, Zenon
  <2>3. Top' = g
    BY <1>7, Zenon DEF Top, Depth
  <2>4. g.loop = "host" /\ g.keys = f.keys /\ g.i = f.i + 1
    BY Zenon DEF g
  <2> QED BY <1>10, <2>1, <2>2, <2>3, <2>4, Zenon DEF LoopRight
<1>13. \A j \in 1 .. Len(frames') - 1 : frames'[j].loop = "device"
  BY <1>0, <1>7, Zenon
<1> QED BY <1>0, <1>5, <1>7, <1>9, <1>10, <1>11, <1>12, <1>13 DEF StepsInv, Legal, IsList

\* A call returns with the cache as _enforce_limits should leave it, to the first loop
\* of the call below, which then breaks.
LEMMA ReturnSteps ==
  StepsInv /\ Return => StepsInv' /\ Cache!EnforceLimits(Now) = Now /\ Now' = Now
<1> SUFFICES ASSUME StepsInv, Return
             PROVE  StepsInv' /\ Cache!EnforceLimits(Now) = Now /\ Now' = Now
  OBVIOUS
<1> DEFINE f == Top
<1>0. /\ Legal(seg, After(order), dBytes, hBytes) /\ IsList(order) /\ Keys(order) = DOMAIN seg
      /\ frames \in Seq(Frame) /\ frames # <<>> /\ raised = FALSE
      /\ \A j \in 1 .. Depth - 1 : frames[j].loop = "device"
      /\ LoopRight(f) /\ Owed(Cache!EnforceLimits(Now))
  BY Zenon DEF StepsInv, Return, Running, Depth
<1>1. Depth \in Nat \ {0} /\ Depth = Len(frames) /\ f \in Frame /\ f.loop = "host"
  BY <1>0 DEF Depth, Top, Return, Running
<1>2. /\ ~OverBoth \/ f.i > Len(f.keys)
      /\ frames' = SubSeq(frames, 1, Depth - 1)
      /\ saved' = IF Depth = 1 THEN Nothing ELSE saved
      /\ UNCHANGED <<seg, order, dBytes, hBytes, raised>>
  BY Zenon DEF Return
<1>3. ~OverDevice /\ Len(f.keys) = Len(order) + f.i - 1 /\ f.i \in Nat
  BY <1>0, <1>1, Zenon DEF LoopRight, Frame
<1> HIDE DEF f
<1>4. DOMAIN seg = {} \/ ~OverBoth
  <2> SUFFICES ASSUME OverBoth PROVE DOMAIN seg = {}
    OBVIOUS
  <2>1. Len(order) = 0
    BY <1>2, <1>3, <1>0, ListFacts
  <2>2. Keys(order) = {}
    <3>1. IsList(order) /\ 1 .. Len(order) = {}
      BY <1>0, <2>1
    <3> QED BY <3>1, ListFacts, Zenon
  <2> QED BY <1>0, <2>2, Zenon
<1>5. Cache!EnforceLimits(Now) = Now /\ Now' = Now
  BY <1>3, <1>4, <1>2, <1>0, EnforceStays, Zenon DEF OverDevice, OverBoth, Now, Record
<1>6. /\ frames' \in Seq(Frame) /\ Len(frames') = Depth - 1
      /\ \A j \in 1 .. Depth - 1 : frames'[j] = frames[j]
  BY <1>0, <1>1, <1>2
<1>7. \A j \in 1 .. Len(frames') - 1 : frames'[j].loop = "device"
  BY <1>0, <1>1, <1>6
<1>8. ASSUME frames' # <<>> PROVE LoopRight(Top)' /\ Owed(Cache!EnforceLimits(Now))'
  <2>1. Depth - 1 \in 1 .. Depth - 1 /\ Depth # 1
    BY <1>1, <1>6, <1>8
  <2>2. Top'.loop = "device"
    BY <1>0, <1>6, <2>1, Zenon DEF Top, Depth
  <2>3. Owed(Cache!EnforceLimits(Now))'
    BY <1>0, <1>2, <1>5, <2>1, Zenon DEF Owed
  <2> QED BY <1>2, <1>3, <2>2, <2>3, Zenon DEF LoopRight, OverDevice
<1> QED BY <1>0, <1>2, <1>5, <1>6, <1>7, <1>8, Zenon DEF StepsInv, Legal, IsList

\* Every step preserves the invariant.
LEMMA StepsStep == StepsInv /\ [Next]_vars => StepsInv'
<1> SUFFICES ASSUME StepsInv, [Next]_vars PROVE StepsInv'
  OBVIOUS
<1>1. CASE UNCHANGED vars
  BY <1>1, Zenon DEF vars, StepsInv, Legal, IsList, LoopRight, OverDevice, Top, Depth, Owed, Now
<1>2. CASE Enforce
  BY <1>2, DeviceSteps, DoneSteps, HostSteps, ReturnSteps, Zenon DEF Enforce
<1>3. CASE \/ \E s \in Seg : Touch(s) \/ Drop(s)
           \/ \E s \in Seg, d \in Device : ToDevice(s, d)
           \/ \E s \in Seg, d \in Device, n \in Sizes : PutNew(s, d, n)
           \/ Clear
  BY <1>3, OperationSteps, Zenon
<1> QED BY <1>1, <1>2, <1>3, Zenon DEF Next

\* An empty cache satisfies the invariant.
LEMMA StepsBegin == Init => StepsInv
<1> SUFFICES ASSUME Init PROVE StepsInv
  OBVIOUS
<1>1. /\ seg = [s \in {} |-> [device |-> "cpu", nbytes |-> 0]] /\ order = <<>>
      /\ dBytes = 0 /\ hBytes = 0 /\ frames = <<>> /\ raised = FALSE
  BY Zenon DEF Init
<1> QED BY <1>1, EmptyLegal DEF StepsInv

\* The invariant holds before and after every iteration of the loops.
LEMMA StepsInvariant == Spec => []StepsInv
<1>1. StepsInv /\ [Next]_vars => StepsInv'
  BY StepsStep, Zenon
<1> QED BY <1>1, StepsBegin, PTL DEF Spec

\* _enforce_limits never looks up a key that is gone, although its first loop goes on
\* with keys listed before the calls it nests have removed some.
THEOREM LoopsFindTheirKeys == Spec => []NoKeyError
<1>1. StepsInv => NoKeyError
  BY Zenon DEF StepsInv, NoKeyError
<1> QED BY <1>1, StepsInvariant, PTL

-----------------------------------------------------------------------------
(* Refinement                                                              *)

\* A call that is not the outermost one returns to its caller.
LEMMA PopIs ==
  ASSUME NEW T, NEW q \in Seq(T), q # <<>>, Len(q) # 1
  PROVE  SubSeq(q, 1, Len(q) - 1) # <<>>
<1>1. Len(q) \in Nat /\ Len(q) # 0
  OBVIOUS
<1> DEFINE rest == SubSeq(q, 1, Len(q) - 1)
<1>2. Len(rest) = Len(q) - 1
  BY <1>1
<1> HIDE DEF rest
<1>3. rest # <<>>
  BY <1>1, <1>2
<1> QED BY <1>3, Zenon DEF rest

\* what the lock hides
LEMMA SeenIs ==
  /\ frames = <<>> => Seen = Now
  /\ frames # <<>> => Seen = saved
  /\ frames' = <<>> => Seen' = Now'
  /\ frames' # <<>> => Seen' = saved'
BY Zenon DEF Seen

\* A step that leaves what is seen alone is a step of the atomic cache that does
\* nothing.
LEMMA HiddenStep == ASSUME Seen' = Seen PROVE UNCHANGED Cache!vars
BY Zenon DEF Cache!vars

\* what a caller finds after an operation that ends in state st
LEMMA BecomeIs ==
  ASSUME NEW g, NEW o, NEW d, NEW h, Seen' = Record(g, o, d, h)
  PROVE  Cache!Become(Record(g, o, d, h))
BY Zenon DEF Cache!Become, Record

\* Every step of the loops, seen from outside the lock, is a step of the atomic
\* cache or nothing: an operation that calls _enforce_limits takes effect when the
\* outermost call returns.
LEMMA StepsRefine == StepsInv /\ [Next]_vars => [Cache!Next]_(Cache!vars)
<1> SUFFICES ASSUME StepsInv, [Next]_vars PROVE [Cache!Next]_(Cache!vars)
  OBVIOUS
<1>0. /\ Legal(seg, After(order), dBytes, hBytes) /\ IsList(order) /\ Keys(order) = DOMAIN seg
      /\ frames \in Seq(Frame)
  BY Zenon DEF StepsInv
<1>1. CASE UNCHANGED vars
  BY <1>1, HiddenStep, Zenon DEF vars, Seen, Now
<1>2. ASSUME NEW s \in Seg, Touch(s) PROVE Cache!Next
  <2>1. /\ s \in DOMAIN seg /\ s \in Keys(order) /\ order' = ToEnd(order, s)
        /\ UNCHANGED <<seg, dBytes, hBytes, frames>> /\ frames = <<>>
    BY <1>0, <1>2, Zenon DEF Touch, Idle, Promote
  <2> QED BY <2>1, <1>0, ToEndIs, SeenIs DEF Cache!Next, Cache!Get, Cache!Promote, Now
<1>3. ASSUME NEW s \in Seg, Drop(s) PROVE Cache!Next
  <2>1. /\ s \in DOMAIN seg /\ s \in Keys(order) /\ order' = Without(order, s) /\ seg' = Others(seg, {s})
        /\ dBytes' = IF seg[s].device = "cuda" THEN dBytes - seg[s].nbytes ELSE dBytes
        /\ hBytes' = IF seg[s].device = "cuda" THEN hBytes ELSE hBytes - seg[s].nbytes
        /\ frames' = frames /\ frames = <<>>
    BY <1>0, <1>3, Zenon DEF Drop, Pop, Discharge, Idle, Others
  <2>2. After(order') = Among(After(order), {s})
    BY <1>0, <2>1, WithoutIs DEF Among
  <2>3. Seen = Now /\ Seen' = Now'
    BY <2>1, SeenIs, Zenon
  <2>4. /\ dBytes' = dBytes - Bytes(seg, {s} \cap Cache!On(seg, "cuda"))
        /\ hBytes' = hBytes - Bytes(seg, {s} \cap Cache!On(seg, "cpu"))
    <3>1. seg[s].nbytes \in Nat /\ seg[s].device \in Device /\ dBytes \in Int /\ hBytes \in Int
      BY <1>0, <2>1, StoreIs DEF Legal, Cache!On
    <3>2. Bytes(seg, {s}) = seg[s].nbytes /\ Bytes(seg, {}) = 0
      BY <3>1, BytesBase, Zenon
    <3>3. CASE seg[s].device = "cuda"
      <4>1. /\ Bytes(seg, {s} \cap Cache!On(seg, "cuda")) = seg[s].nbytes
            /\ Bytes(seg, {s} \cap Cache!On(seg, "cpu")) = 0
        BY <3>2, <2>1, <3>3, Zenon DEF Cache!On
      <4> QED BY <3>1, <2>1, <3>3, <4>1
    <3>4. CASE seg[s].device = "cpu"
      <4>1. {s} \cap Cache!On(seg, "cpu") = {s} /\ {s} \cap Cache!On(seg, "cuda") = {}
        BY <2>1, <3>4, Zenon DEF Cache!On
      <4>2. /\ Bytes(seg, {s} \cap Cache!On(seg, "cpu")) = seg[s].nbytes
            /\ Bytes(seg, {s} \cap Cache!On(seg, "cuda")) = 0
        BY <3>2, <4>1, Zenon
      <4> QED BY <3>1, <2>1, <3>4, <4>2
    <3> QED BY <3>1, <3>3, <3>4, Zenon DEF Device
  <2>5. Cache!Current = Record(seg, After(order), dBytes, hBytes)
    BY <2>3, Zenon DEF Cache!Current, Now, Record
  <2>6. Seen' = Record(Others(seg, {s}), Among(After(order), {s}),
                       dBytes - Bytes(seg, {s} \cap Cache!On(seg, "cuda")),
                       hBytes - Bytes(seg, {s} \cap Cache!On(seg, "cpu")))
    BY <2>1, <2>2, <2>3, <2>4, Zenon DEF Now, Record
  <2>7. Cache!Become(Cache!Remove(Cache!Current, {s}))
    BY <2>5, <2>6, BecomeIs, RemoveIs
  <2> QED BY <2>7, <2>1, <2>3, Zenon DEF Cache!Next, Cache!Drop, Now
<1>4. CASE Clear
  <2>1. Seen' = [segments |-> [s \in {} |-> [device |-> "cpu", nbytes |-> 0]], older |-> {},
                 deviceBytes |-> 0, hostBytes |-> 0]
    BY <1>4, SeenIs DEF Clear, Idle, Now, After, Keys
  <2> QED BY <2>1, Zenon DEF Cache!Next, Cache!Clear
<1>5. CASE \/ \E s \in Seg, d \in Device : ToDevice(s, d)
           \/ \E s \in Seg, d \in Device, n \in Sizes : PutNew(s, d, n)
  <2>1. frames = <<>> /\ frames' = <<Call(order')>> /\ saved' = Now
    BY <1>5, Zenon DEF ToDevice, PutNew, Idle
  <2> QED BY <2>1, SeenIs, HiddenStep, Zenon
<1>6. CASE DeviceLoopDone \/ DeviceLoopStep \/ HostLoopStep
  <2>1. frames # <<>> /\ frames' # <<>> /\ saved' = saved
    BY <1>0, <1>6 DEF DeviceLoopDone, DeviceLoopStep, HostLoopStep, Running, KeyError, Advance, Depth
  <2> QED BY <2>1, SeenIs, HiddenStep, Zenon
<1>7. CASE Return
  <2>1. /\ frames # <<>> /\ frames' = SubSeq(frames, 1, Depth - 1)
        /\ saved' = IF Depth = 1 THEN Nothing ELSE saved
    BY <1>7, Zenon DEF Return, Running
  <2>2. CASE Depth # 1
    BY <2>1, <2>2, <1>0, PopIs, SeenIs, HiddenStep, Zenon DEF Depth
  <2>3. CASE Depth = 1
    <3>1. Cache!EnforceLimits(Now) = Now /\ Now' = Now
      BY <1>7, ReturnSteps, Zenon
    <3>2. Seen = saved /\ Seen' = Now
      BY <2>1, <1>0, <2>3, <3>1, SeenIs DEF Depth
    <3>3. Cache!Become(Now)
      BY <3>2, Zenon DEF Cache!Become
    <3>4. PICK s \in Seg, d \in Device :
            \/ /\ s \notin DOMAIN saved.segments
               /\ \E n \in Sizes : Now = Cache!EnforceLimits(InsertedIn(saved, s, d, n))
            \/ /\ s \in DOMAIN saved.segments /\ saved.segments[s].device # d
               /\ Now = Cache!EnforceLimits(MovedIn(saved, s, d))
      BY <2>1, <3>1, Zenon DEF Owed, StepsInv
    <3>5. ASSUME s \notin DOMAIN saved.segments, NEW n \in Sizes,
                 Now = Cache!EnforceLimits(InsertedIn(saved, s, d, n))
          PROVE  Cache!Next
      <4>1. Cache!Put(s, d, n)
        BY <3>2, <3>3, <3>5, Zenon DEF Cache!Put, Cache!Inserted, InsertedIn, Adds, Record
      <4> QED BY <4>1, Zenon DEF Cache!Next, Device, Cache!Device
    <3>6. ASSUME s \in DOMAIN saved.segments, saved.segments[s].device # d,
                 Now = Cache!EnforceLimits(MovedIn(saved, s, d))
          PROVE  Cache!Next
      <4>1. Cache!ToDevice(s, d)
        BY <3>2, <3>3, <3>6, Zenon DEF Cache!ToDevice, Cache!Moved, MovedIn, Record
      <4> QED BY <4>1, Zenon DEF Cache!Next, Device, Cache!Device
    <3> QED BY <3>4, <3>5, <3>6, Zenon
  <2> QED BY <2>2, <2>3, Zenon
<1> QED BY <1>1, <1>2, <1>3, <1>4, <1>5, <1>6, <1>7 DEF Next, Enforce

\* The loops of _enforce_limits with their nested calls implement the atomic
\* operations of OfflineKVCache, whatever the segments, sizes and ceilings.
THEOREM LoopsImplementCache == Spec => ImplementsCache
<1>1. Init => Cache!Init
  <2> SUFFICES ASSUME Init PROVE Cache!Init
    OBVIOUS
  <2> QED BY DEF Init, Seen, Now, Cache!Init, After, Keys
<1>2. StepsInv /\ [Next]_vars => [Cache!Next]_(Cache!vars)
  BY StepsRefine, Zenon
<1> QED BY <1>1, <1>2, StepsInvariant, PTL DEF Spec, ImplementsCache, Cache!Spec
=============================================================================
