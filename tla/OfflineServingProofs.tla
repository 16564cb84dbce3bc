------------------------- MODULE OfflineServingProofs -------------------------
(***************************************************************************)
(* For every set of segment ids, every set of sizes and every pair of      *)
(* ceilings.  Of OfflineKVCache: the running totals are exact, no          *)
(* operation returns above a ceiling, the least recently used segments go  *)
(* first and a put that fits disturbs nothing.  Of OfflineServing: it      *)
(* keeps to the cache's operations, its snapshots are whole and what a     *)
(* query attends to is on the device, each under the conditions stated.    *)
(***************************************************************************)
EXTENDS OfflineServing, ByteCountsProofs

-----------------------------------------------------------------------------
(* Lemmas on the order.                                                    *)

\* Any nonempty set of keys has a least recently used one.
LEMMA OldestExists ==
  ASSUME NEW o, NEW R, StrictTotalOrder(o, R), IsFiniteSet(R),
         NEW S \in SUBSET R, S # {}
  PROVE  \E s \in S : Before(o, S, s) = {}
<1> DEFINE T == {Before(o, S, s) : s \in S}
<1>1. IsWellFoundedOn(StrictSubsetOrdering(R), FiniteSubsetsOf(R))
  BY FS_StrictSubsetOrderingWellFounded, Zenon
<1>2. T \subseteq FiniteSubsetsOf(R) /\ T # {}
  <2>1. T \subseteq SUBSET R
    BY Zenon DEF Before
  <2> QED BY <2>1, FS_FiniteSubsetsOfFinite
<1>3. PICK x \in T : \A y \in T : ~(<<y, x>> \in StrictSubsetOrdering(R))
  <2> HIDE DEF T
  <2> QED BY <1>1, <1>2, WFMin, Zenon
<1>4. PICK s \in S : x = Before(o, S, s)
  BY <1>3, Zenon
<1>5. SUFFICES ASSUME NEW t \in Before(o, S, s) PROVE FALSE
  OBVIOUS
<1>6. t \in S /\ <<t, s>> \in o
  BY <1>5, Zenon DEF Before
<1>7. Before(o, S, t) \subseteq Before(o, S, s) /\ t \notin Before(o, S, t)
  BY <1>6, Zenon DEF Before, StrictTotalOrder
<1>8. <<Before(o, S, t), x>> \in StrictSubsetOrdering(R)
  <2>1. Before(o, S, t) \in SUBSET R /\ Before(o, S, s) \in SUBSET R
    BY Zenon DEF Before
  <2>2. Before(o, S, t) # Before(o, S, s)
    BY <1>5, <1>7, Zenon
  <2> QED BY <1>4, <1>7, <2>1, <2>2, Zenon DEF StrictSubsetOrdering
<1> QED BY <1>3, <1>6, <1>8, Zenon

\* move_to_end permutes the keys.
LEMMA MoveToEndOrder ==
  ASSUME NEW o, NEW R, StrictTotalOrder(o, R), NEW V \in SUBSET R
  PROVE  StrictTotalOrder(MoveToEnd(o, R, V), R)
<1> DEFINE m == MoveToEnd(o, R, V)
<1>1. \A a, b \in R :
        <<a, b>> \in m <=> \/ <<a, b>> \in o /\ (a \in V => b \in V)
                           \/ a \notin V /\ b \in V
  BY Zenon DEF MoveToEnd
<1>2. m \subseteq R \X R
  BY Zenon DEF MoveToEnd, StrictTotalOrder
<1> HIDE DEF m
<1>3. StrictTotalOrder(m, R)
  BY <1>1, <1>2, Zenon DEF StrictTotalOrder
<1> QED BY <1>3, Zenon DEF m

-----------------------------------------------------------------------------
(* States of the cache between the steps of an operation.                  *)

Exact(st) ==
  /\ st.deviceBytes = Bytes(st.segments, On(st.segments, "cuda"))
  /\ st.hostBytes = Bytes(st.segments, On(st.segments, "cpu"))

Legal(st) == /\ st.segments \in Store
             /\ StrictTotalOrder(st.older, DOMAIN st.segments)
             /\ Exact(st)

\* What the type of the store gives the proofs below.
LEMMA StoreFacts ==
  ASSUME NEW g \in Store
  PROVE  /\ DOMAIN g \subseteq Seg
         /\ g = [s \in DOMAIN g |-> g[s]]
         /\ \A s \in DOMAIN g : g[s] \in Segment /\ g[s].nbytes \in Nat
         /\ \A S \in SUBSET DOMAIN g : Sized(g, S)
         /\ On(g, "cuda") \cup On(g, "cpu") = DOMAIN g
         /\ On(g, "cuda") \cap On(g, "cpu") = {}
         /\ Bytes(g, On(g, "cuda")) \in Nat
         /\ Bytes(g, On(g, "cpu")) \in Nat
<1>1. PICK S \in SUBSET Seg : g \in [S -> Segment]
  BY Zenon DEF Store
<1>2. DOMAIN g \subseteq Seg /\ g = [s \in DOMAIN g |-> g[s]]
  BY <1>1, Zenon
<1>3. \A s \in DOMAIN g : g[s] \in Segment /\ g[s].nbytes \in Nat
  BY <1>1, SizesAssumption, Zenon DEF Segment
<1>4. \A T \in SUBSET DOMAIN g : Sized(g, T)
  BY <1>2, <1>3, SegAssumption, FS_Subset, Zenon DEF Sized
<1>5. /\ On(g, "cuda") \cup On(g, "cpu") = DOMAIN g
      /\ On(g, "cuda") \cap On(g, "cpu") = {}
  BY <1>3, Zenon DEF On, Segment, Device
<1>6. Bytes(g, On(g, "cuda")) \in Nat /\ Bytes(g, On(g, "cpu")) \in Nat
  BY <1>4, CellsFinite, Zenon DEF On
<1> QED BY <1>2, <1>3, <1>4, <1>5, <1>6, Zenon

\* The first loop of _enforce_limits keeps the totals exact and ends with the
\* device within its ceiling; it moves bytes between the tiers only.
LEMMA OffloadLegal ==
  ASSUME NEW st, Legal(st)
  PROVE  /\ Legal(Offload(st))
         /\ MaxDevice # None => Offload(st).deviceBytes <= MaxDevice
<1> DEFINE g == st.segments
           o == st.older
           V == Offloaded(st)
           C == On(g, "cuda")
           h == Offload(st).segments
<1>1. g \in Store /\ StrictTotalOrder(o, DOMAIN g) /\ Exact(st)
  BY Zenon DEF Legal
<1>2. V \subseteq C /\ C \subseteq DOMAIN g
  BY Zenon DEF Offloaded, On
<1>3. h = [s \in DOMAIN g |-> IF s \in V THEN [g[s] EXCEPT !.device = "cpu"]
                              ELSE g[s]]
  BY Zenon DEF Offload
<1>4. \A s \in DOMAIN g : g[s] \in Segment /\ g[s].nbytes \in Nat
  BY <1>1, StoreFacts, Zenon
<1>5. \A s \in DOMAIN g :
        /\ h[s] \in Segment
        /\ h[s].nbytes = g[s].nbytes
        /\ h[s].device = IF s \in V THEN "cpu" ELSE g[s].device
  <2> HIDE DEF g, h, V
  <2> QED BY <1>3, <1>4, Zenon DEF Segment, Device
<1>6. h \in Store /\ DOMAIN h = DOMAIN g
  <2>1. DOMAIN g \in SUBSET Seg
    BY <1>1, StoreFacts, Zenon
  <2>2. h \in [DOMAIN g -> Segment]
    <3> HIDE DEF g, h, V
    <3> QED BY <1>3, <1>5, Zenon
  <2> HIDE DEF g, h
  <2> QED BY <2>1, <2>2, Zenon DEF Store
<1>7. On(h, "cuda") = C \ V /\ On(h, "cpu") = On(g, "cpu") \cup V
  <2> HIDE DEF g, h, V
  <2> QED BY <1>2, <1>5, <1>6, Zenon DEF On
<1>8. StrictTotalOrder(Offload(st).older, DOMAIN h)
  <2>1. Offload(st).older = MoveToEnd(o, DOMAIN g, V)
    BY Zenon DEF Offload
  <2> HIDE DEF g, h, V, o
  <2> QED BY <1>1, <1>2, <1>6, <2>1, MoveToEndOrder
<1> DEFINE n == Bytes(g, V)
<1>9. /\ Offload(st).deviceBytes = st.deviceBytes - n
      /\ Offload(st).hostBytes = st.hostBytes + n
  BY Zenon DEF Offload
<1>10. /\ Sized(g, C) /\ Sized(g, V) /\ Sized(g, On(g, "cpu"))
       /\ C \cap On(g, "cpu") = {}
  <2> HIDE DEF V
  <2> QED BY <1>1, <1>2, StoreFacts DEF On
<1> HIDE DEF g, h, V, o, C
<1>11. /\ n \in Nat /\ st.deviceBytes \in Nat
       /\ st.deviceBytes = Bytes(g, C)
       /\ st.hostBytes = Bytes(g, On(g, "cpu"))
  BY <1>1, <1>10, CellsFinite, Zenon DEF Exact, g, C
<1>12. Exact(Offload(st))
  <2>1. Bytes(h, C \ V) = Bytes(g, C \ V)
    BY <1>2, <1>5, BytesSame
  <2>2. Bytes(g, C \ V) = Bytes(g, C) - n
    BY <1>2, <1>10, BytesDiff, Zenon
  <2>3. Bytes(h, On(g, "cpu") \cup V) = Bytes(g, On(g, "cpu") \cup V)
    <3>1. On(g, "cpu") \cup V \subseteq DOMAIN g
      BY <1>2, Zenon DEF On
    <3> QED BY <1>5, <3>1, BytesSame
  <2>4. Bytes(g, On(g, "cpu") \cup V) = Bytes(g, On(g, "cpu")) + n
    BY <1>2, <1>10, BytesUnion
  <2> QED BY <1>7, <1>9, <1>11, <2>1, <2>2, <2>3, <2>4, Zenon DEF Exact, h
<1>13. ASSUME MaxDevice # None PROVE st.deviceBytes - n <= MaxDevice
  <2>1. MaxDevice \in Nat
    BY <1>13, LimitAssumption, Zenon
  <2>2. CASE C \ V = {}
    <3>1. C = V
      BY <1>2, <2>2, Zenon
    <3> QED BY <1>11, <2>1, <3>1
  <2>3. CASE C \ V # {}
    <3>1. IsFiniteSet(DOMAIN g) /\ C \ V \in SUBSET DOMAIN g
      BY <1>1, <1>2, StoreFacts, Zenon DEF Sized
    <3>2. PICK s \in C \ V : Before(o, C \ V, s) = {}
      BY <1>1, <2>3, <3>1, OldestExists, Zenon
    <3> DEFINE B == Before(o, C, s)
    <3>3. B \subseteq V
      BY <3>2, Zenon DEF Before
    <3>4. ~(st.deviceBytes - Bytes(g, B) > MaxDevice)
      BY <1>13, <3>2, Zenon DEF Offloaded, g, o, C, V
    <3>5. Bytes(g, B) <= n /\ Bytes(g, B) \in Nat
      <4> HIDE DEF B
      <4> QED BY <1>10, <3>3, BytesDiff, CellsFinite, Zenon
    <3> HIDE DEF B, n
    <3> QED BY <1>11, <2>1, <3>4, <3>5
  <2> QED BY <2>2, <2>3, Zenon
<1> QED BY <1>6, <1>8, <1>9, <1>12, <1>13, Zenon DEF Legal, h

\* Removing segments with their bytes keeps the totals exact.
LEMMA RemoveLegal ==
  ASSUME NEW st, Legal(st), NEW V \in SUBSET DOMAIN st.segments
  PROVE  /\ Legal(Remove(st, V))
         /\ Remove(st, V).deviceBytes \in Nat /\ st.deviceBytes \in Nat
         /\ Remove(st, V).hostBytes \in Nat /\ st.hostBytes \in Nat
         /\ Remove(st, V).deviceBytes <= st.deviceBytes
         /\ Remove(st, V).deviceBytes + Remove(st, V).hostBytes
              = st.deviceBytes + st.hostBytes - Bytes(st.segments, V)
<1> DEFINE g == st.segments
           h == Remove(st, V).segments
           VD == V \cap On(g, "cuda")
           VH == V \cap On(g, "cpu")
<1>1. g \in Store /\ StrictTotalOrder(st.older, DOMAIN g) /\ Exact(st)
  BY Zenon DEF Legal
<1>2. h = [s \in DOMAIN g \ V |-> g[s]]
  BY Zenon DEF Remove
<1>3. /\ DOMAIN g \subseteq Seg /\ \A s \in DOMAIN g : g[s] \in Segment
      /\ \A S \in SUBSET DOMAIN g : Sized(g, S)
      /\ On(g, "cuda") \cup On(g, "cpu") = DOMAIN g
      /\ On(g, "cuda") \cap On(g, "cpu") = {}
  BY <1>1, StoreFacts, Zenon
<1>4. h \in Store /\ DOMAIN h = DOMAIN g \ V /\ \A s \in DOMAIN h : h[s] = g[s]
  <2>1. h \in [DOMAIN g \ V -> Segment]
    <3> HIDE DEF g, h
    <3> QED BY <1>2, <1>3, Zenon
  <2>2. DOMAIN g \ V \in SUBSET Seg
    BY <1>3, Zenon
  <2> HIDE DEF g, h
  <2> QED BY <1>2, <2>1, <2>2, Zenon DEF Store
<1>5. StrictTotalOrder(Remove(st, V).older, DOMAIN h)
  <2>1. Remove(st, V).older
          = {p \in st.older : p[1] \notin V /\ p[2] \notin V}
    BY Zenon DEF Remove
  <2> HIDE DEF g, h
  <2> QED BY <1>1, <1>4, <2>1, Zenon DEF StrictTotalOrder
<1>6. On(h, "cuda") = On(g, "cuda") \ VD /\ On(h, "cpu") = On(g, "cpu") \ VH
  <2> HIDE DEF g, h
  <2> QED BY <1>4, Zenon DEF On
<1>7. /\ Remove(st, V).deviceBytes = st.deviceBytes - Bytes(g, VD)
      /\ Remove(st, V).hostBytes = st.hostBytes - Bytes(g, VH)
  BY Zenon DEF Remove
<1>8. /\ st.deviceBytes = Bytes(g, On(g, "cuda"))
      /\ st.hostBytes = Bytes(g, On(g, "cpu"))
  BY <1>1, Zenon DEF Exact
<1> HIDE DEF g, h
<1>9. /\ Sized(g, On(g, "cuda")) /\ Sized(g, On(g, "cpu"))
      /\ Sized(g, VD) /\ Sized(g, VH)
  BY <1>3 DEF On
<1>10. /\ Bytes(g, On(g, "cuda") \ VD) = Bytes(g, On(g, "cuda")) - Bytes(g, VD)
       /\ Bytes(g, VD) <= Bytes(g, On(g, "cuda"))
       /\ Bytes(g, On(g, "cpu") \ VH) = Bytes(g, On(g, "cpu")) - Bytes(g, VH)
       /\ Bytes(g, VH) <= Bytes(g, On(g, "cpu"))
  BY <1>9, BytesDiff, Zenon
<1>11. /\ Bytes(h, On(h, "cuda")) = Bytes(g, On(h, "cuda"))
       /\ Bytes(h, On(h, "cpu")) = Bytes(g, On(h, "cpu"))
  BY <1>4, BytesSame DEF On
<1>12. Exact(Remove(st, V))
  BY <1>6, <1>7, <1>8, <1>10, <1>11, Zenon DEF Exact, h
<1>13. /\ Bytes(g, VD) \in Nat /\ Bytes(g, VH) \in Nat
       /\ Bytes(g, On(g, "cuda")) \in Nat /\ Bytes(g, On(g, "cpu")) \in Nat
  BY <1>9, CellsFinite, Zenon
<1>14. Bytes(g, V) = Bytes(g, VD) + Bytes(g, VH)
  <2>1. V = VD \cup VH /\ VD \cap VH = {}
    BY <1>3, Zenon DEF g
  <2> QED BY <1>9, <2>1, BytesUnion
<1>15. Legal(Remove(st, V))
  BY <1>4, <1>5, <1>12, Zenon DEF Legal, h
<1>16. st.segments = g
  BY Zenon DEF g
<1> HIDE DEF VD, VH
<1> QED BY <1>7, <1>8, <1>10, <1>13, <1>14, <1>15, <1>16

Within(st) ==
  /\ MaxDevice # None => st.deviceBytes <= MaxDevice
  /\ MaxHost # None => st.deviceBytes + st.hostBytes <= Ceiling

\* The second loop of _enforce_limits ends with both tiers within both
\* ceilings, so from any state with exact totals _enforce_limits reaches one
\* with exact totals within the limits.
LEMMA EnforceLegal ==
  ASSUME NEW st, Legal(st)
  PROVE  Legal(EnforceLimits(st)) /\ Within(EnforceLimits(st))
<1> DEFINE s1 == Offload(st)
           V == Evicted(s1)
           g == s1.segments
           R == DOMAIN g
           s2 == Remove(s1, V)
<1>1. Legal(s1) /\ (MaxDevice # None => s1.deviceBytes <= MaxDevice)
  BY OffloadLegal, Zenon
<1>2. EnforceLimits(st) = s2
  BY Zenon DEF EnforceLimits
<1>3. V \in SUBSET R
  BY Zenon DEF Evicted
<1> HIDE DEF s1, V
<1>4. /\ Legal(s2)
      /\ s2.deviceBytes \in Nat /\ s1.deviceBytes \in Nat
      /\ s2.hostBytes \in Nat /\ s1.hostBytes \in Nat
      /\ s2.deviceBytes <= s1.deviceBytes
      /\ s2.deviceBytes + s2.hostBytes
           = s1.deviceBytes + s1.hostBytes - Bytes(g, V)
  BY <1>1, <1>3, RemoveLegal, Zenon
<1>5. ASSUME MaxDevice # None PROVE s2.deviceBytes <= MaxDevice
  <2>1. MaxDevice \in Nat
    BY <1>5, LimitAssumption, Zenon
  <2> HIDE DEF s2
  <2> QED BY <1>1, <1>4, <1>5, <2>1
<1>6. ASSUME MaxHost # None PROVE s2.deviceBytes + s2.hostBytes <= Ceiling
  <2>1. Ceiling \in Nat
    BY <1>6, LimitAssumption DEF Ceiling
  <2>2. /\ g \in Store /\ StrictTotalOrder(s1.older, R) /\ Exact(s1)
    BY <1>1, Zenon DEF Legal
  <2>3. Sized(g, R) /\ Sized(g, V)
    BY <1>3, <2>2, StoreFacts, Zenon
  <2>4. s1.deviceBytes + s1.hostBytes = Bytes(g, R)
    <3>1. /\ Sized(g, On(g, "cuda")) /\ Sized(g, On(g, "cpu"))
          /\ On(g, "cuda") \cup On(g, "cpu") = R
          /\ On(g, "cuda") \cap On(g, "cpu") = {}
      BY <2>2, StoreFacts, Zenon DEF On
    <3>2. Bytes(g, R) = Bytes(g, On(g, "cuda")) + Bytes(g, On(g, "cpu"))
      BY <3>1, BytesUnion
    <3> QED BY <2>2, <3>2, Zenon DEF Exact
  <2>5. CASE R \ V = {}
    <3>1. R = V
      BY <1>3, <2>5, Zenon
    <3>2. Bytes(g, R) \in Nat
      BY <2>3, CellsFinite, Zenon
    <3>3. s2.deviceBytes + s2.hostBytes = Bytes(g, R) - Bytes(g, R)
      BY <1>4, <2>4, <3>1
    <3> HIDE DEF s2, g, R
    <3> QED BY <2>1, <3>2, <3>3
  <2>6. CASE R \ V # {}
    <3>1. IsFiniteSet(R) /\ R \ V \in SUBSET R
      BY <2>3, Zenon DEF Sized
    <3>2. PICK s \in R \ V : Before(s1.older, R \ V, s) = {}
      BY <2>2, <2>6, <3>1, OldestExists, Zenon
    <3> DEFINE B == Before(s1.older, R, s)
    <3>3. B \subseteq V
      BY <3>2, Zenon DEF Before
    <3>4. ~(s1.deviceBytes + s1.hostBytes - Bytes(g, B) > Ceiling)
      BY <1>6, <3>2, Zenon DEF Evicted, V
    <3>5. Bytes(g, B) <= Bytes(g, V) /\ Bytes(g, B) \in Nat /\ Bytes(g, V) \in Nat
      <4> HIDE DEF B
      <4> QED BY <2>3, <3>3, BytesDiff, CellsFinite, Zenon
    <3> HIDE DEF B, s2, g, R
    <3> QED BY <1>4, <2>1, <3>4, <3>5
  <2> QED BY <2>5, <2>6, Zenon
<1> QED BY <1>2, <1>4, <1>5, <1>6, Zenon DEF Within

-----------------------------------------------------------------------------
(* The inductive invariant and the operations.                             *)

Inv == TypeOK /\ AccountingExact /\ WithinLimits

\* The invariant, as a fact about the record of the variables.
LEMMA InvIsLegal == Inv => Legal(Current) /\ Within(Current)
BY Zenon DEF Inv, TypeOK, AccountingExact, WithinLimits, Legal, Exact, Within, Current

\* An operation that ends in a legal state within the limits keeps it.
LEMMA BecomeInv ==
  ASSUME NEW st, Legal(st), Within(st), Become(st)
  PROVE  Inv'
<1>1. st.segments \in Store /\ Exact(st)
  BY Zenon DEF Legal
<1>2. st.deviceBytes \in Int /\ st.hostBytes \in Int
  <2>1. /\ Bytes(st.segments, On(st.segments, "cuda")) \in Nat
        /\ Bytes(st.segments, On(st.segments, "cpu")) \in Nat
    BY <1>1, StoreFacts, Zenon
  <2> QED BY <1>1, <2>1 DEF Exact
<1>3. TypeOK'
  BY <1>1, <1>2, Zenon DEF Legal, Become, TypeOK
<1>4. AccountingExact'
  BY <1>1, Zenon DEF Exact, Become, AccountingExact
<1>5. WithinLimits'
  BY Zenon DEF Within, Become, WithinLimits
<1> QED BY <1>3, <1>4, <1>5, Zenon DEF Inv

\* get, and put or to_device of a segment that is already in place
LEMMA PromoteInv ==
  ASSUME Inv, NEW s \in DOMAIN segments, Promote(s)
  PROVE  Inv'
<1>1. StrictTotalOrder(older, DOMAIN segments)
  BY Zenon DEF Inv, TypeOK
<1>2. StrictTotalOrder(MoveToEnd(older, DOMAIN segments, {s}), DOMAIN segments)
  BY <1>1, MoveToEndOrder, Zenon
<1>3. TypeOK'
  BY <1>2, Zenon DEF Inv, TypeOK, Promote
<1>4. AccountingExact' /\ WithinLimits'
  BY Zenon DEF Inv, AccountingExact, WithinLimits, Promote
<1> QED BY <1>3, <1>4, Zenon DEF Inv

\* put up to its call of _enforce_limits
LEMMA InsertedLegal ==
  ASSUME Inv, NEW s \in Seg, s \notin DOMAIN segments,
         NEW d \in Device, NEW n \in Sizes
  PROVE  Legal(Inserted(s, d, n))
<1> DEFINE st == Inserted(s, d, n)
           h == st.segments
           g == segments
           R == DOMAIN segments
<1>1. g \in Store /\ StrictTotalOrder(older, R) /\ Exact(Current)
  BY InvIsLegal, Zenon DEF Legal, Current
<1>2. n \in Nat
  BY SizesAssumption, Zenon
<1>3. h = [t \in R \cup {s} |-> IF t = s THEN [device |-> d, nbytes |-> n]
                                ELSE g[t]]
  BY Zenon DEF Inserted
<1>4. /\ R \subseteq Seg /\ \A t \in R : g[t] \in Segment
      /\ Sized(g, On(g, "cuda")) /\ Sized(g, On(g, "cpu"))
      /\ \A S \in SUBSET R : Sized(g, S)
  BY <1>1, StoreFacts, Zenon DEF On
<1> HIDE DEF h, g
<1>5. h \in [R \cup {s} -> Segment]
  BY <1>3, <1>4, Zenon DEF Segment, g
<1>6. h \in Store /\ DOMAIN h = R \cup {s}
  BY <1>4, <1>5, Zenon DEF Store
<1>7. StrictTotalOrder(st.older, DOMAIN h)
  <2>1. st.older = older \cup (R \X {s})
    BY Zenon DEF Inserted
  <2> HIDE DEF st
  <2>2. \A a, b \in R \cup {s} :
          <<a, b>> \in st.older <=> \/ a \in R /\ b \in R /\ <<a, b>> \in older
                                    \/ a \in R /\ b = s
    BY <1>1, <2>1, Zenon DEF StrictTotalOrder
  <2>3. st.older \subseteq (R \cup {s}) \X (R \cup {s})
    BY <1>1, <2>1, Zenon DEF StrictTotalOrder
  <2> QED BY <1>1, <1>6, <2>2, <2>3, Zenon DEF StrictTotalOrder
<1>8. /\ h[s].nbytes = n /\ h[s].device = d
      /\ \A t \in R : h[t] = g[t]
  BY <1>3, Zenon
<1>9. On(h, d) = On(g, d) \cup {s} /\ On(g, d) \cap {s} = {}
  BY <1>6, <1>8, Zenon DEF On, g
<1>10. \A e \in Device \ {d} : On(h, e) = On(g, e)
  BY <1>6, <1>8, Zenon DEF On, g
<1>11. \A e \in Device : Bytes(h, On(g, e)) = Bytes(g, On(g, e))
  BY <1>8, BytesSame DEF On, g
<1>12. Bytes(h, On(h, d)) = Bytes(g, On(g, d)) + n
  <2>1. Sized(h, On(g, d)) /\ Sized(h, {s})
    <3>1. IsFiniteSet({s})
      BY FS_Singleton, Zenon
    <3>2. Sized(g, On(g, d)) /\ On(g, d) \subseteq R
      BY <1>4, Zenon DEF On, g
    <3> QED BY <1>2, <1>8, <3>1, <3>2, Zenon DEF Sized
  <2>2. Bytes(h, {s}) = n
    BY <1>2, <1>8, BytesBase, Zenon
  <2> QED BY <1>9, <1>11, <2>1, <2>2, BytesUnion
<1>13. /\ st.deviceBytes = IF d = "cuda" THEN deviceBytes + n ELSE deviceBytes
       /\ st.hostBytes = IF d = "cuda" THEN hostBytes ELSE hostBytes + n
  BY Zenon DEF Inserted
<1>14. /\ deviceBytes = Bytes(g, On(g, "cuda"))
       /\ hostBytes = Bytes(g, On(g, "cpu"))
  BY <1>1, Zenon DEF Exact, Current, g
<1>15. Exact(st)
  <2>1. CASE d = "cuda"
    BY <1>10, <1>11, <1>12, <1>13, <1>14, <2>1, Zenon DEF Exact, Device, h
  <2>2. CASE d = "cpu"
    BY <1>10, <1>11, <1>12, <1>13, <1>14, <2>2, Zenon DEF Exact, Device, h
  <2> QED BY <2>1, <2>2, Zenon DEF Device
<1> QED BY <1>6, <1>7, <1>15, Zenon DEF Legal, h

\* to_device up to its call of _enforce_limits
LEMMA MovedLegal ==
  ASSUME Inv, NEW s \in DOMAIN segments, NEW d \in Device,
         segments[s].device # d
  PROVE  Legal(Moved(s, d))
<1> DEFINE st == Moved(s, d)
           h == st.segments
           g == segments
           R == DOMAIN segments
           n == segments[s].nbytes
<1>1. g \in Store /\ StrictTotalOrder(older, R) /\ Exact(Current)
  BY InvIsLegal, Zenon DEF Legal, Current
<1>2. /\ R \subseteq Seg
      /\ \A t \in R : g[t] \in Segment /\ g[t].nbytes \in Nat
      /\ Sized(g, On(g, "cuda")) /\ Sized(g, On(g, "cpu")) /\ Sized(g, {s})
      /\ g = [t \in R |-> g[t]]
  <2>1. {s} \in SUBSET R /\ On(g, "cuda") \in SUBSET R
        /\ On(g, "cpu") \in SUBSET R
    BY Zenon DEF On
  <2>2. \A S \in SUBSET R : Sized(g, S)
    BY <1>1, StoreFacts, Zenon
  <2>3. /\ R \subseteq Seg /\ g = [t \in R |-> g[t]]
        /\ \A t \in R : g[t] \in Segment /\ g[t].nbytes \in Nat
    BY <1>1, StoreFacts, Zenon
  <2> QED BY <2>1, <2>2, <2>3, Zenon
<1>3. h = [g EXCEPT ![s].device = d]
  BY Zenon DEF Moved
<1>4. PICK e \in Device : e # d /\ g[s].device = e
  BY <1>2, Zenon DEF Segment
<1> HIDE DEF h, g
<1>5. /\ h \in [R -> Segment]
      /\ \A t \in R : h[t].nbytes = g[t].nbytes
      /\ h[s].device = d
      /\ \A t \in R \ {s} : h[t] = g[t]
  <2>1. DOMAIN g = R
    BY Zenon DEF g
  <2>2. h = [t \in R |-> IF t = s THEN [g[s] EXCEPT !.device = d] ELSE g[t]]
    BY <1>2, <1>3, <2>1, Zenon
  <2> QED BY <1>2, <2>2, Zenon DEF Segment
<1>6. h \in Store /\ DOMAIN h = R /\ DOMAIN g = R
  BY <1>2, <1>5, Zenon DEF Store, g
<1>7. StrictTotalOrder(st.older, DOMAIN h)
  <2>1. st.older = MoveToEnd(older, R, {s})
    BY Zenon DEF Moved
  <2> QED BY <1>1, <1>6, <2>1, MoveToEndOrder
<1>8. /\ On(h, d) = On(g, d) \cup {s} /\ On(g, d) \cap {s} = {}
      /\ On(h, e) = On(g, e) \ {s} /\ {s} \subseteq On(g, e)
  BY <1>4, <1>5, <1>6, Zenon DEF On
<1>9. \A S \in SUBSET R : Bytes(h, S) = Bytes(g, S)
  BY <1>5, BytesSame, Zenon
<1>10. Bytes(g, {s}) = n
  BY <1>2, BytesBase, Zenon DEF g
<1>11. /\ Bytes(h, On(h, d)) = Bytes(g, On(g, d)) + n
       /\ Bytes(h, On(h, e)) = Bytes(g, On(g, e)) - n
  <2>1. Sized(g, On(g, d)) /\ Sized(g, On(g, e))
    BY <1>2, <1>4, Zenon DEF Device
  <2>2. Bytes(g, On(g, d) \cup {s}) = Bytes(g, On(g, d)) + n
    BY <1>2, <1>8, <1>10, <2>1, BytesUnion
  <2>3. Bytes(g, On(g, e) \ {s}) = Bytes(g, On(g, e)) - n
    BY <1>8, <1>10, <2>1, BytesDiff
  <2>4. On(h, d) \in SUBSET R /\ On(h, e) \in SUBSET R
    BY <1>6, Zenon DEF On
  <2> QED BY <1>8, <1>9, <2>2, <2>3, <2>4, Zenon
<1>12. /\ st.deviceBytes = IF d = "cuda" THEN deviceBytes + n ELSE deviceBytes - n
       /\ st.hostBytes = IF d = "cuda" THEN hostBytes - n ELSE hostBytes + n
  BY Zenon DEF Moved
<1>13. /\ deviceBytes = Bytes(g, On(g, "cuda"))
       /\ hostBytes = Bytes(g, On(g, "cpu"))
  BY <1>1, Zenon DEF Exact, Current, g
<1>14. Exact(st)
  <2>1. CASE d = "cuda"
    <3>1. e = "cpu"
      BY <1>4, <2>1, Zenon DEF Device
    <3> QED BY <1>11, <1>12, <1>13, <2>1, <3>1, Zenon DEF Exact, h
  <2>2. CASE d = "cpu"
    <3>1. e = "cuda"
      BY <1>4, <2>2, Zenon DEF Device
    <3> QED BY <1>11, <1>12, <1>13, <2>2, <3>1, Zenon DEF Exact, h
  <2> QED BY <2>1, <2>2, Zenon DEF Device
<1> QED BY <1>6, <1>7, <1>14, Zenon DEF Legal, h

\* The cache of __init__ and clear is well formed and within any ceiling.
LEMMA EmptyInv ==
  ASSUME NEW st, st.segments = [s \in {} |-> [device |-> "cpu", nbytes |-> 0]],
         st.older = {}, st.deviceBytes = 0, st.hostBytes = 0
  PROVE  Legal(st) /\ Within(st)
<1>1. st.segments \in Store /\ DOMAIN st.segments = {}
  BY DEF Store
<1>2. StrictTotalOrder(st.older, DOMAIN st.segments)
  BY <1>1, Zenon DEF StrictTotalOrder
<1>3. On(st.segments, "cuda") = {} /\ On(st.segments, "cpu") = {}
  BY <1>1, Zenon DEF On
<1>4. Exact(st)
  BY <1>3, BytesBase, Zenon DEF Exact
<1>5. Within(st)
  BY LimitAssumption DEF Within, Ceiling
<1> QED BY <1>1, <1>2, <1>4, <1>5, Zenon DEF Legal

\* Each operation keeps the invariant.
LEMMA NextInv == Inv /\ [Next]_vars => Inv'
<1> SUFFICES ASSUME Inv, [Next]_vars PROVE Inv'
  OBVIOUS
<1>0. DOMAIN segments \subseteq Seg
  <2>1. segments \in Store
    BY Zenon DEF Inv, TypeOK
  <2> QED BY <2>1, StoreFacts, Zenon
<1>1. ASSUME NEW s \in Seg, Get(s) PROVE Inv'
  BY <1>1, PromoteInv, Zenon DEF Get
<1>2. ASSUME NEW s \in Seg, Drop(s) PROVE Inv'
  <2> DEFINE st == Remove(Current, {s})
  <2>1. Legal(Current) /\ Within(Current)
    BY InvIsLegal, Zenon
  <2>2. {s} \in SUBSET DOMAIN Current.segments
    BY <1>2, Zenon DEF Drop, Current
  <2>3. /\ Legal(st)
        /\ st.deviceBytes \in Nat /\ Current.deviceBytes \in Nat
        /\ st.hostBytes \in Nat /\ Current.hostBytes \in Nat
        /\ st.deviceBytes <= Current.deviceBytes
        /\ st.deviceBytes + st.hostBytes
             = Current.deviceBytes + Current.hostBytes
                 - Bytes(Current.segments, {s})
    BY <2>1, <2>2, RemoveLegal, Zenon
  <2>4. Bytes(Current.segments, {s}) \in Nat
    <3>1. Current.segments \in Store
      BY <2>1, Zenon DEF Legal
    <3> QED BY <2>2, <3>1, StoreFacts, CellsFinite, Zenon
  <2>5. Within(st)
    <3>1. MaxDevice # None => MaxDevice \in Nat
      BY LimitAssumption, Zenon
    <3>2. MaxHost # None => Ceiling \in Nat
      BY LimitAssumption DEF Ceiling
    <3> HIDE DEF st
    <3> QED BY <2>1, <2>3, <2>4, <3>1, <3>2 DEF Within
  <2>6. Become(st)
    BY <1>2, Zenon DEF Drop
  <2> HIDE DEF st
  <2> QED BY <2>3, <2>5, <2>6, BecomeInv, Zenon
<1>3. ASSUME NEW s \in Seg, NEW d \in Device, ToDevice(s, d) PROVE Inv'
  <2>1. s \in DOMAIN segments
    BY <1>3, Zenon DEF ToDevice
  <2>2. CASE segments[s].device = d
    BY <1>3, <2>1, <2>2, PromoteInv, Zenon DEF ToDevice
  <2>3. CASE segments[s].device # d
    <3>1. Legal(Moved(s, d))
      BY <2>1, <2>3, MovedLegal, Zenon
    <3>2. Become(EnforceLimits(Moved(s, d)))
      BY <1>3, <2>3, Zenon DEF ToDevice
    <3> QED BY <3>1, <3>2, EnforceLegal, BecomeInv, Zenon
  <2> QED BY <2>2, <2>3, Zenon
<1>4. ASSUME NEW s \in Seg, NEW d \in Device, NEW n \in Sizes, Put(s, d, n)
      PROVE  Inv'
  <2>1. CASE s \in DOMAIN segments
    BY <1>4, <2>1, PromoteInv, Zenon DEF Put
  <2>2. CASE s \notin DOMAIN segments
    <3>1. Legal(Inserted(s, d, n))
      BY <2>2, InsertedLegal, Zenon
    <3>2. Become(EnforceLimits(Inserted(s, d, n)))
      BY <1>4, <2>2, Zenon DEF Put
    <3> QED BY <3>1, <3>2, EnforceLegal, BecomeInv, Zenon
  <2> QED BY <2>1, <2>2, Zenon
<1>5. ASSUME Clear PROVE Inv'
  <2> DEFINE st == [segments |-> [s \in {} |-> [device |-> "cpu", nbytes |-> 0]],
                    older |-> {}, deviceBytes |-> 0, hostBytes |-> 0]
  <2>1. Legal(st) /\ Within(st)
    BY EmptyInv, Zenon
  <2>2. Become(st)
    BY <1>5, Zenon DEF Clear, Become
  <2> HIDE DEF st
  <2> QED BY <2>1, <2>2, BecomeInv, Zenon
<1>6. ASSUME UNCHANGED vars PROVE Inv'
  BY <1>6, Zenon DEF vars, Inv, TypeOK, AccountingExact, WithinLimits
<1> QED BY <1>1, <1>2, <1>3, <1>4, <1>5, <1>6, Zenon DEF Next

\* The empty cache has the invariant.
LEMMA InitInv == Init => Inv
<1> SUFFICES ASSUME Init PROVE Inv
  OBVIOUS
<1>1. Legal(Current) /\ Within(Current)
  BY EmptyInv, Zenon DEF Init, Current
<1> QED BY <1>1 DEF Init, Inv, TypeOK, AccountingExact, WithinLimits, Legal,
                    Exact, Within, Current

\* The invariant holds in every reachable state.
LEMMA CacheInv == Spec => []Inv
BY InitInv, NextInv, PTL DEF Spec

\* For every set of segments and sizes and every pair of ceilings (set or
\* None), the totals of the cache are exact and within the ceilings after
\* every operation.
THEOREM CacheSafe == Spec => [](TypeOK /\ AccountingExact /\ WithinLimits)
<1>1. Inv => TypeOK /\ AccountingExact /\ WithinLimits
  BY Zenon DEF Inv
<1> QED BY <1>1, CacheInv, PTL

-----------------------------------------------------------------------------
(* What _enforce_limits takes                                              *)

\* The bytes of some of the keys are a number, and no more than those of more.
LEMMA BytesOfKeys ==
  ASSUME NEW g \in Store, NEW S \in SUBSET DOMAIN g, NEW T \in SUBSET S
  PROVE  /\ Bytes(g, S) \in Nat /\ Bytes(g, T) \in Nat /\ Bytes(g, T) <= Bytes(g, S)
         /\ Bytes(g, S \ T) = Bytes(g, S) - Bytes(g, T)
<1>1. Sized(g, S) /\ Sized(g, T)
  BY StoreFacts, Zenon
<1> QED BY <1>1, BytesDiff, CellsFinite, Zenon

\* Within the ceilings _enforce_limits changes nothing.
LEMMA EnforceIdle ==
  ASSUME NEW st, Legal(st), Within(st)
  PROVE  EnforceLimits(st).segments = st.segments
<1> DEFINE g == st.segments
           s1 == Offload(st)
<1>1. /\ g \in Store /\ g = [s \in DOMAIN g |-> g[s]]
      /\ st.deviceBytes \in Nat /\ st.hostBytes \in Nat
  BY StoreFacts, ZenonT(60) DEF Legal, Exact
<1>2. Offloaded(st) = {}
  <2> SUFFICES ASSUME MaxDevice # None, NEW s \in On(g, "cuda"),
                      st.deviceBytes - Bytes(g, Before(st.older, On(g, "cuda"), s)) > MaxDevice
               PROVE  FALSE
    BY Zenon DEF Offloaded
  <2>1. Bytes(g, Before(st.older, On(g, "cuda"), s)) \in Nat
    <3>1. Before(st.older, On(g, "cuda"), s) \in SUBSET DOMAIN g
      BY Zenon DEF Before, On
    <3> QED BY <1>1, <3>1, BytesOfKeys, Zenon
  <2>2. MaxDevice \in Nat /\ st.deviceBytes <= MaxDevice
    BY LimitAssumption, Zenon DEF Within
  <2> QED BY <1>1, <2>1, <2>2
<1>3. /\ s1.segments = g
      /\ s1.deviceBytes = st.deviceBytes /\ s1.hostBytes = st.hostBytes
  <2>1. Bytes(g, {}) = 0
    BY BytesBase, Zenon
  <2>2. /\ s1.segments = [s \in DOMAIN g |-> g[s]]
        /\ s1.deviceBytes = st.deviceBytes - Bytes(g, {})
        /\ s1.hostBytes = st.hostBytes + Bytes(g, {})
    BY <1>2, Zenon DEF Offload
  <2> HIDE DEF g, s1
  <2> QED BY <1>1, <2>1, <2>2
<1> HIDE DEF s1
<1>4. Evicted(s1) = {}
  <2> SUFFICES ASSUME MaxHost # None, NEW s \in DOMAIN g,
                      st.deviceBytes + st.hostBytes
                        - Bytes(g, Before(s1.older, DOMAIN g, s)) > Ceiling
               PROVE  FALSE
    BY <1>3, Zenon DEF Evicted
  <2>1. Bytes(g, Before(s1.older, DOMAIN g, s)) \in Nat
    <3>1. Before(s1.older, DOMAIN g, s) \in SUBSET DOMAIN g
      BY Zenon DEF Before
    <3> QED BY <1>1, <3>1, BytesOfKeys, Zenon
  <2>2. Ceiling \in Nat /\ st.deviceBytes + st.hostBytes <= Ceiling
    BY LimitAssumption DEF Within, Ceiling
  <2> QED BY <1>1, <2>1, <2>2
<1>5. EnforceLimits(st).segments = [s \in DOMAIN g \ {} |-> g[s]]
  BY <1>3, <1>4, Zenon DEF EnforceLimits, Remove, s1
<1>6. DOMAIN g \ {} = DOMAIN g
  OBVIOUS
<1> QED BY <1>1, <1>5, <1>6, Zenon

\* The segments that _enforce_limits removes come before those it keeps, in the
\* order after the offloads; what it keeps has its size, and its place unless it
\* was offloaded.
LEMMA EnforceOrder ==
  ASSUME NEW st, Legal(st)
  PROVE  LET g == st.segments
             h == EnforceLimits(st).segments
         IN  /\ DOMAIN h \subseteq DOMAIN g
             /\ \A s \in DOMAIN h : /\ h[s].nbytes = g[s].nbytes
                                    /\ \/ h[s] = g[s]
                                       \/ g[s].device = "cuda" /\ h[s].device = "cpu"
             /\ \A a \in DOMAIN h, b \in DOMAIN g \ DOMAIN h :
                  <<a, b>> \in st.older => g[a].device = "cuda" /\ h[a].device = "cpu"
<1> DEFINE g == st.segments
           s1 == Offload(st)
           V == Offloaded(st)
           W == Evicted(s1)
           h == EnforceLimits(st).segments
           R == DOMAIN g
<1>1. /\ g \in Store /\ StrictTotalOrder(st.older, R)
      /\ \A s \in R : g[s] \in Segment
  BY StoreFacts, Zenon DEF Legal
<1>2. /\ s1.segments \in Store /\ StrictTotalOrder(s1.older, DOMAIN s1.segments)
      /\ s1.deviceBytes \in Nat /\ s1.hostBytes \in Nat
  <2>1. Legal(s1)
    BY OffloadLegal, Zenon
  <2> HIDE DEF s1
  <2>2. s1.segments \in Store /\ StrictTotalOrder(s1.older, DOMAIN s1.segments) /\ Exact(s1)
    BY <2>1, Zenon DEF Legal
  <2> QED BY <2>2, StoreFacts, Zenon DEF Exact
<1>3. V \subseteq R /\ \A s \in V : g[s].device = "cuda"
  BY Zenon DEF Offloaded, On
<1>4. /\ s1.segments = [s \in R |-> IF s \in V THEN [g[s] EXCEPT !.device = "cpu"] ELSE g[s]]
      /\ s1.older = MoveToEnd(st.older, R, V)
  BY Zenon DEF Offload
<1>5. W \subseteq DOMAIN s1.segments
  BY Zenon DEF Evicted
<1>6. h = [s \in DOMAIN s1.segments \ W |-> s1.segments[s]]
  BY Zenon DEF EnforceLimits, Remove
<1>7. ASSUME NEW a \in DOMAIN s1.segments, NEW b \in W, <<a, b>> \in s1.older PROVE a \in W
  <2> DEFINE G == s1.segments
             A == Before(s1.older, DOMAIN G, a)
             B == Before(s1.older, DOMAIN G, b)
  <2>1. A \subseteq B /\ B \in SUBSET DOMAIN G
    BY <1>2, <1>5, <1>7, Zenon DEF Before, StrictTotalOrder
  <2>2. Bytes(G, A) \in Nat /\ Bytes(G, B) \in Nat /\ Bytes(G, A) <= Bytes(G, B)
    <3> HIDE DEF A, B, G
    <3>1. G \in Store
      BY <1>2, Zenon DEF G
    <3> QED BY <2>1, <3>1, BytesOfKeys, Zenon
  <2>3. MaxHost # None /\ s1.deviceBytes + s1.hostBytes - Bytes(G, B) > Ceiling
    BY <1>7, Zenon DEF Evicted
  <2>4. Ceiling \in Nat
    BY <2>3, LimitAssumption DEF Ceiling
  <2>5. s1.deviceBytes + s1.hostBytes - Bytes(G, A) > Ceiling
    <3> HIDE DEF A, B, G, s1
    <3> QED BY <1>2, <2>2, <2>3, <2>4
  <2> QED BY <2>3, <2>5, Zenon DEF Evicted
<1> HIDE DEF g, s1, V, W, h
<1>8. DOMAIN h = R \ W /\ DOMAIN s1.segments = R
  BY <1>4, <1>6, Zenon
<1>9. ASSUME NEW s \in DOMAIN h
      PROVE  /\ h[s].nbytes = g[s].nbytes
             /\ s \notin V => h[s] = g[s]
             /\ s \in V => g[s].device = "cuda" /\ h[s].device = "cpu"
  <2>1. h[s] = IF s \in V THEN [g[s] EXCEPT !.device = "cpu"] ELSE g[s]
    BY <1>4, <1>6, <1>8, Zenon
  <2>2. g[s] \in Segment
    BY <1>1, <1>8, Zenon
  <2> QED BY <1>3, <2>1, <2>2, Zenon DEF Segment
<1>10. ASSUME NEW a \in DOMAIN h, NEW b \in R \ DOMAIN h, <<a, b>> \in st.older, a \notin V
       PROVE  FALSE
  <2>1. <<a, b>> \in s1.older
    BY <1>4, <1>10, Zenon DEF MoveToEnd
  <2>2. b \in W /\ a \in R /\ a \notin W
    BY <1>8, Zenon
  <2> QED BY <1>7, <1>8, <2>1, <2>2, Zenon
<1> QED BY <1>8, <1>9, <1>10, Zenon DEF g, h, R

-----------------------------------------------------------------------------
(* What an operation may do to the segments it was not called for          *)

\* A put that fits leaves every segment where it is.
LEMMA PutFits ==
  ASSUME Inv, NEW s \in Seg, NEW d \in Device, NEW n \in Sizes, Put(s, d, n),
         d = "cuda" /\ MaxDevice # None => deviceBytes + n <= MaxDevice,
         MaxHost # None => deviceBytes + hostBytes + n <= Ceiling
  PROVE  /\ s \in DOMAIN segments'
         /\ s \in DOMAIN segments \/ segments'[s] = [device |-> d, nbytes |-> n]
         /\ \A t \in DOMAIN segments : t \in DOMAIN segments' /\ segments'[t] = segments[t]
<1>1. CASE s \in DOMAIN segments
  BY <1>1, Zenon DEF Put, Promote
<1>2. CASE s \notin DOMAIN segments
  <2> DEFINE st == Inserted(s, d, n)
  <2>1. Legal(st) /\ n \in Nat
    BY <1>2, InsertedLegal, SizesAssumption, Zenon
  <2>2. deviceBytes \in Int /\ hostBytes \in Int /\ WithinLimits
    BY Zenon DEF Inv, TypeOK
  <2>3. Within(st)
    <3>1. /\ st.deviceBytes = (IF d = "cuda" THEN deviceBytes + n ELSE deviceBytes)
          /\ st.hostBytes = (IF d = "cuda" THEN hostBytes ELSE hostBytes + n)
      BY Zenon DEF Inserted
    <3>2. MaxDevice # None => st.deviceBytes <= MaxDevice
      BY <2>2, <3>1, Zenon DEF WithinLimits
    <3>3. st.deviceBytes + st.hostBytes = deviceBytes + hostBytes + n
      <4> HIDE DEF st
      <4> QED BY <2>1, <2>2, <3>1
    <3> QED BY <3>2, <3>3, Zenon DEF Within
  <2>4. segments' = st.segments
    <3>1. EnforceLimits(st).segments = st.segments
      <4> HIDE DEF st
      <4> QED BY <2>1, <2>3, EnforceIdle, Zenon
    <3>2. segments' = EnforceLimits(st).segments
      BY <1>2, Zenon DEF Put, Become
    <3> QED BY <3>1, <3>2, Zenon
  <2> QED BY <1>2, <2>4, Zenon DEF Inserted
<1> QED BY <1>1, <1>2, Zenon

\* A put that fits under both ceilings leaves every segment where it is, and its own
\* where it was put (put, _enforce_limits).
THEOREM FittingPut == Spec => PutThatFitsDisturbsNothing
<1>1. ASSUME Inv
      PROVE  \A s \in Seg, d \in Device, n \in Sizes :
               /\ Put(s, d, n)
               /\ d = "cuda" /\ MaxDevice # None => deviceBytes + n <= MaxDevice
               /\ MaxHost # None => deviceBytes + hostBytes + n <= Ceiling
               => /\ s \in DOMAIN segments'
                  /\ s \in DOMAIN segments
                       \/ segments'[s] = [device |-> d, nbytes |-> n]
                  /\ \A t \in DOMAIN segments :
                       t \in DOMAIN segments' /\ segments'[t] = segments[t]
  BY <1>1, PutFits, Zenon
<1> QED BY <1>1, CacheInv, PTL DEF PutThatFitsDisturbsNothing

\* What put removes is older than what it keeps and does not offload; it removes the
\* segment it was called for only when it offloads all that it keeps.
LEMMA PutOrder ==
  ASSUME Inv, NEW s \in Seg, NEW d \in Device, NEW n \in Sizes, Put(s, d, n)
  PROVE  /\ \A b \in Gone, a \in DOMAIN segments \cap DOMAIN segments' :
              <<a, b>> \in older => a \in Demoted
         /\ s \notin DOMAIN segments' => DOMAIN segments' \subseteq Demoted
<1>1. CASE s \in DOMAIN segments
  BY <1>1, Zenon DEF Put, Promote, Gone
<1>2. CASE s \notin DOMAIN segments
  <2> DEFINE st == Inserted(s, d, n)
             g == st.segments
             h == EnforceLimits(st).segments
  <2>1. Legal(st)
    BY <1>2, InsertedLegal, Zenon
  <2>2. segments' = h
    BY <1>2, Zenon DEF Put, Become
  <2>3. /\ DOMAIN g = DOMAIN segments \cup {s}
        /\ \A t \in DOMAIN segments : g[t] = segments[t]
        /\ st.older = older \cup ((DOMAIN segments) \X {s})
    BY <1>2, Zenon DEF Inserted
  <2>4. /\ DOMAIN h \subseteq DOMAIN g
        /\ \A a \in DOMAIN h, b \in DOMAIN g \ DOMAIN h :
             <<a, b>> \in st.older => g[a].device = "cuda" /\ h[a].device = "cpu"
    <3> HIDE DEF st
    <3> QED BY <2>1, EnforceOrder, Zenon
  <2> HIDE DEF st, g, h
  <2>5. ASSUME NEW a \in DOMAIN segments \cap DOMAIN segments', NEW b \in DOMAIN g \ DOMAIN h,
               <<a, b>> \in st.older
        PROVE  a \in Demoted
    BY <2>2, <2>3, <2>4, <2>5, Zenon DEF Demoted
  <2>6. ASSUME NEW b \in Gone, NEW a \in DOMAIN segments \cap DOMAIN segments', <<a, b>> \in older
        PROVE  a \in Demoted
    BY <2>2, <2>3, <2>5, <2>6, Zenon DEF Gone
  <2>7. ASSUME s \notin DOMAIN segments', NEW a \in DOMAIN segments' PROVE a \in Demoted
    <3>1. s \in DOMAIN g \ DOMAIN h /\ a \in DOMAIN segments /\ <<a, s>> \in st.older
      BY <2>2, <2>3, <2>4, <2>7, Zenon
    <3> QED BY <2>5, <3>1, Zenon
  <2> QED BY <2>6, <2>7, Zenon
<1> QED BY <1>1, <1>2, Zenon

\* The same of to_device, apart from the segment it moves.
LEMMA MoveOrder ==
  ASSUME Inv, NEW s \in Seg, NEW d \in Device, ToDevice(s, d)
  PROVE  \A b \in Gone, a \in DOMAIN segments \cap DOMAIN segments' :
           <<a, b>> \in older => a \in Demoted \/ a = s
<1>1. s \in DOMAIN segments
  BY Zenon DEF ToDevice
<1>2. CASE segments[s].device = d
  BY <1>2, Zenon DEF ToDevice, Promote, Gone
<1>3. CASE segments[s].device # d
  <2> DEFINE st == Moved(s, d)
             g == st.segments
             h == EnforceLimits(st).segments
  <2>1. Legal(st)
    BY <1>1, <1>3, MovedLegal, Zenon
  <2>2. segments' = h
    BY <1>3, Zenon DEF ToDevice, Become
  <2>3. /\ DOMAIN g = DOMAIN segments
        /\ \A t \in DOMAIN segments \ {s} : g[t] = segments[t]
        /\ st.older = MoveToEnd(older, DOMAIN segments, {s})
    <3>1. segments = [t \in DOMAIN segments |-> segments[t]]
      BY StoreFacts, Zenon DEF Inv, TypeOK
    <3>2. g = [segments EXCEPT ![s].device = d] /\ st.older = MoveToEnd(older, DOMAIN segments, {s})
      BY Zenon DEF Moved
    <3> HIDE DEF g, st
    <3> QED BY <3>1, <3>2, Zenon
  <2>4. /\ DOMAIN h \subseteq DOMAIN g
        /\ \A a \in DOMAIN h, b \in DOMAIN g \ DOMAIN h :
             <<a, b>> \in st.older => g[a].device = "cuda" /\ h[a].device = "cpu"
    <3> HIDE DEF st
    <3> QED BY <2>1, EnforceOrder, Zenon
  <2> HIDE DEF st, g, h
  <2> SUFFICES ASSUME NEW b \in Gone, NEW a \in DOMAIN segments \cap DOMAIN segments',
                      <<a, b>> \in older, a # s
               PROVE  a \in Demoted
    OBVIOUS
  <2>5. b \in DOMAIN g \ DOMAIN h /\ <<a, b>> \in st.older
    BY <2>2, <2>3, Zenon DEF Gone, MoveToEnd
  <2> QED BY <2>2, <2>3, <2>4, <2>5 DEF Demoted
<1> QED BY <1>2, <1>3, Zenon

\* Whatever the operation, the ceilings cost the least recently used segments their
\* place first (_enforce_limits, called by put and to_device).
THEOREM RemovesOldest == Spec => RemovalOrder
<1> DEFINE Order == \E op \in Seg :
                      \A b \in Gone, a \in DOMAIN segments \cap DOMAIN segments' :
                        <<a, b>> \in older => a \in Demoted \/ a = op
           Last == \A s \in Seg, d \in Device, n \in Sizes :
                     Put(s, d, n) /\ s \notin DOMAIN segments'
                       => DOMAIN segments' \subseteq Demoted
<1>1. ASSUME Inv, [Next]_vars
      PROVE  [\/ Clear \/ \E s \in Seg : Drop(s)
              \/ Order /\ Last]_vars
  <2>1. Last
    BY <1>1, PutOrder, Zenon
  <2>2. ASSUME NEW s \in Seg, Get(s) PROVE Order
    BY <2>2, Zenon DEF Get, Promote, Gone
  <2>3. ASSUME NEW s \in Seg, NEW d \in Device, ToDevice(s, d) PROVE Order
    BY <1>1, <2>3, MoveOrder, Zenon
  <2>4. ASSUME NEW s \in Seg, NEW d \in Device, NEW n \in Sizes, Put(s, d, n) PROVE Order
    <3>1. \A b \in Gone, a \in DOMAIN segments \cap DOMAIN segments' :
            <<a, b>> \in older => a \in Demoted
      BY <1>1, <2>4, PutOrder, Zenon
    <3> QED BY <3>1, Zenon
  <2> HIDE DEF Order, Last
  <2> QED BY <1>1, <2>1, <2>2, <2>3, <2>4, Zenon DEF Next
<1> QED BY <1>1, CacheInv, PTL DEF Spec, RemovalOrder

\* put and to_device keep the sizes of the segments they do not remove, and add only
\* the one that is put.
LEMMA PutKeeps ==
  ASSUME Inv, NEW s \in Seg, NEW d \in Device, NEW n \in Sizes, Put(s, d, n)
  PROVE  /\ DOMAIN segments' \subseteq DOMAIN segments \cup {s}
         /\ \A t \in DOMAIN segments' :
              segments'[t].nbytes = IF t \in DOMAIN segments THEN segments[t].nbytes ELSE n
<1>1. CASE s \in DOMAIN segments
  BY <1>1, Zenon DEF Put, Promote
<1>2. CASE s \notin DOMAIN segments
  <2> DEFINE st == Inserted(s, d, n)
             g == st.segments
             h == EnforceLimits(st).segments
  <2>1. Legal(st)
    BY <1>2, InsertedLegal, Zenon
  <2>2. segments' = h
    BY <1>2, Zenon DEF Put, Become
  <2>3. /\ DOMAIN g = DOMAIN segments \cup {s} /\ g[s].nbytes = n
        /\ \A t \in DOMAIN segments : g[t] = segments[t]
    BY <1>2, Zenon DEF Inserted
  <2>4. DOMAIN h \subseteq DOMAIN g /\ \A t \in DOMAIN h : h[t].nbytes = g[t].nbytes
    <3> HIDE DEF st
    <3> QED BY <2>1, EnforceOrder, Zenon
  <2> HIDE DEF st, g, h
  <2> QED BY <1>2, <2>2, <2>3, <2>4, Zenon
<1> QED BY <1>1, <1>2, Zenon

\* to_device brings no segment in and changes the size of none.
LEMMA MoveKeeps ==
  ASSUME Inv, NEW s \in Seg, NEW d \in Device, ToDevice(s, d)
  PROVE  /\ DOMAIN segments' \subseteq DOMAIN segments
         /\ \A t \in DOMAIN segments' : segments'[t].nbytes = segments[t].nbytes
<1>1. s \in DOMAIN segments
  BY Zenon DEF ToDevice
<1>2. CASE segments[s].device = d
  BY <1>2, Zenon DEF ToDevice, Promote
<1>3. CASE segments[s].device # d
  <2> DEFINE st == Moved(s, d)
             g == st.segments
             h == EnforceLimits(st).segments
  <2>1. Legal(st)
    BY <1>1, <1>3, MovedLegal, Zenon
  <2>2. segments' = h
    BY <1>3, Zenon DEF ToDevice, Become
  <2>3. DOMAIN g = DOMAIN segments /\ \A t \in DOMAIN segments : g[t].nbytes = segments[t].nbytes
    <3>1. /\ segments = [t \in DOMAIN segments |-> segments[t]]
          /\ \A t \in DOMAIN segments : segments[t] \in Segment
      BY StoreFacts, Zenon DEF Inv, TypeOK
    <3>2. g = [segments EXCEPT ![s].device = d]
      BY Zenon DEF Moved
    <3>3. g = [t \in DOMAIN segments |-> IF t = s THEN [segments[s] EXCEPT !.device = d] ELSE segments[t]]
      BY <1>1, <3>1, <3>2, Zenon
    <3> HIDE DEF g, st
    <3> QED BY <3>1, <3>3, Zenon DEF Segment
  <2>4. DOMAIN h \subseteq DOMAIN g /\ \A t \in DOMAIN h : h[t].nbytes = g[t].nbytes
    <3> HIDE DEF st
    <3> QED BY <2>1, EnforceOrder, Zenon
  <2> HIDE DEF st, g, h
  <2> QED BY <2>2, <2>3, <2>4, Zenon
<1> QED BY <1>2, <1>3, Zenon

\* A segment that fits the device, brought there, stays there while nothing is
\* evicted: it is the youngest, so the loop offloads all others before it.
LEMMA FetchStays ==
  ASSUME Inv, MaxHost = None, MaxDevice # None => \A n \in Sizes : n <= MaxDevice,
         NEW s \in Seg, ToDevice(s, "cuda")
  PROVE  s \in DOMAIN segments' /\ segments'[s].device = "cuda"
<1>1. s \in DOMAIN segments
  BY Zenon DEF ToDevice
<1>2. CASE segments[s].device = "cuda"
  BY <1>1, <1>2, Zenon DEF ToDevice, Promote
<1>3. CASE segments[s].device # "cuda"
  <2> DEFINE st == Moved(s, "cuda")
             g == st.segments
             R == DOMAIN segments
             C == On(g, "cuda")
             B == Before(st.older, C, s)
             n == segments[s].nbytes
  <2>1. Legal(st)
    BY <1>1, <1>3, MovedLegal, Zenon DEF Device
  <2>2. g \in Store /\ StrictTotalOrder(st.older, DOMAIN g) /\ st.deviceBytes = Bytes(g, C)
    <3> HIDE DEF st
    <3> QED BY <2>1, Zenon DEF Legal, Exact
  <2>3. /\ DOMAIN g = R /\ g[s].device = "cuda" /\ g[s].nbytes = n
        /\ st.older = MoveToEnd(older, R, {s})
    <3>1. segments = [t \in R |-> segments[t]] /\ \A t \in R : segments[t] \in Segment
      BY StoreFacts, Zenon DEF Inv, TypeOK
    <3>2. g = [segments EXCEPT ![s].device = "cuda"] /\ st.older = MoveToEnd(older, R, {s})
      BY Zenon DEF Moved
    <3>3. g = [t \in R |-> IF t = s THEN [segments[s] EXCEPT !.device = "cuda"] ELSE segments[t]]
      BY <1>1, <3>1, <3>2, Zenon
    <3> HIDE DEF g, st
    <3> QED BY <1>1, <3>1, <3>2, <3>3, Zenon DEF Segment
  <2>4. s \in C /\ C \subseteq R
    BY <1>1, <2>3, Zenon DEF On
  <2> HIDE DEF st, g
  <2>5. B = C \ {s}
    BY <1>1, <2>2, <2>3, <2>4, Zenon DEF Before, MoveToEnd, StrictTotalOrder
  <2>6. n \in Sizes /\ n \in Nat
    <3>1. segments[s] \in Segment
      BY <1>1, StoreFacts, Zenon DEF Inv, TypeOK
    <3> QED BY <3>1, SizesAssumption, Zenon DEF Segment
  <2>7. st.deviceBytes - Bytes(g, B) = n
    <3>1. C \in SUBSET DOMAIN g /\ {s} \in SUBSET C
      BY <2>3, <2>4, Zenon
    <3>2. /\ Bytes(g, C \ {s}) = Bytes(g, C) - Bytes(g, {s})
          /\ Bytes(g, C) \in Nat /\ Bytes(g, {s}) \in Nat
      <4> HIDE DEF C
      <4> QED BY <2>2, <3>1, BytesOfKeys, Zenon
    <3>3. Bytes(g, {s}) = n
      BY <2>3, <2>6, BytesBase, Zenon
    <3> HIDE DEF B, C, n
    <3> QED BY <2>2, <2>5, <3>2, <3>3
  <2>8. s \notin Offloaded(st)
    <3> SUFFICES ASSUME s \in Offloaded(st) PROVE FALSE
      OBVIOUS
    <3>1. MaxDevice # None /\ st.deviceBytes - Bytes(g, B) > MaxDevice
      BY Zenon DEF Offloaded, g
    <3>2. MaxDevice \in Nat /\ n <= MaxDevice
      BY <2>6, <3>1, LimitAssumption, Zenon
    <3> QED BY <2>6, <2>7, <3>1, <3>2
  <2>9. segments' = [t \in DOMAIN Offload(st).segments \ {} |-> Offload(st).segments[t]]
    <3>1. Evicted(Offload(st)) = {}
      BY Zenon DEF Evicted
    <3>2. segments' = EnforceLimits(st).segments
      BY <1>3, Zenon DEF ToDevice, Become, st
    <3> QED BY <3>1, <3>2, Zenon DEF EnforceLimits, Remove
  <2>10. DOMAIN Offload(st).segments = R /\ Offload(st).segments[s] = g[s]
    BY <1>1, <2>3, <2>8, Zenon DEF Offload, g
  <2> QED BY <1>1, <2>3, <2>9, <2>10, Zenon
<1> QED BY <1>2, <1>3, Zenon

-----------------------------------------------------------------------------
(* Serving                                                                 *)

\* what a splice is made of
Entry == [seg : Seg, len : Nat, on : Device \cup {"gone"}]

\* the pass is at a request of its batch and in a layer
ServingTyped ==
  /\ batch \in Seq(Req) /\ (batch # <<>> => at \in 1 .. Len(batch) /\ layer \in 1 .. Layers)
  /\ done \in [Req -> Nat] /\ pre \in [Req -> Nat]
  /\ splice \in [Req -> [1 .. Layers -> Seq(Entry)]]

\* A chunk of a text is no longer than the text.
LEMMA SeqLenIs ==
  ASSUME ServingTyped, NEW r \in Req
  PROVE  /\ SeqLen(r) \in Nat /\ SeqLen(r) \in Sizes
         /\ TextLen[r] <= ChunkSize => SeqLen(r) = TextLen[r]
<1>1. /\ pre[r] \in Nat /\ ChunkSize \in Nat /\ TextLen[r] \in Nat
      /\ 0 .. TextLen[r] \subseteq Sizes
  BY ServingAssumption, Zenon DEF ServingTyped
<1>2. SeqLen(r) \in 0 .. TextLen[r] /\ (TextLen[r] <= ChunkSize => SeqLen(r) = TextLen[r])
  BY <1>1 DEF SeqLen, Least
<1> QED BY <1>1, <1>2

\* The request the pass is at
LEMMA AtRequest ==
  ASSUME ServingTyped, batch # <<>>
  PROVE  batch[at] \in Req /\ layer \in 1 .. Layers
BY DEF ServingTyped

\* A step of serving puts, fetches or leaves the cache alone.
LEMMA ServingUsesCache ==
  ASSUME Inv, ServingTyped, ServingNext
  PROVE  \/ UNCHANGED <<vars, made>>
         \/ /\ batch # <<>> /\ IsBuild(batch[at]) /\ IsLastOfflineLayer(layer)
            /\ Snapshot(batch[at]) /\ Plan[batch[at]] \in Seg /\ SeqLen(batch[at]) \in Sizes
            /\ UNCHANGED splice
         \/ \E s \in Seg : ToDevice(s, "cuda") /\ UNCHANGED made
<1>1. ASSUME NEW b, StartBatch(b) PROVE UNCHANGED <<vars, made>>
  BY <1>1, Zenon DEF StartBatch
<1>2. ASSUME BuildStep, ~UNCHANGED <<vars, made>>
      PROVE  /\ batch # <<>> /\ IsBuild(batch[at]) /\ IsLastOfflineLayer(layer)
             /\ Snapshot(batch[at]) /\ Plan[batch[at]] \in Seg /\ SeqLen(batch[at]) \in Sizes
             /\ UNCHANGED splice
  BY <1>2, AtRequest, SeqLenIs, Zenon DEF BuildStep, IsBuild
<1>3. ASSUME ResolveSegment, ~UNCHANGED <<vars, made>>
      PROVE  \E s \in Seg : ToDevice(s, "cuda") /\ UNCHANGED made
  <2>1. PICK s : ToDevice(s, "cuda") /\ UNCHANGED made
    BY <1>3, Zenon DEF ResolveSegment
  <2>2. s \in Seg
    BY <2>1, StoreFacts, Zenon DEF ToDevice, Inv, TypeOK
  <2> QED BY <2>1, <2>2, Zenon
<1>4. ASSUME Attend PROVE UNCHANGED <<vars, made>>
  BY <1>4, Zenon DEF Attend
<1> QED BY <1>1, <1>2, <1>3, <1>4, Zenon DEF ServingNext

\* So serving is one way of using the cache.
LEMMA ServingCacheStep == Inv /\ ServingTyped /\ [ServingNext]_allVars => [Next]_vars
<1> SUFFICES ASSUME Inv, ServingTyped, [ServingNext]_allVars PROVE [Next]_vars
  OBVIOUS
<1>1. ASSUME batch # <<>>, Snapshot(batch[at]), Plan[batch[at]] \in Seg, SeqLen(batch[at]) \in Sizes
      PROVE  Next
  BY <1>1, Zenon DEF Snapshot, Next, Device
<1>2. ASSUME NEW s \in Seg, ToDevice(s, "cuda") PROVE Next
  BY <1>2, Zenon DEF Next, Device
<1>3. CASE UNCHANGED allVars
  BY <1>3, Zenon DEF allVars
<1>4. CASE ServingNext
  BY <1>1, <1>2, <1>4, ServingUsesCache, Zenon
<1> QED BY <1>3, <1>4, Zenon

\* On to the next request, layer or batch: the pass stays inside its batch.
LEMMA AdvanceTyped ==
  ASSUME ServingTyped, batch # <<>>, Advance, splice' = splice PROVE ServingTyped'
<1>1. /\ batch \in Seq(Req) /\ at \in 1 .. Len(batch) /\ layer \in 1 .. Layers
      /\ Len(batch) \in Nat /\ Layers \in Nat
  BY ServingAssumption DEF ServingTyped
<1>2. /\ at' = IF at < Len(batch) THEN at + 1 ELSE 1
      /\ layer' = IF at < Len(batch) \/ (at = Len(batch) /\ layer = Layers) THEN layer ELSE layer + 1
      /\ batch' = IF at = Len(batch) /\ layer = Layers THEN <<>> ELSE batch
      /\ pre' = pre
  BY Zenon DEF Advance
<1>3. done' \in [Req -> Nat]
  <2> DEFINE in == {batch[i] : i \in DOMAIN batch}
  <2>1. done' = [r \in Req |-> IF (at = Len(batch) /\ layer = Layers) /\ r \in in
                               THEN SeqLen(r) ELSE done[r]]
    BY Zenon DEF Advance
  <2> HIDE DEF in
  <2> QED BY <2>1, SeqLenIs, Zenon DEF ServingTyped
<1>4. batch' \in Seq(Req) /\ (batch' # <<>> => at' \in 1 .. Len(batch') /\ layer' \in 1 .. Layers)
  <2>1. CASE at = Len(batch) /\ layer = Layers
    <3>1. batch' = <<>>
      BY <1>2, <2>1, Zenon
    <3> QED BY <3>1
  <2>2. CASE ~(at = Len(batch) /\ layer = Layers)
    <3>1. batch' = batch
      BY <1>2, <2>2, Zenon
    <3>2. at' \in 1 .. Len(batch) /\ layer' \in 1 .. Layers
      BY <1>1, <1>2, <2>2
    <3> QED BY <1>1, <3>1, <3>2, Zenon
  <2> QED BY <2>1, <2>2, Zenon
<1> QED BY <1>2, <1>3, <1>4, Zenon DEF ServingTyped

\* Appending an element
LEMMA AppendInSeq == ASSUME NEW S, NEW q \in Seq(S), NEW e \in S PROVE Append(q, e) \in Seq(S)
OBVIOUS

\* Every step of serving keeps the types.
LEMMA ServingTypedStep ==
  ASSUME Inv, ServingTyped, [ServingNext]_allVars PROVE ServingTyped'
<1>1. ASSUME NEW b \in Batches, StartBatch(b) PROVE ServingTyped'
  <2>1. b \in Seq(Req) /\ Len(b) \in Nat /\ Len(b) > 0
    <3>1. CASE \E r \in Pending : b = <<r>>
      BY <3>1 DEF Pending
    <3>2. CASE \E r, q \in Pending : b = <<r, q>>
      BY <3>2 DEF Pending
    <3> QED BY <3>1, <3>2 DEF Batches
  <2>2. /\ batch' = b /\ at' = 1 /\ layer' = 1 /\ done' = done /\ splice' = splice
        /\ pre' = [r \in Req |-> IF r \in {b[i] : i \in DOMAIN b} THEN done[r] ELSE pre[r]]
    BY <1>1, Zenon DEF StartBatch
  <2>3. pre' \in [Req -> Nat]
    BY <2>2, Zenon DEF ServingTyped
  <2>4. 1 \in 1 .. Len(b) /\ 1 \in 1 .. Layers
    BY <2>1, ServingAssumption
  <2> QED BY <2>1, <2>2, <2>3, <2>4, Zenon DEF ServingTyped
<1>2. CASE BuildStep
  BY <1>2, AdvanceTyped, Zenon DEF BuildStep
<1>3. CASE Attend
  BY <1>3, AdvanceTyped, Zenon DEF Attend
<1>4. CASE ResolveSegment
  <2>1. UNCHANGED <<batch, layer, at, done, pre>> /\ batch # <<>>
    BY <1>4, Zenon DEF ResolveSegment
  <2>2. CASE splice' = splice
    BY <2>1, <2>2, Zenon DEF ServingTyped
  <2>3. CASE splice' # splice
    <3> DEFINE r == batch[at]
               s == Plan[r][next]
               e == [seg |-> s, len |-> segments[s].nbytes,
                     on |-> IF s \in DOMAIN segments' THEN segments'[s].device ELSE "gone"]
    <3>1. /\ ToDevice(s, "cuda")
          /\ splice' = [splice EXCEPT ![r][layer] = Append(@, e)]
      BY <1>4, <2>3, Zenon DEF ResolveSegment
    <3>2. r \in Req /\ layer \in 1 .. Layers
      BY <2>1, AtRequest, Zenon
    <3>3. s \in Seg /\ s \in DOMAIN segments /\ segments[s].nbytes \in Nat
      BY <3>1, StoreFacts, Zenon DEF ToDevice, Inv, TypeOK
    <3>4. Inv'
      BY <3>1, <3>3, NextInv, Zenon DEF Next, Device
    <3>5. e \in Entry
      <4>1. s \in DOMAIN segments' => segments'[s].device \in Device
        <5>1. segments' \in Store
          BY <3>4, Zenon DEF Inv, TypeOK
        <5> QED BY <5>1, StoreFacts, Zenon DEF Segment
      <4> HIDE DEF s
      <4> QED BY <3>3, <4>1, Zenon DEF Entry
    <3> HIDE DEF r, s, e
    <3>6. splice[r] \in [1 .. Layers -> Seq(Entry)] /\ Append(splice[r][layer], e) \in Seq(Entry)
      <4>1. splice[r] \in [1 .. Layers -> Seq(Entry)]
        BY <3>2, Zenon DEF ServingTyped
      <4>2. splice[r][layer] \in Seq(Entry)
        BY <3>2, <4>1, Zenon
      <4>3. Append(splice[r][layer], e) \in Seq(Entry)
        BY <3>5, <4>2, AppendInSeq, Zenon
      <4> QED BY <4>1, <4>3, Zenon
    <3>7. splice' = [splice EXCEPT ![r] = [splice[r] EXCEPT ![layer] = Append(splice[r][layer], e)]]
      BY <3>1, Zenon
    <3>8. splice' \in [Req -> [1 .. Layers -> Seq(Entry)]]
      BY <3>2, <3>6, <3>7, Zenon DEF ServingTyped
    <3> QED BY <2>1, <3>8, Zenon DEF ServingTyped
  <2> QED BY <2>2, <2>3, Zenon
<1>5. CASE UNCHANGED allVars
  BY <1>5, Zenon DEF allVars, serving, ServingTyped
<1> QED BY <1>1, <1>2, <1>3, <1>4, <1>5, Zenon DEF ServingNext

\* Nothing has been served.
LEMMA ServingBegins == ServingInit => Inv /\ ServingTyped
<1> SUFFICES ASSUME ServingInit PROVE Inv /\ ServingTyped
  OBVIOUS
<1>1. Inv
  BY InitInv, Zenon DEF ServingInit
<1>2. <<>> \in Seq(Req) /\ <<>> \in Seq(Entry)
  OBVIOUS
<1>3. splice \in [Req -> [1 .. Layers -> Seq(Entry)]]
  BY <1>2, Zenon DEF ServingInit
<1> QED BY <1>1, <1>2, <1>3, Zenon DEF ServingInit, ServingTyped

\* The cache and the batch stay well formed while builds and queries run.
LEMMA ServingInvariant == ServingSpec => [](Inv /\ ServingTyped)
<1>1. Inv /\ ServingTyped /\ [ServingNext]_allVars => Inv' /\ ServingTyped'
  BY ServingCacheStep, ServingTypedStep, NextInv, Zenon
<1> QED BY <1>1, ServingBegins, PTL DEF ServingSpec

\* The backend only uses the cache through its operations: whatever batches are
\* served, the cache behaves as OfflineKVCache does.
THEOREM ServingIsCache == ServingSpec => Spec
<1>1. ServingInit => Init
  BY Zenon DEF ServingInit
<1> QED BY <1>1, ServingCacheStep, ServingInvariant, PTL DEF ServingSpec, Spec

\* So serving never exceeds a ceiling, and a snapshot that fits costs no segment its
\* place.
THEOREM ServingWithinLimits ==
  ServingSpec => []WithinLimits /\ PutThatFitsDisturbsNothing
<1>1. Inv => WithinLimits
  BY Zenon DEF Inv
<1> QED BY <1>1, ServingIsCache, CacheInv, FittingPut, PTL

\* While nothing limits the host tier and every segment fits the device, what a query
\* attends to is on the device when it is fetched, whatever other requests and its
\* own other segments push out (_redknot_single_extend, to_device).
THEOREM FetchedIsOnDevice ==
  ASSUME MaxHost = None, MaxDevice # None => \A n \in Sizes : n <= MaxDevice
  PROVE  ServingSpec => []FetchedOnDevice
<1>1. ServingInit => FetchedOnDevice
  BY DEF ServingInit, FetchedOnDevice
<1>2. ASSUME Inv, ServingTyped, FetchedOnDevice, [ServingNext]_allVars PROVE FetchedOnDevice'
  <2>1. CASE splice' = splice
    BY <1>2, <2>1, Zenon DEF FetchedOnDevice
  <2>2. CASE splice' # splice
    <3>1. ResolveSegment
      BY <1>2, <2>2, Zenon DEF ServingNext, StartBatch, BuildStep, Attend, allVars, serving
    <3> DEFINE r == batch[at]
               s == Plan[r][next]
               e == [seg |-> s, len |-> segments[s].nbytes,
                     on |-> IF s \in DOMAIN segments' THEN segments'[s].device ELSE "gone"]
    <3>2. /\ ToDevice(s, "cuda")
          /\ splice' = [splice EXCEPT ![r][layer] = Append(@, e)]
      BY <2>2, <3>1, Zenon DEF ResolveSegment
    <3>3. r \in Req /\ layer \in 1 .. Layers
      BY <1>2, <3>1, AtRequest, Zenon DEF ResolveSegment
    <3>4. s \in Seg
      BY <1>2, <3>2, StoreFacts, Zenon DEF ToDevice, Inv, TypeOK
    <3>5. s \in DOMAIN segments' /\ segments'[s].device = "cuda"
      BY <1>2, <3>2, <3>4, FetchStays, Zenon
    <3>6. e.on = "cuda"
      BY <3>5, Zenon
    <3> HIDE DEF r, s, e
    <3>7. /\ splice \in [Req -> [1 .. Layers -> Seq(Entry)]]
          /\ splice' = [splice EXCEPT ![r] = [splice[r] EXCEPT ![layer] = Append(splice[r][layer], e)]]
      BY <1>2, <3>2, Zenon DEF ServingTyped
    <3> SUFFICES ASSUME NEW q \in Req, NEW l \in 1 .. Layers, NEW i \in DOMAIN splice'[q][l]
                 PROVE  splice'[q][l][i].on = "cuda"
      BY Zenon DEF FetchedOnDevice
    <3>8. CASE q = r /\ l = layer
      <4>1. splice'[q][l] = Append(splice[r][layer], e) /\ splice[r][layer] \in Seq(Entry)
        BY <3>3, <3>7, <3>8, Zenon
      <4>2. PICK old \in Seq(Entry) : old = splice[r][layer]
        BY <4>1, Zenon
      <4>3. i \in 1 .. Len(old) + 1 /\ (i \in 1 .. Len(old) => splice'[q][l][i] = old[i])
            /\ (i = Len(old) + 1 => splice'[q][l][i] = e)
        BY <4>1, <4>2
      <4>4. CASE i = Len(old) + 1
        BY <3>6, <4>3, <4>4, Zenon
      <4>5. CASE i # Len(old) + 1
        <5>1. i \in 1 .. Len(old) /\ i \in DOMAIN splice[r][layer]
          BY <4>2, <4>3, <4>5
        <5> QED BY <1>2, <3>3, <4>2, <4>3, <5>1 DEF FetchedOnDevice
      <4> QED BY <4>4, <4>5, Zenon
    <3>9. CASE ~(q = r /\ l = layer)
      <4>1. splice'[q][l] = splice[q][l]
        BY <3>3, <3>7, <3>9, Zenon
      <4> QED BY <1>2, <4>1, Zenon DEF FetchedOnDevice
    <3> QED BY <3>8, <3>9, Zenon
  <2> QED BY <2>1, <2>2, Zenon
<1> QED BY <1>1, <1>2, ServingInvariant, PTL DEF ServingSpec

\* every segment that a build request registers has the request's whole text
Registered ==
  \A s \in DOMAIN segments :
    /\ s \in DOMAIN made /\ made[s] = Layers
    /\ \A r \in Req : IsBuild(r) /\ Plan[r] = s => segments[s].nbytes = TextLen[r]

\* While build requests are not split into chunks and the builds of one id have one
\* text, a snapshot is the whole text in all layers (forward_extend,
\* snapshot_offline_segment).
THEOREM SnapshotsWhole ==
  ASSUME \A r \in Req : IsBuild(r) => TextLen[r] <= ChunkSize,
         \A r, q \in Req : IsBuild(r) /\ Plan[q] = Plan[r] => TextLen[q] = TextLen[r]
  PROVE  ServingSpec => []WholeSnapshot
<1>1. ServingInit => Registered
  BY Zenon DEF ServingInit, Init, Registered
<1>2. ASSUME Inv, ServingTyped, Registered, [ServingNext]_allVars PROVE Registered'
  <2>1. CASE UNCHANGED <<vars, made>>
    BY <1>2, <2>1, Zenon DEF Registered, vars
  <2>2. CASE \E s \in Seg : ToDevice(s, "cuda") /\ UNCHANGED made
    <3>1. PICK s \in Seg : ToDevice(s, "cuda") /\ made' = made
      BY <2>2, Zenon
    <3>2. /\ DOMAIN segments' \subseteq DOMAIN segments
          /\ \A t \in DOMAIN segments' : segments'[t].nbytes = segments[t].nbytes
      BY <1>2, <3>1, MoveKeeps, Zenon DEF Device
    <3> QED BY <1>2, <3>1, <3>2, Zenon DEF Registered
  <2>3. CASE /\ batch # <<>> /\ IsBuild(batch[at]) /\ IsLastOfflineLayer(layer)
             /\ Snapshot(batch[at]) /\ Plan[batch[at]] \in Seg /\ SeqLen(batch[at]) \in Sizes
    <3>1. PICK r \in Req : r = batch[at]
      BY <1>2, <2>3, AtRequest, Zenon
    <3>2. PICK s \in Seg : s = Plan[r]
      BY <2>3, <3>1, Zenon
    <3>3. SeqLen(r) = TextLen[r] /\ SeqLen(r) \in Sizes
      BY <1>2, <2>3, <3>1, SeqLenIs, Zenon
    <3>4. /\ Put(s, "cuda", SeqLen(r))
          /\ made' = [t \in DOMAIN made \cup {s} |->
                        IF t = s /\ s \notin DOMAIN segments THEN layer ELSE made[t]]
          /\ layer = Layers
      BY <2>3, <3>1, <3>2, Zenon DEF Snapshot, IsLastOfflineLayer
    <3>5. /\ DOMAIN segments' \subseteq DOMAIN segments \cup {s}
          /\ \A t \in DOMAIN segments' : segments'[t].nbytes
               = IF t \in DOMAIN segments THEN segments[t].nbytes ELSE SeqLen(r)
      BY <1>2, <3>3, <3>4, PutKeeps, Zenon DEF Device
    <3> SUFFICES ASSUME NEW t \in DOMAIN segments'
                 PROVE  /\ t \in DOMAIN made' /\ made'[t] = Layers
                        /\ \A q \in Req : IsBuild(q) /\ Plan[q] = t
                             => segments'[t].nbytes = TextLen[q]
      BY Zenon DEF Registered, IsBuild
    <3>6. CASE t \in DOMAIN segments
      BY <1>2, <3>4, <3>5, <3>6, Zenon DEF Registered
    <3>7. CASE t \notin DOMAIN segments
      <4>1. t = s /\ segments'[t].nbytes = TextLen[r] /\ made'[t] = Layers /\ t \in DOMAIN made'
        BY <3>3, <3>4, <3>5, <3>7, Zenon
      <4> QED BY <3>2, <4>1, Zenon DEF IsBuild
    <3> QED BY <3>6, <3>7, Zenon
  <2>4. CASE UNCHANGED allVars
    BY <2>1, <2>4, Zenon DEF allVars, serving
  <2> QED BY <1>2, <2>1, <2>2, <2>3, <2>4, ServingUsesCache, Zenon
<1>3. Registered => WholeSnapshot
  BY Zenon DEF Registered, WholeSnapshot
<1> QED BY <1>1, <1>2, <1>3, ServingInvariant, PTL DEF ServingSpec
=============================================================================
