--------------------------- MODULE ByteCountsProofs ---------------------------
(***************************************************************************)
(* Lemmas on byte counts: they add up, and depend on the sizes only.  The  *)
(* proofs about the offline KV cache and the chunk policy rest on them.    *)
(***************************************************************************)
EXTENDS ByteCounts, FiniteSetTheorems, TLAPS

\* g gives each entry of the finite set S a byte count
Sized(g, S) == IsFiniteSet(S) /\ \A s \in S : g[s].nbytes \in Nat

\* The byte cells of finitely many entries are finitely many.
LEMMA CellsFinite ==
  ASSUME NEW g, NEW S, Sized(g, S)
  PROVE  IsFiniteSet(Cells(g, S)) /\ Bytes(g, S) \in Nat
<1> DEFINE col(s) == {s} \X (1 .. g[s].nbytes)
           cols == {col(s) : s \in S}
           f == [s \in S |-> col(s)]
<1>1. f \in Surjection(S, cols)
  BY DEF Surjection
<1>2. IsFiniteSet(cols)
  <2> HIDE DEF f, cols
  <2> QED BY <1>1, FS_Surjection DEF Sized
<1>3. ASSUME NEW T \in cols PROVE IsFiniteSet(T)
  <2>1. PICK s \in S : T = col(s)
    OBVIOUS
  <2>2. IsFiniteSet({s})
    BY FS_Singleton
  <2>3. 1 \in Int /\ g[s].nbytes \in Int
    BY DEF Sized
  <2>4. IsFiniteSet(1 .. g[s].nbytes)
    BY <2>3, FS_Interval
  <2> QED BY <2>1, <2>2, <2>4, FS_Product
<1>4. IsFiniteSet(UNION cols)
  <2> HIDE DEF cols
  <2> QED BY <1>2, <1>3, FS_UNION
<1>5. IsFiniteSet(Cells(g, S))
  BY <1>4 DEF Cells
<1> QED BY <1>5, FS_CardinalityType DEF Bytes

\* The bytes of two disjoint sets of entries add up.
LEMMA BytesUnion ==
  ASSUME NEW g, NEW S, NEW T, Sized(g, S), Sized(g, T), S \cap T = {}
  PROVE  Bytes(g, S \cup T) = Bytes(g, S) + Bytes(g, T)
<1>1. Cells(g, S \cup T) = Cells(g, S) \cup Cells(g, T)
  BY DEF Cells
<1>2. Cells(g, S) \cap Cells(g, T) = {}
  BY DEF Cells
<1>3. IsFiniteSet(Cells(g, S)) /\ IsFiniteSet(Cells(g, T))
  BY CellsFinite
<1>4. Cardinality({}) = 0
  BY FS_EmptySet
<1>5. Cardinality(Cells(g, S)) \in Nat /\ Cardinality(Cells(g, T)) \in Nat
  BY <1>3, FS_CardinalityType
<1>6. Cardinality(Cells(g, S) \cup Cells(g, T)) =
        Cardinality(Cells(g, S)) + Cardinality(Cells(g, T))
          - Cardinality(Cells(g, S) \cap Cells(g, T))
  BY <1>3, FS_Union
<1>7. Cardinality(Cells(g, S) \cap Cells(g, T)) = 0
  BY <1>2, <1>4
<1>8. Cardinality(Cells(g, S) \cup Cells(g, T)) =
        Cardinality(Cells(g, S)) + Cardinality(Cells(g, T))
  BY <1>5, <1>6, <1>7
<1> QED BY <1>1, <1>8 DEF Bytes

\* Taking a subset away takes its bytes away.
LEMMA BytesDiff ==
  ASSUME NEW g, NEW S, NEW T, Sized(g, S), T \subseteq S
  PROVE  /\ Sized(g, T) /\ Sized(g, S \ T)
         /\ Bytes(g, S \ T) = Bytes(g, S) - Bytes(g, T)
         /\ Bytes(g, T) <= Bytes(g, S)
<1>1. Sized(g, T) /\ Sized(g, S \ T)
  BY FS_Subset DEF Sized
<1>2. S = (S \ T) \cup T /\ (S \ T) \cap T = {}
  OBVIOUS
<1>3. Bytes(g, S) = Bytes(g, S \ T) + Bytes(g, T)
  BY <1>1, <1>2, BytesUnion
<1>4. Bytes(g, S) \in Nat /\ Bytes(g, T) \in Nat /\ Bytes(g, S \ T) \in Nat
  BY <1>1, CellsFinite
<1> QED BY <1>1, <1>3, <1>4

\* One entry has its own byte count, no entry has none.
LEMMA BytesBase ==
  /\ \A g : Bytes(g, {}) = 0
  /\ \A g, s : g[s].nbytes \in Nat => Bytes(g, {s}) = g[s].nbytes
<1>1. \A g : Cells(g, {}) = {}
  BY DEF Cells
<1>2. ASSUME NEW g, NEW s, g[s].nbytes \in Nat
      PROVE  Bytes(g, {s}) = g[s].nbytes
  <2> DEFINE n == g[s].nbytes
  <2>1. Cells(g, {s}) = {s} \X (1 .. n)
    BY DEF Cells
  <2>2. IsFiniteSet({s}) /\ Cardinality({s}) = 1
    BY FS_Singleton
  <2>3. IsFiniteSet(1 .. n) /\ Cardinality(1 .. n) = n
    <3> HIDE DEF n
    <3>1. n \in Nat
      BY <1>2 DEF n
    <3>2. 1 \in Int /\ n \in Int
      BY <3>1
    <3>3. /\ IsFiniteSet(1 .. n)
          /\ Cardinality(1 .. n) = IF 1 > n THEN 0 ELSE n - 1 + 1
      BY <3>2, FS_Interval
    <3> QED BY <3>1, <3>3
  <2>4. Cardinality({s} \X (1 .. n)) = Cardinality({s}) * Cardinality(1 .. n)
    BY <2>2, <2>3, FS_Product
  <2>5. Cardinality({s} \X (1 .. n)) = 1 * n
    BY <2>2, <2>3, <2>4
  <2>6. 1 * n = n
    BY <1>2
  <2> QED BY <2>1, <2>5, <2>6 DEF Bytes
<1> QED BY <1>1, <1>2, FS_EmptySet DEF Bytes

\* Bytes depend on the byte counts only.
LEMMA BytesSame ==
  ASSUME NEW g, NEW h, NEW S, \A s \in S : g[s].nbytes = h[s].nbytes
  PROVE  Bytes(g, S) = Bytes(h, S)
<1>1. Cells(g, S) = Cells(h, S)
  BY DEF Cells
<1> QED BY <1>1 DEF Bytes
===============================================================================
