-------------------------- MODULE SegPagedKVProofs --------------------------
(***************************************************************************)
(* For every number of heads, ranks and pages, every configuration, window,*)
(* sink, prompt and number of decoded tokens.  Of HeadClassKV: a SegPaged  *)
(* decode step reads exactly the sink and the window of each head, and no  *)
(* decode step reads KV that was cut away from a head it masks.  Of        *)
(* SegPagedKV: ranks, page tables and pages implement such steps, and a    *)
(* local head's pages stay bounded.                                        *)
(***************************************************************************)
EXTENDS SegPagedKV, TLAPS, SequenceTheorems

USE SMTT(30)

\* the window that the configuration of the cut gives a head is still held
HoldsWindow(h) == \A p \in 0 .. len - 1 : InWindow(cut.cfg, h, p, len) => p \in held[h]

\* a and b are configurations of one load, apart from windows and merged classes
SameLoad(a, b) ==
  /\ a.dense = b.dense
  /\ \A h \in KVHead : /\ a.head[h].class = "local" <=> b.head[h].class = "local"
                       /\ a.head[h].sink = b.head[h].sink
                       /\ a.head[h].dist > 0 <=> b.head[h].dist > 0

\* the inductive invariant of the heads
HeadInv ==
  /\ cfg \in Config
  /\ cut \in [by : {"none", "pd", "trim"}, cfg : Config]
  /\ len \in Nat
  /\ held \in [KVHead -> SUBSET Int]
  /\ tensors = None \/ tensors = [h \in KVHead |-> Strategy(cfg, h)]
  /\ SameLoad(cfg, cut.cfg)
  /\ cut.by = "none" => held = [h \in KVHead |-> 0 .. len - 1]
  /\ \A h \in KVHead : (cut.by = "trim" => TrimAgrees(cut.cfg, h)) => HoldsWindow(h)

----------------------------------------------------------------------------
(* The operators of the heads                                               *)

\* get_strategy: a head is local when its layer is not dense and its class is
\* local, and then it has a positive window, of its own or the default.
LEMMA StrategyOf ==
  ASSUME NEW c \in Config, NEW h \in KVHead
  PROVE  /\ Strategy(c, h) \in [class : HeadClass, window : Int, sink : Nat]
         /\ Strategy(c, h).sink = c.head[h].sink
         /\ Strategy(c, h).class = "local" <=> ~c.dense /\ c.head[h].class = "local"
         /\ Strategy(c, h).class = "local" =>
              /\ Strategy(c, h).window \in Nat \ {0}
              /\ Strategy(c, h).window = IF c.head[h].dist > 0 THEN c.head[h].dist
                                         ELSE DefaultWindow
<1>1. /\ c.dense \in BOOLEAN
      /\ c.head[h] \in [class : HeadClass, dist : Int, sink : Nat]
  BY Zenon DEF Config
<1> QED
  BY <1>1, HeadAssumption DEF Strategy, HeadClass

\* local_visible_indices: clamping and merging give the sink and the last tokens.
LEMMA LocalVisibleIs ==
  ASSUME NEW n \in Nat, NEW sink \in Nat, NEW recent \in Nat
  PROVE  LocalVisible(n, sink, recent) = {p \in 0 .. n - 1 : p < sink \/ p >= n - recent}
<1>1. ASSUME NEW p \in Int
      PROVE  p \in LocalVisible(n, sink, recent)
               <=> p \in 0 .. n - 1 /\ (p < sink \/ p >= n - recent)
  BY DEF LocalVisible, AtMost
<1>2. LocalVisible(n, sink, recent) \subseteq Int
  BY DEF LocalVisible, AtMost
<1> QED
  BY <1>1, <1>2

\* What a head reads in a decode step (_segpaged_decode), and what is transferred
\* of it (build_transfer_payload), is what its window admits.
LEMMA VisibleIs ==
  ASSUME NEW c \in Config, NEW h \in KVHead, NEW n \in Nat
  PROVE  /\ Visible(Strategy(c, h), n) = {p \in 0 .. n - 1 : InWindow(c, h, p, n)}
         /\ Shipped(c, h, n) = {p \in 0 .. n - 1 : InWindow(c, h, p, n)}
<1> DEFINE s == Strategy(c, h)
<1>1. CASE s.class = "local"
  <2>1. s.sink \in Nat /\ s.window \in Nat /\ s.window > 0
    BY <1>1, StrategyOf
  <2>2. LocalVisible(n, s.sink, s.window)
          = {p \in 0 .. n - 1 : p < s.sink \/ p >= n - s.window}
    BY <2>1, LocalVisibleIs, Zenon
  <2> QED
    BY <1>1, <2>1, <2>2, Zenon DEF Visible, Shipped, InWindow
<1>2. CASE s.class # "local"
  BY <1>2, Zenon DEF Visible, Shipped, InWindow
<1> QED
  BY <1>1, <1>2, Zenon

\* A trim under a policy that agrees with get_strategy keeps what the window of a
\* head admits (_select_indices, from_head_config).
LEMMA TrimmedKeeps ==
  ASSUME NEW c \in Config, NEW h \in KVHead, TrimAgrees(c, h), NEW n \in Nat,
         NEW p \in 0 .. n - 1, InWindow(c, h, p, n)
  PROVE  p \in Trimmed(c, h, n)
<1> DEFINE s == Strategy(c, h)
<1>1. c.head[h] \in [class : HeadClass, dist : Int, sink : Nat]
  BY Zenon DEF Config
<1>2. CASE c.head[h].class = "local"
  <2>1. c.head[h].dist > 0 /\ ~c.dense
    BY <1>2, Zenon DEF TrimAgrees
  <2>2. s.class = "local" /\ s.window = c.head[h].dist /\ s.sink = c.head[h].sink
    BY <1>2, <2>1, StrategyOf, Zenon
  <2>3. p < c.head[h].sink \/ p >= n - c.head[h].dist
    BY <2>2, Zenon DEF InWindow
  <2>4. p \in LocalVisible(n, c.head[h].sink, c.head[h].dist)
    BY <1>1, <2>1, <2>3, LocalVisibleIs
  <2> QED
    BY <1>1, <1>2, <2>1, <2>4, Zenon DEF Trimmed, KeepLen
<1>3. CASE c.head[h].class # "local"
  BY <1>3 DEF Trimmed, KeepLen, TrimAgrees
<1> QED
  BY <1>2, <1>3, Zenon

\* A window that has not grown admits nothing it did not admit before.
LEMMA NarrowerWindow ==
  ASSUME NEW a \in Config, NEW b \in Config, SameLoad(a, b), NEW h \in KVHead,
         a.head[h].class = "local" => a.head[h].dist <= b.head[h].dist,
         NEW n \in Nat, NEW p \in 0 .. n - 1, InWindow(a, h, p, n)
  PROVE  InWindow(b, h, p, n)
<1>1. /\ a.head[h] \in [class : HeadClass, dist : Int, sink : Nat]
      /\ b.head[h] \in [class : HeadClass, dist : Int, sink : Nat]
  BY Zenon DEF Config
<1>2. SUFFICES ASSUME Strategy(b, h).class = "local"
               PROVE  p < Strategy(b, h).sink \/ p >= n - Strategy(b, h).window
  BY Zenon DEF InWindow
<1>3. /\ Strategy(a, h).class = "local"
      /\ Strategy(a, h).sink = Strategy(b, h).sink
      /\ Strategy(a, h).window <= Strategy(b, h).window
      /\ Strategy(a, h).window \in Int /\ Strategy(b, h).window \in Int
  BY <1>1, <1>2, StrategyOf, HeadAssumption DEF SameLoad
<1>4. p < Strategy(a, h).sink \/ p >= n - Strategy(a, h).window
  BY <1>3, Zenon DEF InWindow
<1> QED
  BY <1>3, <1>4

\* Nothing enters a window from the left: what the window of n + 1 tokens admits
\* among the first n tokens, the window of n tokens admitted.
LEMMA WindowMovesOn ==
  ASSUME NEW c \in Config, NEW h \in KVHead, NEW n \in Nat, NEW p \in 0 .. n - 1,
         InWindow(c, h, p, n + 1)
  PROVE  InWindow(c, h, p, n)
<1>1. Strategy(c, h).window \in Int /\ Strategy(c, h).sink \in Nat
  BY StrategyOf, Zenon
<1> QED
  BY <1>1 DEF InWindow

\* set_local_window and merge_retrieval_to_global give a configuration of the
\* same load.
LEMMA Reconfigured ==
  ASSUME NEW c \in Config, NEW d \in Config, SameLoad(c, d)
  PROVE  /\ Merged(c) \in Config /\ SameLoad(Merged(c), d)
         /\ \A w \in Windows : Rewindowed(c, w) \in Config /\ SameLoad(Rewindowed(c, w), d)
<1>1. /\ c.dense \in BOOLEAN
      /\ c.head \in [KVHead -> [class : HeadClass, dist : Int, sink : Nat]]
  BY Zenon DEF Config
<1>2. Merged(c) \in Config /\ SameLoad(Merged(c), d)
  <2>1. Merged(c) \in Config
    BY <1>1 DEF Merged, Config, HeadClass
  <2>2. ASSUME NEW h \in KVHead
        PROVE  /\ Merged(c).head[h].class = "local" <=> c.head[h].class = "local"
               /\ Merged(c).head[h].sink = c.head[h].sink
               /\ Merged(c).head[h].dist = c.head[h].dist
    BY <1>1, Zenon DEF Merged
  <2>3. Merged(c).dense = c.dense
    BY Zenon DEF Merged
  <2> QED
    BY <2>1, <2>2, <2>3, Zenon DEF SameLoad
<1>3. ASSUME NEW w \in Windows
      PROVE  Rewindowed(c, w) \in Config /\ SameLoad(Rewindowed(c, w), d)
  <2>1. w \in Nat \ {0}
    BY HeadAssumption, Zenon
  <2>2. Rewindowed(c, w) \in Config
    BY <1>1, <2>1 DEF Rewindowed, Config
  <2>3. ASSUME NEW h \in KVHead
        PROVE  /\ Rewindowed(c, w).head[h].class = c.head[h].class
               /\ Rewindowed(c, w).head[h].sink = c.head[h].sink
               /\ Rewindowed(c, w).head[h].dist > 0 <=> c.head[h].dist > 0
    BY <1>1, <2>1 DEF Rewindowed
  <2>4. Rewindowed(c, w).dense = c.dense
    BY Zenon DEF Rewindowed
  <2> QED
    BY <2>2, <2>3, <2>4, Zenon DEF SameLoad
<1> QED
  BY <1>2, <1>3, Zenon

----------------------------------------------------------------------------
(* The invariant of the heads                                               *)

\* A loaded prompt is held whole, and nothing is cached yet.
LEMMA InitHolds == HeadInit => HeadInv
<1> SUFFICES ASSUME HeadInit PROVE HeadInv
  OBVIOUS
<1>1. cfg \in Config /\ len \in Nat /\ cut \in [by : {"none", "pd", "trim"}, cfg : Config]
  BY HeadAssumption DEF HeadInit
<1>2. held \in [KVHead -> SUBSET Int]
  BY <1>1 DEF HeadInit
<1>3. SameLoad(cfg, cut.cfg)
  BY Zenon DEF HeadInit, SameLoad
<1>4. \A h \in KVHead : HoldsWindow(h)
  BY Zenon DEF HeadInit, HoldsWindow
<1> QED
  BY <1>1, <1>2, <1>3, <1>4, Zenon DEF HeadInit, HeadInv

\* build_transfer_payload and restore_payload keep what the windows admit.
LEMMA ShipHolds == HeadInv /\ Ship => HeadInv'
<1> SUFFICES ASSUME HeadInv, Ship PROVE HeadInv'
  OBVIOUS
<1>1. /\ cfg \in Config /\ len \in Nat /\ held = [h \in KVHead |-> 0 .. len - 1]
      /\ UNCHANGED <<cfg, tensors, len, read, segpaged>>
      /\ cut' = [by |-> "pd", cfg |-> cfg]
      /\ held' = [h \in KVHead |-> held[h] \cap Shipped(cfg, h, len)]
  BY Zenon DEF HeadInv, Ship
<1>2. \A h \in KVHead : HoldsWindow(h)'
  <2>1. ASSUME NEW h \in KVHead, NEW p \in 0 .. len - 1, InWindow(cfg, h, p, len)
        PROVE  p \in held'[h]
    BY <1>1, <2>1, VisibleIs
  <2>2. \A h, p : InWindow(cut.cfg, h, p, len)' <=> InWindow(cfg, h, p, len)
    BY <1>1, ZenonT(60) DEF InWindow, Strategy
  <2> QED
    BY <1>1, <2>1, <2>2, ZenonT(60) DEF HoldsWindow
<1>3. SameLoad(cfg, cut.cfg)'
  BY <1>1, Zenon DEF SameLoad
<1>4. held' \in [KVHead -> SUBSET Int]
  BY <1>1
<1> QED
  BY <1>1, <1>2, <1>3, <1>4, Zenon DEF HeadInv, Strategy

\* So does a trim whose policy agrees with get_strategy.
LEMMA TrimHolds == HeadInv /\ Trim => HeadInv'
<1> SUFFICES ASSUME HeadInv, Trim PROVE HeadInv'
  OBVIOUS
<1>1. /\ cfg \in Config /\ len \in Nat /\ held = [h \in KVHead |-> 0 .. len - 1]
      /\ UNCHANGED <<cfg, tensors, len, read, segpaged>>
      /\ cut' = [by |-> "trim", cfg |-> cfg]
      /\ held' = [h \in KVHead |-> held[h] \cap Trimmed(cfg, h, len)]
  BY Zenon DEF HeadInv, Trim
<1>2. \A h \in KVHead : TrimAgrees(cfg, h) => HoldsWindow(h)'
  <2>1. ASSUME NEW h \in KVHead, TrimAgrees(cfg, h),
               NEW p \in 0 .. len - 1, InWindow(cfg, h, p, len)
        PROVE  p \in held'[h]
    BY <1>1, <2>1, TrimmedKeeps, Zenon
  <2>2. \A h, p : InWindow(cut.cfg, h, p, len)' <=> InWindow(cfg, h, p, len)
    BY <1>1, ZenonT(60) DEF InWindow, Strategy
  <2> QED
    BY <1>1, <2>1, <2>2, ZenonT(60) DEF HoldsWindow
<1>3. SameLoad(cfg, cut.cfg)'
  BY <1>1, Zenon DEF SameLoad
<1>4. held' \in [KVHead -> SUBSET Int]
  BY <1>1
<1> QED
  BY <1>1, <1>2, <1>3, <1>4, Zenon DEF HeadInv, Strategy, TrimAgrees

\* set_local_window and merge_retrieval_to_global clear the cached tensors.
LEMMA ReconfigureHolds ==
  ASSUME HeadInv, MergeRetrieval \/ \E w \in Windows : SetLocalWindow(w)
  PROVE  HeadInv'
<1>1. cfg \in Config /\ cut.cfg \in Config /\ SameLoad(cfg, cut.cfg)
  BY Zenon DEF HeadInv
<1>2. cfg' \in Config /\ SameLoad(cfg', cut.cfg)
  <2>1. CASE MergeRetrieval
    BY <1>1, <2>1, Reconfigured, Zenon DEF MergeRetrieval
  <2>2. CASE \E w \in Windows : SetLocalWindow(w)
    BY <1>1, <2>2, Reconfigured, Zenon DEF SetLocalWindow
  <2> QED
    BY <2>1, <2>2, Zenon
<1>3. tensors' = None /\ UNCHANGED <<len, held, cut, read, segpaged>>
  BY Zenon DEF MergeRetrieval, SetLocalWindow
<1>4. \A h : HoldsWindow(h) => HoldsWindow(h)'
  BY <1>3, ZenonT(60) DEF HoldsWindow, InWindow, Strategy
<1>5. \A h : TrimAgrees(cut.cfg, h) <=> TrimAgrees(cut.cfg, h)'
  BY <1>3, Zenon DEF TrimAgrees
<1>6. SameLoad(cfg, cut.cfg)'
  BY <1>2, <1>3, Zenon DEF SameLoad
<1> QED
  BY <1>2, <1>3, <1>4, <1>5, <1>6, Zenon DEF HeadInv

\* What as_tensors returns is the strategy of every head, cached or not.
LEMMA AsTensorsIs == HeadInv => AsTensors = [h \in KVHead |-> Strategy(cfg, h)]
BY Zenon DEF HeadInv, AsTensors

\* as_tensors caches the strategies of the configuration as it is.
LEMMA CacheHolds == HeadInv /\ Cache => HeadInv'
<1> SUFFICES ASSUME HeadInv, Cache PROVE HeadInv'
  OBVIOUS
<1>1. /\ tensors' = [h \in KVHead |-> Strategy(cfg, h)]
      /\ UNCHANGED <<cfg, len, held, cut, read, segpaged>>
  BY AsTensorsIs, Zenon DEF Cache
<1>2. \A h : HoldsWindow(h) => HoldsWindow(h)'
  <2>1. \A h, p : InWindow(cut.cfg, h, p, len)' <=> InWindow(cut.cfg, h, p, len)
    BY <1>1, ZenonT(60) DEF InWindow, Strategy
  <2> QED BY <1>1, <2>1, ZenonT(60) DEF HoldsWindow
<1>3. /\ \A h : TrimAgrees(cut.cfg, h) <=> TrimAgrees(cut.cfg, h)'
      /\ SameLoad(cfg, cut.cfg) => SameLoad(cfg, cut.cfg)'
  BY <1>1, Zenon DEF TrimAgrees, SameLoad
<1>4. tensors' = [h \in KVHead |-> Strategy(cfg, h)]'
  BY <1>1, Zenon DEF Strategy
<1> QED
  BY <1>1, <1>2, <1>3, <1>4, Zenon DEF HeadInv

\* A decode step, with or without SegPaged decode, adds its token, and windows only
\* move on.
LEMMA DecodeHolds == HeadInv /\ (Decode \/ DecodeDense) => HeadInv'
<1> SUFFICES ASSUME HeadInv, Decode \/ DecodeDense PROVE HeadInv'
  OBVIOUS
<1>1. /\ cut.cfg \in Config /\ len \in Nat /\ held \in [KVHead -> SUBSET Int]
      /\ tensors' = None \/ tensors' = [h \in KVHead |-> Strategy(cfg, h)]
      /\ len' = len + 1
      /\ held' = [h \in KVHead |-> held[h] \cup {len}]
      /\ UNCHANGED <<cfg, cut>>
  BY AsTensorsIs, Zenon DEF Decode, DecodeDense, WriteToken, HeadInv
<1>2. ASSUME NEW h \in KVHead, HoldsWindow(h) PROVE HoldsWindow(h)'
  <2> SUFFICES ASSUME NEW p \in 0 .. len, InWindow(cut.cfg, h, p, len + 1)
               PROVE  p \in held'[h]
    <3>1. \A p : InWindow(cut.cfg, h, p, len)' <=> InWindow(cut.cfg, h, p, len + 1)
      BY <1>1, ZenonT(60) DEF InWindow, Strategy
    <3>2. len' - 1 = len
      BY <1>1
    <3> QED BY <3>1, <3>2, ZenonT(60) DEF HoldsWindow
  <2>1. CASE p = len
    BY <1>1, <2>1, Zenon
  <2>2. CASE p \in 0 .. len - 1
    <3>1. InWindow(cut.cfg, h, p, len)
      BY <1>1, <2>2, WindowMovesOn, Zenon
    <3>2. p \in held[h]
      BY <1>2, <2>2, <3>1, Zenon DEF HoldsWindow
    <3> QED
      BY <1>1, <3>2, Zenon
  <2> QED
    BY <1>1, <2>1, <2>2
<1>3. /\ \A h : TrimAgrees(cut.cfg, h) <=> TrimAgrees(cut.cfg, h)'
      /\ SameLoad(cfg, cut.cfg) => SameLoad(cfg, cut.cfg)'
  BY <1>1, Zenon DEF TrimAgrees, SameLoad
<1>4. tensors' = None \/ tensors' = [h \in KVHead |-> Strategy(cfg, h)]'
  BY <1>1, Zenon DEF Strategy
<1>5. held' \in [KVHead -> SUBSET Int]
  BY <1>1
<1>6. cut.by = "none" => held' = [h \in KVHead |-> 0 .. len' - 1]
  <2> SUFFICES ASSUME cut.by = "none" PROVE held' = [h \in KVHead |-> 0 .. len' - 1]
    OBVIOUS
  <2>1. held = [h \in KVHead |-> 0 .. len - 1]
    BY Zenon DEF HeadInv
  <2>2. (0 .. len - 1) \cup {len} = 0 .. (len + 1) - 1
    BY <1>1
  <2> QED
    BY <1>1, <2>1, <2>2, Zenon
<1>7. \A h \in KVHead : (cut'.by = "trim" => TrimAgrees(cut.cfg, h)') => HoldsWindow(h)'
  BY <1>1, <1>2, <1>3, Zenon DEF HeadInv
<1>8. len' \in Nat
  BY <1>1
<1> QED
  BY <1>1, <1>3, <1>4, <1>5, <1>6, <1>7, <1>8, Zenon DEF HeadInv

\* Every step keeps the invariant.
LEMMA HeadStep == HeadInv /\ [HeadNext]_headVars => HeadInv'
<1> SUFFICES ASSUME HeadInv, [HeadNext]_headVars PROVE HeadInv'
  OBVIOUS
<1>1. CASE UNCHANGED headVars
  <2>1. /\ cfg' = cfg /\ tensors' = tensors /\ len' = len
        /\ held' = held /\ cut' = cut /\ read' = read /\ segpaged' = segpaged
    BY <1>1, Zenon DEF headVars
  <2>2. /\ \A h : HoldsWindow(h)' <=> HoldsWindow(h)
        /\ SameLoad(cfg, cut.cfg)' <=> SameLoad(cfg, cut.cfg)
        /\ \A h : TrimAgrees(cut.cfg, h)' <=> TrimAgrees(cut.cfg, h)
        /\ \A h : Strategy(cfg, h)' = Strategy(cfg, h)
    BY <2>1, ZenonT(60) DEF HoldsWindow, SameLoad, TrimAgrees, InWindow, Strategy
  <2> QED BY <2>1, <2>2, Zenon DEF HeadInv
<1> QED
  BY <1>1, ShipHolds, TrimHolds, ReconfigureHolds, CacheHolds, DecodeHolds, Zenon DEF HeadNext

\* What the head configuration, the cached tensors, the history of the cut and the
\* KV still held have to do with one another, in every reachable state: the tensors
\* are those of the configuration, and a head's KV cut by a transfer (or by a trim
\* whose policy agrees with get_strategy) still has all that its window of the cut
\* admits.
THEOREM HeadInvariant == HeadSpec => []HeadInv
BY HeadStep, InitHolds, PTL DEF HeadSpec

----------------------------------------------------------------------------
(* What a decode step reads                                                 *)

\* Only a decode step changes the length.
LEMMA OnlyDecodeGrows ==
  ASSUME HeadNext, len' # len PROVE Decode \/ DecodeDense
BY Zenon DEF HeadNext, Ship, Trim, MergeRetrieval, SetLocalWindow, Cache

\* Every SegPaged decode step reads, for every head, exactly the sink and the window
\* that the configuration has now, for every configuration, length and history of
\* set_local_window and as_tensors.
THEOREM DecodeReadsWindow == HeadSpec => ReadsWindow
<1>1. ASSUME HeadInv, [HeadNext]_headVars
      PROVE  [len' # len /\ segpaged => \A h \in KVHead :
                read'[h] = {p \in 0 .. len' - 1 : InWindow(cfg, h, p, len')}]_headVars
  <2> SUFFICES ASSUME HeadNext, len' # len, segpaged, NEW h \in KVHead
               PROVE  read'[h] = {p \in 0 .. len' - 1 : InWindow(cfg, h, p, len')}
    BY <1>1, Zenon
  <2>1. Decode
    BY OnlyDecodeGrows, Zenon DEF DecodeDense
  <2>2. /\ cfg \in Config /\ len' \in Nat
        /\ read'[h] = Visible(Strategy(cfg, h), len')
    BY <1>1, <2>1, AsTensorsIs DEF Decode, WriteToken, HeadInv
  <2> QED
    BY <2>2, VisibleIs, Zenon
<1> QED
  BY <1>1, HeadInvariant, PTL DEF HeadSpec, ReadsWindow

\* What a decode step reads of a head it masks lies in the window of the cut: the
\* window is no wider now, and a head without one was not cut.
LEMMA MaskedReads ==
  ASSUME HeadInv, Decode \/ DecodeDense, NEW h \in KVHead, Masked(h), NEW p \in read'[h]
  PROVE  p \in 0 .. len' - 1 /\ InWindow(cut.cfg, h, p, len')
<1>1. /\ cfg \in Config /\ cut.cfg \in Config /\ SameLoad(cfg, cut.cfg)
      /\ len \in Nat /\ len' = len + 1
  BY Zenon DEF HeadInv, Decode, DecodeDense, WriteToken
<1>2. len' \in Nat
  BY <1>1
<1>3. CASE Strategy(cut.cfg, h).class = "local"
  <2>1. segpaged /\ cfg.head[h].dist <= cut.cfg.head[h].dist
    BY <1>3, Zenon DEF Masked
  <2>2. read'[h] = Visible(Strategy(cfg, h), len')
    BY <2>1, AsTensorsIs, Zenon DEF Decode, DecodeDense
  <2>3. p \in 0 .. len' - 1 /\ InWindow(cfg, h, p, len')
    BY <1>1, <1>2, <2>2, VisibleIs
  <2> QED BY <1>1, <1>2, <2>1, <2>3, NarrowerWindow, Zenon
<1>4. CASE Strategy(cut.cfg, h).class # "local"
  <2>1. InWindow(cut.cfg, h, p, len')
    BY <1>4, Zenon DEF InWindow
  <2>2. p \in 0 .. len' - 1
    <3>1. CASE DecodeDense
      BY <3>1, Zenon DEF DecodeDense
    <3>2. CASE Decode
      <4>1. read'[h] = Visible(Strategy(cfg, h), len')
        BY <3>2, AsTensorsIs, Zenon DEF Decode
      <4> QED BY <1>1, <1>2, <4>1, VisibleIs
    <3> QED BY <3>1, <3>2
  <2> QED BY <2>1, <2>2
<1> QED BY <1>3, <1>4

\* No decode step reads a zero that stands for KV cut away by a transfer between
\* prefill and decode or by a trim, of a head that it masks: SegPaged decode is on,
\* the head's window was not widened, and the trim policy agrees with get_strategy.
\* A head without a window is read whole on either path, and was not cut.
THEOREM DecodeReadsHeld == HeadSpec => NoPaddingRead
<1>1. ASSUME HeadInv, HeadInv', [HeadNext]_headVars
      PROVE  [len' # len => \A h \in KVHead :
                cut.by = "none" \/ Masked(h) => read'[h] \subseteq held'[h]]_headVars
  <2> SUFFICES ASSUME HeadNext, len' # len, NEW h \in KVHead, cut.by = "none" \/ Masked(h),
                      NEW p \in read'[h]
               PROVE  p \in held'[h]
    BY <1>1, Zenon
  <2>1. Decode \/ DecodeDense
    BY OnlyDecodeGrows, Zenon
  <2>2. cut' = cut /\ cfg \in Config /\ len' \in Nat
    BY <1>1, <2>1, Zenon DEF Decode, DecodeDense, HeadInv
  <2>3. CASE cut.by = "none"
    <3>1. held'[h] = 0 .. len' - 1
      BY <1>1, <2>2, <2>3, Zenon DEF HeadInv
    <3>2. read'[h] = Visible(Strategy(cfg, h), len') \/ read'[h] = 0 .. len' - 1
      BY <1>1, <2>1, AsTensorsIs, Zenon DEF Decode, DecodeDense
    <3>3. Visible(Strategy(cfg, h), len') \subseteq 0 .. len' - 1
      BY <2>2, VisibleIs
    <3> QED BY <3>1, <3>2, <3>3, Zenon
  <2>4. CASE Masked(h)
    <3>1. p \in 0 .. len' - 1 /\ InWindow(cut.cfg, h, p, len')
      BY <1>1, <2>1, <2>4, MaskedReads, Zenon
    <3>2. HoldsWindow(h)'
      <4>1. cut.by = "trim" => TrimAgrees(cut.cfg, h)'
        BY <2>2, <2>4, Zenon DEF Masked, TrimAgrees
      <4> QED BY <1>1, <2>2, <4>1, Zenon DEF HeadInv
    <3>3. InWindow(cut.cfg, h, p, len)'
      BY <2>2, <3>1, Zenon DEF InWindow, Strategy
    <3> QED BY <3>1, <3>2, <3>3, Zenon DEF HoldsWindow
  <2> QED BY <2>3, <2>4
<1> QED
  BY <1>1, HeadInvariant, PTL DEF HeadSpec, NoPaddingRead

----------------------------------------------------------------------------
(* Positions and pages                                                      *)

\* torch.arange
LEMMA ArangeIs ==
  ASSUME NEW a \in Nat, NEW b \in Nat, a <= b
  PROVE  /\ Arange(a, b) \in Seq(Int) /\ Len(Arange(a, b)) = b - a
         /\ \A i \in 1 .. b - a : Arange(a, b)[i] = a + i - 1
BY DEF Arange

\* The positions a head keeps are those it may see, each once and in order; a
\* local head keeps no more than its sink and window.
LEMMA KeptIs ==
  ASSUME NEW n \in Nat, NEW s, s.class = "local" => s.sink \in Nat /\ s.window \in Nat
  PROVE  /\ Kept(s, n) \in Seq(Int) /\ Len(Kept(s, n)) \in Nat
         /\ \A i \in 1 .. Len(Kept(s, n)) : Kept(s, n)[i] >= 0
         /\ \A i, j \in 1 .. Len(Kept(s, n)) : i < j => Kept(s, n)[i] < Kept(s, n)[j]
         /\ Range(Kept(s, n)) = Visible(s, n)
         /\ s.class = "local" => Len(Kept(s, n)) <= s.sink + s.window
<1>1. CASE s.class = "local"
  <2> DEFINE sink == AtMost(s.sink, n)
             back == n - AtMost(s.window, n)
             tail == IF back > sink THEN back ELSE sink
             A == Arange(0, sink)
             B == Arange(tail, n)
  <2>1. /\ sink \in Nat /\ sink <= n /\ sink <= s.sink
        /\ tail \in Nat /\ tail <= n /\ sink <= tail /\ n - tail <= s.window
    BY <1>1 DEF AtMost
  <2>2. Kept(s, n) = A \o B
    BY <1>1, Zenon DEF Kept
  <2>3. Visible(s, n) = (0 .. sink - 1) \cup (tail .. n - 1)
    BY <1>1, Zenon DEF Visible, LocalVisible
  <2> HIDE DEF sink, back, tail
  <2>4. /\ A \in Seq(Int) /\ Len(A) = sink /\ \A i \in 1 .. sink : A[i] = i - 1
        /\ B \in Seq(Int) /\ Len(B) = n - tail /\ \A i \in 1 .. n - tail : B[i] = tail + i - 1
    <3>1. A \in Seq(Int) /\ Len(A) = sink - 0 /\ \A i \in 1 .. sink - 0 : A[i] = 0 + i - 1
      <4>1. 0 \in Nat /\ 0 <= sink
        BY <2>1
      <4> QED BY <2>1, <4>1, ArangeIs, Zenon
    <3>2. B \in Seq(Int) /\ Len(B) = n - tail /\ \A i \in 1 .. n - tail : B[i] = tail + i - 1
      BY <2>1, ArangeIs, Zenon
    <3> QED BY <2>1, <3>1, <3>2
  <2> HIDE DEF A, B
  <2> DEFINE K == A \o B
             m == sink + n - tail
  <2>5. /\ K \in Seq(Int) /\ Len(K) = m /\ m \in Nat /\ DOMAIN K = 1 .. m
        /\ \A i \in 1 .. m : K[i] = IF i <= sink THEN i - 1 ELSE tail + (i - sink) - 1
    <3>1. K \in Seq(Int) /\ Len(K) = Len(A) + Len(B) /\ DOMAIN K = 1 .. Len(A) + Len(B)
      <4>1. A \in Seq(Int) /\ B \in Seq(Int)
        BY <2>4, Zenon
      <4>2. K \in Seq(Int) /\ Len(K) = Len(A) + Len(B)
        BY <4>1, ConcatProperties, Zenon
      <4>3. DOMAIN K = 1 .. Len(K)
        BY <4>2, LenProperties, Zenon
      <4> QED BY <4>2, <4>3, Zenon
    <3>2. \A i \in 1 .. Len(A) + Len(B) : K[i] = IF i <= Len(A) THEN A[i] ELSE B[i - Len(A)]
      <4>1. A \in Seq(Int) /\ B \in Seq(Int)
        BY <2>4, Zenon
      <4> QED BY <4>1, ConcatProperties, Zenon
    <3>3. Len(A) + Len(B) = m /\ m \in Nat
      BY <2>1, <2>4
    <3>4. ASSUME NEW i \in 1 .. m PROVE K[i] = IF i <= sink THEN i - 1 ELSE tail + (i - sink) - 1
      <4>1. CASE i <= sink
        <5>1. i \in 1 .. sink
          BY <2>1, <3>3, <4>1
        <5> QED BY <2>4, <3>2, <3>3, <4>1, <5>1, Zenon
      <4>2. CASE ~(i <= sink)
        <5>1. i - sink \in 1 .. n - tail
          BY <2>1, <3>3, <4>2
        <5> QED BY <2>4, <3>2, <3>3, <4>2, <5>1, Zenon
      <4> QED BY <4>1, <4>2, Zenon
    <3> QED BY <3>1, <3>3, <3>4, Zenon
  <2> HIDE DEF K
  <2>6. \A i \in 1 .. m : K[i] >= 0
    BY <2>1, <2>5
  <2>7. \A i, j \in 1 .. m : i < j => K[i] < K[j]
    <3> SUFFICES ASSUME NEW i \in 1 .. m, NEW j \in 1 .. m, i < j PROVE K[i] < K[j]
      OBVIOUS
    <3>1. CASE i <= sink /\ j <= sink
      BY <2>1, <2>5, <3>1
    <3>2. CASE i <= sink /\ ~(j <= sink)
      BY <2>1, <2>5, <3>2
    <3>3. CASE ~(i <= sink) /\ ~(j <= sink)
      BY <2>1, <2>5, <3>3
    <3>4. m \in Nat /\ sink \in Nat
      BY <2>1, <2>5, Zenon
    <3> QED BY <3>1, <3>2, <3>3, <3>4
  <2>8. Range(K) = (0 .. sink - 1) \cup (tail .. n - 1)
    <3>1. ASSUME NEW i \in 1 .. m PROVE K[i] \in (0 .. sink - 1) \cup (tail .. n - 1)
      BY <2>1, <2>5, <3>1
    <3>2. ASSUME NEW p \in 0 .. sink - 1 PROVE p + 1 \in 1 .. m /\ K[p + 1] = p
      BY <2>1, <2>5, <3>2
    <3>3. ASSUME NEW p \in tail .. n - 1 PROVE p - tail + sink + 1 \in 1 .. m /\ K[p - tail + sink + 1] = p
      BY <2>1, <2>5, <3>3
    <3>4. Range(K) = {K[i] : i \in 1 .. m}
      BY <2>5, Zenon DEF Range
    <3> HIDE DEF m
    <3> QED BY <3>1, <3>2, <3>3, <3>4, Zenon
  <2>9. m <= s.sink + s.window
    BY <1>1, <2>1
  <2> QED BY <2>2, <2>3, <2>5, <2>6, <2>7, <2>8, <2>9, Zenon DEF K
<1>2. CASE s.class # "local"
  <2>1. Kept(s, n) = Arange(0, n) /\ Visible(s, n) = 0 .. n - 1
    BY <1>2, Zenon DEF Kept, Visible
  <2>2. /\ Arange(0, n) \in Seq(Int) /\ Len(Arange(0, n)) = n - 0
        /\ \A i \in 1 .. n - 0 : Arange(0, n)[i] = 0 + i - 1
    BY ArangeIs
  <2> DEFINE K == Arange(0, n)
  <2>3. K \in Seq(Int) /\ Len(K) = n /\ DOMAIN K = 1 .. n /\ \A i \in 1 .. n : K[i] = i - 1
    BY <2>2
  <2> HIDE DEF K
  <2>4. Range(K) = 0 .. n - 1
    <3>1. Range(K) = {K[i] : i \in 1 .. n}
      BY <2>3, Zenon DEF Range
    <3>2. ASSUME NEW p \in 0 .. n - 1 PROVE p + 1 \in 1 .. n /\ K[p + 1] = p
      BY <2>3
    <3>3. ASSUME NEW i \in 1 .. n PROVE K[i] \in 0 .. n - 1
      BY <2>3
    <3> QED BY <3>1, <3>2, <3>3, Zenon
  <2> QED BY <1>2, <2>1, <2>3, <2>4 DEF K
<1> QED BY <1>1, <1>2, Zenon

\* The page and the slot of a token, and the pages of n tokens
LEMMA PageArithmetic ==
  ASSUME NEW n \in Nat, NEW i \in 1 .. n
  PROVE  LET p == ((i - 1) \div PageSize) + 1
             t == ((i - 1) % PageSize) + 1
         IN  /\ NumPages(n) \in Nat /\ p \in 1 .. NumPages(n) /\ t \in 1 .. PageSize
             /\ (p - 1) * PageSize + t = i
<1>1. PageSize \in Nat /\ PageSize > 0
  BY PagedAssumption
<1> QED BY <1>1 DEF NumPages

----------------------------------------------------------------------------
(* The pool                                                                 *)

\* a token of a page
Slot == [head : Int, pos : Int]

\* a SegPagedKVCache
Pool == [pages : Seq([1 .. PageSize -> Slot]), table : Seq([ids : Seq(Nat), n : Nat])]

\* the segment of head k has the pages of kv
Holds(p, k, kv) ==
  LET seg == p.table[k + 1]
  IN  /\ seg.n = Len(kv) /\ Len(seg.ids) = NumPages(Len(kv))
      /\ \A i \in 1 .. NumPages(Len(kv)) :
           seg.ids[i] \in 1 .. Len(p.pages) /\ p.pages[seg.ids[i]] = Page(kv, i)

\* A number of tokens has a number of pages.
LEMMA NumPagesNat == ASSUME NEW n \in Nat PROVE NumPages(n) \in Nat
BY PagedAssumption DEF NumPages

\* add_head_segment takes fresh pages: the segments before it stay as they are.
LEMMA AddKeeps ==
  ASSUME NEW p \in Pool, NEW kv \in Seq(Slot)
  PROVE  LET q == AddHeadSegment(p, kv) IN
         /\ q \in Pool /\ Len(q.table) = Len(p.table) + 1
         /\ Holds(q, Len(p.table), kv)
         /\ \A k \in 0 .. Len(p.table) - 1 : \A kv2 \in Seq(Slot) :
              Holds(p, k, kv2) => Holds(q, k, kv2)
<1> DEFINE P == [1 .. PageSize -> Slot]
           T == [ids : Seq(Nat), n : Nat]
           m == NumPages(Len(kv))
           ids == [i \in 1 .. m |-> Len(p.pages) + i]
           new == [i \in 1 .. m |-> Page(kv, i)]
           seg == [ids |-> ids, n |-> Len(kv)]
           q == [pages |-> p.pages \o new, table |-> Append(p.table, seg)]
<1>1. /\ p.pages \in Seq(P) /\ p.table \in Seq(T) /\ Len(p.pages) \in Nat /\ Len(p.table) \in Nat
      /\ Len(kv) \in Nat
  BY DEF Pool
<1>2. m \in Nat
  BY <1>1, NumPagesNat, Zenon
<1>3. AddHeadSegment(p, kv) = q
  BY <1>2 DEF AddHeadSegment, AllocPages
<1> HIDE DEF m
<1>4. /\ ids \in Seq(Nat) /\ Len(ids) = m /\ \A i \in 1 .. m : ids[i] = Len(p.pages) + i
  BY <1>1, <1>2
<1>5. /\ new \in Seq(P) /\ Len(new) = m /\ \A i \in 1 .. m : new[i] = Page(kv, i)
  <2>1. \A i \in 1 .. m : Page(kv, i) \in P
    <3> SUFFICES ASSUME NEW i \in 1 .. m, NEW j \in 1 .. PageSize
                 PROVE  (IF (i - 1) * PageSize + j <= Len(kv) THEN kv[(i - 1) * PageSize + j] ELSE Blank) \in Slot
      BY Zenon DEF Page
    <3>1. (i - 1) * PageSize + j \in Nat /\ (i - 1) * PageSize + j > 0
      BY <1>2, PagedAssumption
    <3> HIDE DEF ids, new, seg
    <3>2. Blank \in Slot
      BY DEF Blank, Slot
    <3>3. (i - 1) * PageSize + j <= Len(kv) => kv[(i - 1) * PageSize + j] \in Slot
      BY <3>1, <1>1
    <3> QED BY <3>2, <3>3, Zenon
  <2> HIDE DEF P
  <2> QED BY <1>2, <2>1
<1>6. seg \in T /\ seg.ids = ids /\ seg.n = Len(kv)
  BY <1>1, <1>4, Zenon
<1> HIDE DEF P, T, ids, new, seg
<1>7. /\ p.pages \o new \in Seq(P) /\ Len(p.pages \o new) = Len(p.pages) + m
      /\ \A i \in 1 .. Len(p.pages) + m :
           (p.pages \o new)[i] = IF i <= Len(p.pages) THEN p.pages[i] ELSE new[i - Len(p.pages)]
  <2>1. /\ p.pages \o new \in Seq(P) /\ Len(p.pages \o new) = Len(p.pages) + Len(new)
        /\ \A i \in 1 .. Len(p.pages) + Len(new) :
             (p.pages \o new)[i] = IF i <= Len(p.pages) THEN p.pages[i] ELSE new[i - Len(p.pages)]
    BY <1>1, <1>5, ConcatProperties, Zenon
  <2> QED BY <1>5, <2>1, Zenon
<1>8. /\ Append(p.table, seg) \in Seq(T) /\ Len(Append(p.table, seg)) = Len(p.table) + 1
      /\ \A i \in 1 .. Len(p.table) : Append(p.table, seg)[i] = p.table[i]
      /\ Append(p.table, seg)[Len(p.table) + 1] = seg
  <2>1. p.table \in Seq(T) /\ seg \in T
    BY <1>1, <1>6, Zenon
  <2> QED BY <2>1, AppendProperties
<1>9. q \in Pool /\ Len(q.table) = Len(p.table) + 1
  <2>1. Pool = [pages : Seq(P), table : Seq(T)]
    BY Zenon DEF Pool, P, T
  <2>2. q.table = Append(p.table, seg)
    OBVIOUS
  <2> QED BY <1>7, <1>8, <2>1, <2>2, Zenon
<1>10. q.pages = p.pages \o new /\ q.table = Append(p.table, seg)
  OBVIOUS
<1> HIDE DEF q
<1>11. Holds(q, Len(p.table), kv)
  <2>1. q.table[Len(p.table) + 1] = seg
    BY <1>8, <1>10, Zenon
  <2>2. ASSUME NEW i \in 1 .. m
        PROVE  ids[i] \in 1 .. Len(q.pages) /\ q.pages[ids[i]] = Page(kv, i)
    <3>1. /\ ids[i] = Len(p.pages) + i /\ ids[i] \in 1 .. Len(p.pages) + m
          /\ ~(ids[i] <= Len(p.pages)) /\ ids[i] - Len(p.pages) = i
      BY <1>1, <1>2, <1>4
    <3> QED BY <1>5, <1>7, <1>10, <3>1, Zenon
  <2> QED BY <1>4, <1>6, <2>1, <2>2, Zenon DEF Holds, m
<1>12. ASSUME NEW k \in 0 .. Len(p.table) - 1, NEW kv2 \in Seq(Slot), Holds(p, k, kv2)
       PROVE  Holds(q, k, kv2)
  <2>1. k + 1 \in 1 .. Len(p.table)
    BY <1>1
  <2>2. q.table[k + 1] = p.table[k + 1]
    BY <1>8, <1>10, <2>1, Zenon
  <2>3. ASSUME NEW j \in 1 .. Len(p.pages)
        PROVE  j \in 1 .. Len(q.pages) /\ q.pages[j] = p.pages[j]
    BY <1>1, <1>2, <1>7, <1>10
  <2> QED BY <1>12, <2>2, <2>3, Zenon DEF Holds
<1> QED BY <1>3, <1>9, <1>11, <1>12, Zenon

\* gather_segment gives back what add_head_segment stored, across page boundaries.
LEMMA GatherGives ==
  ASSUME NEW p, NEW k \in Nat, NEW kv \in Seq(Slot), Holds(p, k, kv)
  PROVE  GatherHead(p, k) = kv
<1> DEFINE n == Len(kv)
           seg == p.table[k + 1]
<1>1. n \in Nat /\ seg.n = n /\ kv = [i \in 1 .. n |-> kv[i]]
  BY DEF Holds
<1>2. ASSUME NEW i \in 1 .. n
      PROVE  p.pages[seg.ids[((i - 1) \div PageSize) + 1]][((i - 1) % PageSize) + 1] = kv[i]
  <2>1. PICK a, t : a = ((i - 1) \div PageSize) + 1 /\ t = ((i - 1) % PageSize) + 1
    OBVIOUS
  <2>2. a \in 1 .. NumPages(n) /\ t \in 1 .. PageSize /\ (a - 1) * PageSize + t = i
    BY <1>1, <2>1, PageArithmetic, Zenon
  <2>3. p.pages[seg.ids[a]] = Page(kv, a)
    BY <2>2, Zenon DEF Holds
  <2>4. Page(kv, a)[t] = IF (a - 1) * PageSize + t <= Len(kv) THEN kv[(a - 1) * PageSize + t] ELSE Blank
    BY <2>2, Zenon DEF Page
  <2>5. Page(kv, a)[t] = kv[i]
    BY <1>1, <2>2, <2>4
  <2> QED BY <2>1, <2>3, <2>5, Zenon
<1>3. GatherHead(p, k) = [i \in 1 .. n |-> p.pages[seg.ids[((i - 1) \div PageSize) + 1]][((i - 1) % PageSize) + 1]]
  BY <1>1, Zenon DEF GatherHead
<1> HIDE DEF n, seg
<1> QED BY <1>1, <1>2, <1>3, Zenon

----------------------------------------------------------------------------
(* The invariant of a decode step                                           *)

\* what head k of rank r stores in this step
Stored(r, k) == KVOf(r * PerRank + k, Kept(Strategy(cfg, r * PerRank + k), len + 1))

\* a rank that has a plan has the strategies of its heads, has stored the first of
\* them, and has gathered what it stored
RankInv(r) ==
  /\ segpaged /\ len < MaxLen
  /\ tensors = [h \in KVHead |-> Strategy(cfg, h)]
  /\ plan[r] = [k \in 0 .. PerRank - 1 |-> Strategy(cfg, r * PerRank + k)]
  /\ Len(pool[r].table) <= PerRank
  /\ \A k \in 0 .. Len(pool[r].table) - 1 : Holds(pool[r], k, Stored(r, k))
  /\ view[r] # None => view[r] = [k \in 0 .. PerRank - 1 |-> Stored(r, k)]

\* the inductive invariant of a decode step
PagedInv ==
  /\ HeadInv
  /\ DOMAIN plan = Rank /\ DOMAIN view = Rank /\ pool \in [Rank -> Pool]
  /\ \A r \in Rank : /\ plan[r] = None => pool[r] = EmptyPool /\ view[r] = None
                     /\ plan[r] # None => RankInv(r)

\* The heads are those of the ranks, one after the other.
LEMMA HeadsOfRanks ==
  /\ PerRank \in Nat
  /\ \A r \in Rank : \A k \in 0 .. PerRank - 1 : r * PerRank + k \in KVHead
  /\ \A h \in KVHead : /\ h \div PerRank \in Rank /\ h % PerRank \in 0 .. PerRank - 1
                       /\ (h \div PerRank) * PerRank + (h % PerRank) = h
<1>1. KVHeads \in Nat /\ TPSize \in Nat /\ TPSize > 0 /\ KVHeads % TPSize = 0
  BY HeadAssumption, PagedAssumption
<1>2. PerRank \in Nat /\ KVHeads = TPSize * PerRank
  BY <1>1 DEF PerRank
<1> HIDE DEF PerRank
<1>3. ASSUME NEW r \in Rank, NEW k \in 0 .. PerRank - 1 PROVE r * PerRank + k \in KVHead
  <2>1. r \in Nat /\ r + 1 <= TPSize /\ k \in Nat /\ k < PerRank
    BY <1>1, <1>2 DEF Rank
  <2>2. (r + 1) * PerRank <= TPSize * PerRank
    BY <1>1, <1>2, <2>1
  <2>3. r * PerRank \in Nat /\ (r + 1) * PerRank = r * PerRank + PerRank
    BY <1>2, <2>1
  <2> QED BY <1>1, <1>2, <2>1, <2>2, <2>3 DEF KVHead
<1>4. ASSUME NEW h \in KVHead
      PROVE  /\ h \div PerRank \in Rank /\ h % PerRank \in 0 .. PerRank - 1
             /\ (h \div PerRank) * PerRank + (h % PerRank) = h
  <2>1. h \in Nat /\ h < TPSize * PerRank
    BY <1>1, <1>2 DEF KVHead
  <2>2. PerRank > 0
    BY <1>1, <1>2, <2>1
  <2>3. /\ h \div PerRank \in Nat /\ h % PerRank \in 0 .. PerRank - 1
        /\ (h \div PerRank) * PerRank + (h % PerRank) = h
    BY <1>2, <2>1, <2>2
  <2>4. h \div PerRank < TPSize
    <3>1. (h \div PerRank) * PerRank < TPSize * PerRank
      BY <1>1, <1>2, <2>1, <2>3
    <3>2. PICK a \in Nat : a = h \div PerRank
      BY <2>3, Zenon
    <3>3. ASSUME a >= TPSize PROVE FALSE
      <4>1. PICK d \in Nat : a = TPSize + d
        BY <1>1, <3>3
      <4>2. a * PerRank = TPSize * PerRank + d * PerRank /\ d * PerRank \in Nat
        BY <1>1, <1>2, <4>1
      <4> QED BY <1>1, <1>2, <3>1, <3>2, <4>2
    <3> QED BY <1>1, <3>2, <3>3
  <2> QED BY <1>1, <2>3, <2>4 DEF Rank
<1> QED BY <1>2, <1>3, <1>4, Zenon

\* index_select of increasing positions: tokens of that head, at those positions, in
\* the same order
LEMMA KVOfIs ==
  ASSUME NEW idx \in Seq(Int), NEW h \in Int,
         \A i, j \in 1 .. Len(idx) : i < j => idx[i] < idx[j]
  PROVE  LET kv == KVOf(h, idx) IN
         /\ kv \in Seq(Slot) /\ Len(kv) = Len(idx)
         /\ \A i \in 1 .. Len(kv) : kv[i].head = h
         /\ \A i, j \in 1 .. Len(kv) : i < j => kv[i].pos < kv[j].pos
         /\ Positions(kv) = Range(idx)
<1> DEFINE n == Len(idx)
           tok == [i \in 1 .. n |-> [head |-> h, pos |-> idx[i]]]
<1>1. KVOf(h, idx) = tok
  BY Zenon DEF KVOf
<1>2. n \in Nat /\ DOMAIN idx = 1 .. n
  OBVIOUS
<1>3. \A i \in 1 .. n : tok[i] = [head |-> h, pos |-> idx[i]] /\ tok[i].head = h /\ tok[i].pos = idx[i]
  BY Zenon
<1>4. tok \in Seq(Slot) /\ Len(tok) = n /\ DOMAIN tok = 1 .. n
  <2>1. \A i \in 1 .. n : [head |-> h, pos |-> idx[i]] \in Slot
    BY <1>2 DEF Slot
  <2> QED BY <1>2, <2>1
<1> HIDE DEF tok, n
<1>5. Range(tok) = {tok[i] : i \in 1 .. n} /\ Range(idx) = {idx[i] : i \in 1 .. n}
  BY <1>2, <1>4, Zenon DEF Range
<1>6. Positions(tok) = Range(idx)
  <2>1. \A i \in 1 .. n : tok[i].pos = idx[i]
    BY <1>3, Zenon
  <2>2. Positions(tok) = {tok[i].pos : i \in 1 .. n}
    BY <1>5, Zenon DEF Positions
  <2> QED BY <1>5, <2>1, <2>2
<1>7. \A i, j \in 1 .. n : i < j => tok[i].pos < tok[j].pos
  BY <1>3, Zenon DEF n
<1> QED BY <1>1, <1>3, <1>4, <1>6, <1>7, Zenon DEF n

\* What a head stores is what it may see of it, in order.
LEMMA StoredIs ==
  ASSUME HeadInv, NEW r \in Rank, NEW k \in 0 .. PerRank - 1
  PROVE  LET h == r * PerRank + k IN
         /\ Stored(r, k) \in Seq(Slot)
         /\ Len(Stored(r, k)) = Len(Kept(Strategy(cfg, h), len + 1))
         /\ \A i \in 1 .. Len(Stored(r, k)) : Stored(r, k)[i].head = h
         /\ \A i, j \in 1 .. Len(Stored(r, k)) : i < j => Stored(r, k)[i].pos < Stored(r, k)[j].pos
         /\ Positions(Stored(r, k)) = Visible(Strategy(cfg, h), len + 1)
<1>1. PICK h, s, idx : /\ h = r * PerRank + k /\ s = Strategy(cfg, h)
                       /\ idx = Kept(s, len + 1)
  OBVIOUS
<1>2. cfg \in Config /\ len + 1 \in Nat /\ h \in KVHead /\ h \in Int
  BY <1>1, HeadsOfRanks DEF HeadInv, KVHead
<1>3. s.class = "local" => s.sink \in Nat /\ s.window \in Nat
  BY <1>1, <1>2, StrategyOf, Zenon
<1>4. /\ idx \in Seq(Int) /\ \A i, j \in 1 .. Len(idx) : i < j => idx[i] < idx[j]
      /\ Range(idx) = Visible(s, len + 1)
  BY <1>1, <1>2, <1>3, KeptIs, Zenon
<1>5. Stored(r, k) = KVOf(h, idx)
  BY <1>1, Zenon DEF Stored
<1>6. PICK kv : kv = KVOf(h, idx)
  OBVIOUS
<1>7. /\ kv \in Seq(Slot) /\ Len(kv) = Len(idx)
      /\ \A i \in 1 .. Len(kv) : kv[i].head = h
      /\ \A i, j \in 1 .. Len(kv) : i < j => kv[i].pos < kv[j].pos
      /\ Positions(kv) = Range(idx)
  BY <1>2, <1>4, <1>6, KVOfIs, Zenon
<1> QED BY <1>1, <1>4, <1>5, <1>6, <1>7, Zenon

\* No rank has begun a decode step.
LEMMA InitPaged == Init => PagedInv
<1> SUFFICES ASSUME Init PROVE PagedInv
  OBVIOUS
<1>1. HeadInv
  BY InitHolds, Zenon DEF Init
<1>2. EmptyPool \in Pool
  BY DEF EmptyPool, Pool
<1> QED BY <1>1, <1>2, Zenon DEF Init, PagedInv

\* A step of a rank, of all of them, or between two decode steps is a step of
\* HeadClassKV or leaves what it describes alone: planning caches the tensors, and
\* the end of a decode step reads what the heads may see.
LEMMA PagedRefines == PagedInv /\ [Next]_vars => [HeadNext]_headVars
<1> SUFFICES ASSUME PagedInv, [Next]_vars PROVE [HeadNext]_headVars
  OBVIOUS
<1>1. ASSUME NEW r \in Rank, BuildPlan(r) PROVE Cache
  BY <1>1, Zenon DEF BuildPlan, Cache
<1>2. ASSUME NEW r \in Rank, StoreHead(r) \/ Attend(r) PROVE UNCHANGED headVars
  BY <1>2, Zenon DEF StoreHead, Attend
<1>3. CASE EndDecode
  <2>1. HeadInv /\ \A r \in Rank : view[r] # None /\ RankInv(r)
    BY <1>3, Zenon DEF EndDecode, PagedInv
  <2>2. 0 \in Rank
    BY PagedAssumption DEF Rank
  <2>3. segpaged /\ len < MaxLen /\ tensors = AsTensors /\ tensors = [h \in KVHead |-> Strategy(cfg, h)]
    BY <2>1, <2>2, AsTensorsIs, Zenon DEF RankInv
  <2>4. ASSUME NEW h \in KVHead
        PROVE  Positions(view[h \div PerRank][h % PerRank]) = Visible(tensors[h], len + 1)
    <3>1. PICK r \in Rank, k \in 0 .. PerRank - 1 :
             r = h \div PerRank /\ k = h % PerRank /\ r * PerRank + k = h
      <4>1. /\ h \div PerRank \in Rank /\ h % PerRank \in 0 .. PerRank - 1
            /\ (h \div PerRank) * PerRank + (h % PerRank) = h
        BY HeadsOfRanks, Zenon
      <4> QED BY <4>1, Zenon
    <3>2. view[r][k] = Stored(r, k)
      BY <2>1, <3>1, ZenonT(60) DEF RankInv
    <3>3. Positions(Stored(r, k)) = Visible(Strategy(cfg, r * PerRank + k), len + 1)
      BY <2>1, StoredIs, Zenon
    <3> QED BY <2>3, <3>1, <3>2, <3>3, Zenon
  <2>5. /\ len' = len + 1 /\ UNCHANGED <<tensors, cfg, cut, segpaged>>
        /\ held' = [h \in KVHead |-> held[h] \cup {len}]
        /\ read' = [h \in KVHead |-> Positions(view[h \div PerRank][h % PerRank])]
    BY <1>3, Zenon DEF EndDecode
  <2>6. read' = [h \in KVHead |-> Visible(tensors[h], len + 1)]
    BY <2>4, <2>5, Zenon
  <2>7. Decode
    BY <2>3, <2>5, <2>6, Zenon DEF Decode, WriteToken
  <2> QED BY <2>7, Zenon DEF HeadNext
<1>4. CASE Between
  BY <1>4, Zenon DEF Between, HeadNext
<1>5. CASE DenseStep
  BY <1>5, Zenon DEF DenseStep, HeadNext
<1>6. CASE UNCHANGED vars
  BY <1>6, Zenon DEF vars, headVars
<1> QED BY <1>1, <1>2, <1>3, <1>4, <1>5, <1>6, Zenon DEF Next, HeadNext

\* Every step keeps the invariant: a rank's segments and its plan are touched by no
\* other rank, and the heads, the configuration and the length stay as they are
\* while a rank has a plan.
LEMMA PagedStep == PagedInv /\ [Next]_vars => PagedInv'
<1> SUFFICES ASSUME PagedInv, [Next]_vars PROVE PagedInv'
  OBVIOUS
<1>1. HeadInv /\ HeadInv'
  BY PagedRefines, HeadStep, Zenon DEF PagedInv
<1>2. /\ DOMAIN plan = Rank /\ DOMAIN view = Rank /\ pool \in [Rank -> Pool]
      /\ \A r \in Rank : /\ plan[r] = None => pool[r] = EmptyPool /\ view[r] = None
                         /\ plan[r] # None => RankInv(r)
  BY Zenon DEF PagedInv
<1>3. ASSUME NEW q \in Rank, cfg' = cfg, len' = len, segpaged' = segpaged,
             tensors' = tensors \/ tensors' = AsTensors,
             plan'[q] = plan[q], pool'[q] = pool[q], view'[q] = view[q]
      PROVE  /\ plan'[q] = None => pool'[q] = EmptyPool /\ view'[q] = None
             /\ plan'[q] # None => RankInv(q)'
  <2>1. tensors = [h \in KVHead |-> Strategy(cfg, h)] => tensors' = tensors
    BY <1>1, <1>3, AsTensorsIs, Zenon
  <2>2. \A k : Stored(q, k)' = Stored(q, k)
    BY <1>3, Zenon DEF Stored, Strategy
  <2>3. \A h : Strategy(cfg, h)' = Strategy(cfg, h)
    BY <1>3, Zenon DEF Strategy
  <2> QED BY <1>2, <1>3, <2>1, <2>2, <2>3 DEF RankInv
<1>4. ASSUME NEW r \in Rank, BuildPlan(r) PROVE PagedInv'
  <2>1. /\ segpaged /\ segpaged' = segpaged /\ len < MaxLen /\ plan[r] = None /\ plan' = [plan EXCEPT ![r] = Slice(tensors', r)]
        /\ tensors' = [h \in KVHead |-> Strategy(cfg, h)] /\ tensors' = AsTensors
        /\ cfg' = cfg /\ len' = len /\ pool' = pool /\ view' = view
    BY <1>1, <1>4, AsTensorsIs, Zenon DEF BuildPlan
  <2>2. pool[r] = EmptyPool /\ view[r] = None /\ Len(pool[r].table) = 0
    BY <1>2, <2>1 DEF EmptyPool
  <2>3. plan'[r] = [k \in 0 .. PerRank - 1 |-> Strategy(cfg, r * PerRank + k)]
    <3>1. \A k \in 0 .. PerRank - 1 : tensors'[r * PerRank + k] = Strategy(cfg, r * PerRank + k)
      BY <2>1, HeadsOfRanks, Zenon
    <3> QED BY <1>2, <2>1, <3>1, Zenon DEF Slice
  <2>4. tensors' = [h \in KVHead |-> Strategy(cfg, h)]'
    BY <2>1, Zenon DEF Strategy
  <2>5. plan'[r] = [k \in 0 .. PerRank - 1 |-> Strategy(cfg, r * PerRank + k)]'
    BY <2>1, <2>3, Zenon DEF Strategy
  <2>6. RankInv(r)'
    <3>1. \A k \in 0 .. Len(pool'[r].table) - 1 : FALSE
      BY <2>1, <2>2
    <3>2. Len(pool'[r].table) <= PerRank
      BY <2>1, <2>2, HeadsOfRanks
    <3> QED BY <2>1, <2>2, <2>4, <2>5, <3>1, <3>2, Zenon DEF RankInv
  <2>7. ASSUME NEW q \in Rank
        PROVE  /\ plan'[q] = None => pool'[q] = EmptyPool /\ view'[q] = None
               /\ plan'[q] # None => RankInv(q)'
    <3>1. CASE q = r
      BY <2>1, <2>2, <2>6, <3>1, Zenon
    <3>2. CASE q # r
      BY <1>2, <1>3, <2>1, <3>2, Zenon
    <3> QED BY <3>1, <3>2, Zenon
  <2> QED BY <1>1, <1>2, <2>1, <2>7, Zenon DEF PagedInv
<1>5. ASSUME NEW r \in Rank, StoreHead(r) PROVE PagedInv'
  <2>1. PICK k : k = Len(pool[r].table)
    BY ZenonT(60)
  <2>2. /\ plan[r] # None /\ RankInv(r) /\ k < PerRank /\ k \in Nat /\ pool[r] \in Pool
        /\ pool' = [pool EXCEPT ![r] = AddHeadSegment(pool[r], KVOf(r * PerRank + k, Kept(plan[r][k], len + 1)))]
        /\ cfg' = cfg /\ len' = len /\ tensors' = tensors /\ segpaged' = segpaged /\ plan' = plan /\ view' = view
    BY <1>2, <1>5, <2>1 DEF StoreHead, headVars, Pool
  <2>3. k \in 0 .. PerRank - 1 /\ plan[r][k] = Strategy(cfg, r * PerRank + k)
    BY <2>2, HeadsOfRanks DEF RankInv
  <2>4. Stored(r, k) \in Seq(Slot) /\ pool'[r] = AddHeadSegment(pool[r], Stored(r, k))
    BY <1>1, <1>2, <2>2, <2>3, StoredIs, Zenon DEF Stored
  <2>5. /\ pool'[r] \in Pool /\ Len(pool'[r].table) = k + 1
        /\ Holds(pool'[r], k, Stored(r, k))
        /\ \A j \in 0 .. k - 1 : \A kv \in Seq(Slot) : Holds(pool[r], j, kv) => Holds(pool'[r], j, kv)
    <3>1. ASSUME NEW q, q = AddHeadSegment(pool[r], Stored(r, k))
          PROVE  /\ q \in Pool /\ Len(q.table) = Len(pool[r].table) + 1
                 /\ Holds(q, Len(pool[r].table), Stored(r, k))
                 /\ \A j \in 0 .. Len(pool[r].table) - 1 : \A kv \in Seq(Slot) :
                      Holds(pool[r], j, kv) => Holds(q, j, kv)
      <4>1. pool[r] \in Pool /\ Stored(r, k) \in Seq(Slot)
        BY <2>2, <2>4, Zenon
      <4> QED BY <3>1, <4>1, AddKeeps, ZenonT(60)
    <3> QED BY <2>1, <2>4, <3>1, ZenonT(60)
  <2>6. \A j \in 0 .. (k + 1) - 1 : Holds(pool'[r], j, Stored(r, j))
    <3> SUFFICES ASSUME NEW j \in 0 .. k PROVE Holds(pool'[r], j, Stored(r, j))
      BY <2>2
    <3>1. CASE j = k
      BY <2>5, <3>1, Zenon
    <3>2. CASE j # k
      <4>1. j \in 0 .. k - 1 /\ j \in 0 .. PerRank - 1
        BY <2>2, <3>2, HeadsOfRanks
      <4>2. Stored(r, j) \in Seq(Slot) /\ Holds(pool[r], j, Stored(r, j))
        BY <1>1, <2>1, <2>2, <4>1, StoredIs, Zenon DEF RankInv
      <4> QED BY <2>5, <4>1, <4>2, Zenon
    <3> QED BY <3>1, <3>2, Zenon
  <2>7. /\ \A j : Stored(r, j)' = Stored(r, j)
        /\ \A h : Strategy(cfg, h)' = Strategy(cfg, h)
    BY <2>2, Zenon DEF Stored, Strategy
  <2>8. RankInv(r)'
    <3>1. Len(pool'[r].table) <= PerRank
      <4>1. PerRank \in Nat /\ k \in Nat /\ k < PerRank
        BY <2>2, HeadsOfRanks, Zenon
      <4>2. k + 1 <= PerRank
        BY <4>1
      <4> QED BY <2>5, <4>2, Zenon
    <3>2. \A j \in 0 .. Len(pool'[r].table) - 1 : Holds(pool'[r], j, Stored(r, j))
      BY <2>5, <2>6, Zenon
    <3> QED BY <2>2, <2>7, <3>1, <3>2, ZenonT(60) DEF RankInv
  <2>9. ASSUME NEW q \in Rank
        PROVE  /\ plan'[q] = None => pool'[q] = EmptyPool /\ view'[q] = None
               /\ plan'[q] # None => RankInv(q)'
    <3>1. CASE q = r
      BY <2>2, <2>8, <3>1, Zenon
    <3>2. CASE q # r
      BY <1>2, <1>3, <2>2, <3>2, Zenon
    <3> QED BY <3>1, <3>2, Zenon
  <2> QED BY <1>1, <1>2, <2>2, <2>5, <2>9, Zenon DEF PagedInv
<1>6. ASSUME NEW r \in Rank, Attend(r) PROVE PagedInv'
  <2>1. /\ plan[r] # None /\ RankInv(r) /\ Len(pool[r].table) = PerRank
        /\ view' = [view EXCEPT ![r] = [k \in 0 .. PerRank - 1 |-> GatherHead(pool[r], k)]]
        /\ cfg' = cfg /\ len' = len /\ tensors' = tensors /\ segpaged' = segpaged /\ plan' = plan /\ pool' = pool
    BY <1>2, <1>6, Zenon DEF Attend, headVars
  <2>2. ASSUME NEW k \in 0 .. PerRank - 1 PROVE GatherHead(pool[r], k) = Stored(r, k)
    <3>1. k \in Nat
      OBVIOUS
    <3>2. Stored(r, k) \in Seq(Slot) /\ Holds(pool[r], k, Stored(r, k))
      BY <1>1, <2>1, StoredIs, Zenon DEF RankInv
    <3> QED BY <3>1, <3>2, GatherGives, Zenon
  <2>3. view'[r] = [k \in 0 .. PerRank - 1 |-> Stored(r, k)]
    BY <1>2, <2>1, <2>2, Zenon
  <2>4. /\ \A j : Stored(r, j)' = Stored(r, j)
        /\ \A h : Strategy(cfg, h)' = Strategy(cfg, h)
    BY <2>1, Zenon DEF Stored, Strategy
  <2>5. RankInv(r)'
    BY <2>1, <2>3, <2>4 DEF RankInv
  <2>6. ASSUME NEW q \in Rank
        PROVE  /\ plan'[q] = None => pool'[q] = EmptyPool /\ view'[q] = None
               /\ plan'[q] # None => RankInv(q)'
    <3>1. CASE q = r
      BY <2>1, <2>5, <3>1, Zenon
    <3>2. CASE q # r
      BY <1>2, <1>3, <2>1, <3>2, Zenon
    <3> QED BY <3>1, <3>2, Zenon
  <2> QED BY <1>1, <1>2, <2>1, <2>6, Zenon DEF PagedInv
<1>7. CASE EndDecode
  <2>1. EmptyPool \in Pool
    BY DEF EmptyPool, Pool
  <2> QED BY <1>1, <1>7, <2>1, Zenon DEF EndDecode, PagedInv
<1>8. CASE Between
  BY <1>1, <1>2, <1>8, Zenon DEF Between, Idle, PagedInv
<1>9. CASE UNCHANGED vars
  <2>1. /\ cfg' = cfg /\ len' = len /\ tensors' = tensors /\ segpaged' = segpaged
        /\ plan' = plan /\ pool' = pool /\ view' = view
    BY <1>9, Zenon DEF vars, headVars
  <2> QED BY <1>1, <1>2, <1>3, <2>1, Zenon DEF PagedInv
<1>10. CASE DenseStep
  BY <1>1, <1>2, <1>10, Zenon DEF DenseStep, Idle, PagedInv
<1> QED BY <1>4, <1>5, <1>6, <1>7, <1>8, <1>9, <1>10, Zenon DEF Next

----------------------------------------------------------------------------
(* Ranks and pages                                                          *)

\* The invariant of a decode step holds in every reachable state.
LEMMA PagedInvariant == Spec => []PagedInv
BY InitPaged, PagedStep, PTL DEF Spec

\* A decode step spread over ranks, heads and pages reads what one step of
\* HeadClassKV reads, for every number of heads and ranks and every page size.
THEOREM PagedImplements == Spec => ImplementsHeadClassKV
<1>1. Init => HeadInit
  BY Zenon DEF Init
<1> QED BY <1>1, PagedRefines, PagedInvariant, PTL DEF Spec, HeadSpec, ImplementsHeadClassKV

\* So it reads, for every head, exactly the sink and the window that the
\* configuration has now when SegPaged decode is on, and on either path no KV that
\* was cut away from a head it masks.
THEOREM PagedReads == Spec => ReadsWindow /\ NoPaddingRead
BY PagedImplements, DecodeReadsWindow, DecodeReadsHeld, PTL DEF ImplementsHeadClassKV

\* gather_segment returns every token that the sink and the window of a head admit,
\* once and in order, and no token of another head, for every page size and
\* distribution of the heads.
THEOREM PagedGathers == Spec => []GathersInOrder
<1>1. PagedInv => GathersInOrder
  <2> SUFFICES ASSUME PagedInv, NEW r \in Rank, view[r] # None, NEW k \in 0 .. PerRank - 1
               PROVE  LET h == r * PerRank + k
                          v == view[r][k]
                      IN  /\ \A i \in DOMAIN v : v[i].head = h
                          /\ \A i, j \in DOMAIN v : i < j => v[i].pos < v[j].pos
                          /\ Positions(v) = {p \in 0 .. len : InWindow(cfg, h, p, len + 1)}
    BY Zenon DEF GathersInOrder
  <2>1. HeadInv /\ view[r][k] = Stored(r, k)
    BY Zenon DEF PagedInv, RankInv
  <2>2. PICK h, v : h = r * PerRank + k /\ v = view[r][k]
    OBVIOUS
  <2>3. /\ v \in Seq(Slot)
        /\ \A i \in 1 .. Len(v) : v[i].head = h
        /\ \A i, j \in 1 .. Len(v) : i < j => v[i].pos < v[j].pos
        /\ Positions(v) = Visible(Strategy(cfg, h), len + 1)
    BY <2>1, <2>2, StoredIs, Zenon
  <2>4. DOMAIN v = 1 .. Len(v)
    BY <2>3, LenProperties, Zenon
  <2>5. Visible(Strategy(cfg, h), len + 1) = {p \in 0 .. len : InWindow(cfg, h, p, len + 1)}
    <3>1. cfg \in Config /\ h \in KVHead /\ len \in Nat
      BY <2>1, <2>2, HeadsOfRanks, Zenon DEF HeadInv
    <3>3. len + 1 \in Nat /\ (len + 1) - 1 = len
      BY <3>1
    <3>2. Visible(Strategy(cfg, h), len + 1) = {p \in 0 .. (len + 1) - 1 : InWindow(cfg, h, p, len + 1)}
      BY <3>1, <3>3, VisibleIs, Zenon
    <3> QED BY <3>2, <3>3, Zenon
  <2> QED BY <2>2, <2>3, <2>4, <2>5, Zenon
<1> QED BY <1>1, PagedInvariant, PTL

\* More tokens never need fewer pages.
LEMMA NumPagesMonotone ==
  ASSUME NEW m \in Nat, NEW n \in Nat, m <= n PROVE NumPages(m) <= NumPages(n)
BY PagedAssumption DEF NumPages

\* The pages of a local head never exceed those of its sink and window, however long
\* the sequence is.
THEOREM PagedFootprint == Spec => []FootprintBounded
<1>1. PagedInv => FootprintBounded
  <2> SUFFICES ASSUME PagedInv, NEW r \in Rank, plan[r] # None,
                      NEW k \in 0 .. Len(pool[r].table) - 1, plan[r][k].class = "local"
               PROVE  Len(pool[r].table[k + 1].ids) <= NumPages(plan[r][k].sink + plan[r][k].window)
    BY Zenon DEF FootprintBounded
  <2>1. HeadInv /\ RankInv(r) /\ Len(pool[r].table) \in Nat
    BY DEF PagedInv, Pool
  <2>2. k \in 0 .. PerRank - 1
    BY <2>1, HeadsOfRanks DEF RankInv
  <2>3. PICK s : s = Strategy(cfg, r * PerRank + k)
    OBVIOUS
  <2>4. plan[r][k] = s /\ s.class = "local"
    BY <2>1, <2>2, <2>3, Zenon DEF RankInv
  <2>5. s.sink \in Nat /\ s.window \in Nat /\ len + 1 \in Nat
    BY <2>1, <2>2, <2>3, <2>4, HeadsOfRanks, StrategyOf DEF HeadInv
  <2>6. Len(Kept(s, len + 1)) \in Nat /\ Len(Kept(s, len + 1)) <= s.sink + s.window
    BY <2>4, <2>5, KeptIs, Zenon
  <2>7. Len(pool[r].table[k + 1].ids) = NumPages(Len(Kept(s, len + 1)))
    BY <2>1, <2>2, <2>3, StoredIs, Zenon DEF RankInv, Holds
  <2>8. s.sink + s.window \in Nat
    BY <2>5
  <2> QED BY <2>4, <2>6, <2>7, <2>8, NumPagesMonotone, Zenon
<1> QED BY <1>1, PagedInvariant, PTL
=============================================================================
