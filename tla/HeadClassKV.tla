---------------------------- MODULE HeadClassKV ----------------------------
(***************************************************************************)
(* What each KV head of a layer keeps and reads under RedKnot's head       *)
(* classes (layers/attention/redknot): the head configuration with its     *)
(* cached tensors (head_config.py), the two ways of cutting a request's KV *)
(* down to what the heads need (pd_transfer.py, per_head_storage.py), and  *)
(* the positions a decode step attends to: per head with SegPaged decode   *)
(* (segpaged.py), all of them without (redknot_backend.py).  One request,  *)
(* one layer.  KV that was cut away is restored as zeros.                  *)
(***************************************************************************)
EXTENDS Integers

CONSTANTS KVHeads,          \* num_kv_heads
          Configs,          \* the head configurations that may be loaded
          DefaultWindow,    \* local_default_window
          RetrievalBudget,  \* retrieval_budget of the trim policy
          Windows,          \* the arguments of set_local_window
          MaxPrompt,        \* the longest prompt
          MaxLen,           \* the longest sequence
          None              \* the absent value

KVHead == 0 .. KVHeads - 1

HeadClass == {"local", "global", "retrieval", "dense"}

\* A configuration of the layer: whether it is one of the dense_prefix_layers,
\* and the class, distance and sink of each head.
Config == [dense : BOOLEAN,
           head  : [KVHead -> [class : HeadClass, dist : Int, sink : Nat]]]

ASSUME HeadAssumption ==
  /\ KVHeads \in Nat
  /\ Configs \subseteq Config
  /\ DefaultWindow \in Nat \ {0}
  /\ RetrievalBudget \in Nat
  /\ Windows \subseteq Nat \ {0}
  /\ MaxPrompt \in Nat /\ MaxLen \in Nat

\* HeadStrategy, of every head
Strategies == [KVHead -> [class : HeadClass, window : Int, sink : Nat]]

ASSUME NoneAssumption == None \notin Strategies

VARIABLES cfg,      \* the head configuration
          tensors,  \* the bundle cached by as_tensors, None when cleared
          len,      \* the length of the sequence
          held,     \* the positions of each head whose KV is there, not zeros
          cut,      \* how the KV was cut, and the configuration then (history)
          read,     \* the positions each head attended to last (history)
          segpaged  \* use_segpaged_decode, fixed when the server starts

headVars == <<cfg, tensors, len, held, cut, read, segpaged>>

\* get_strategy
Strategy(c, h) ==
  LET s == c.head[h]
  IN  [class  |-> IF c.dense THEN "dense" ELSE s.class,
       window |-> IF c.dense \/ s.class # "local" THEN -1
                  ELSE IF s.dist > 0 THEN s.dist ELSE DefaultWindow,
       sink   |-> s.sink]

\* as_tensors
AsTensors == IF tensors # None THEN tensors ELSE [h \in KVHead |-> Strategy(cfg, h)]

AtMost(n, max) == IF n < 0 THEN 0 ELSE IF n > max THEN max ELSE n

\* local_visible_indices
LocalVisible(n, sink, recent) ==
  LET s    == AtMost(sink, n)
      back == n - AtMost(recent, n)
      tail == IF back > s THEN back ELSE s
  IN  (0 .. s - 1) \cup (tail .. n - 1)

\* what a decode step over n tokens reads for a head (_segpaged_decode)
Visible(s, n) == IF s.class = "local" THEN LocalVisible(n, s.sink, s.window)
                 ELSE 0 .. n - 1

\* mutant: the distance of the configuration is taken for the window
ShippedRaw(c, h, n) ==
  IF Strategy(c, h).class = "local" THEN LocalVisible(n, c.head[h].sink, c.head[h].dist)
  ELSE 0 .. n - 1

\* what build_transfer_payload keeps of a head
Shipped(c, h, n) ==
  LET s == Strategy(c, h)
  IN  IF s.class = "local"
      THEN LocalVisible(n, s.sink, IF s.window > 0 THEN s.window ELSE 0)
      ELSE 0 .. n - 1

\* keep_lens of HeadTrimPolicy.from_head_config
KeepLen(s) == CASE s.class = "local"     -> IF s.dist > 0 THEN s.dist ELSE 0
                [] s.class = "retrieval" -> RetrievalBudget
                [] OTHER                 -> -1

\* _select_indices
Trimmed(c, h, n) ==
  LET keep == KeepLen(c.head[h])
  IN  IF keep < 0 \/ keep >= n THEN 0 .. n - 1 ELSE LocalVisible(n, c.head[h].sink, keep)

----------------------------------------------------------------------------
HeadInit == /\ cfg \in Configs
            /\ tensors = None
            /\ len \in 1 .. MaxPrompt
            /\ held = [h \in KVHead |-> 0 .. len - 1]
            /\ cut = [by |-> "none", cfg |-> cfg]
            /\ read = [h \in KVHead |-> {}]
            /\ segpaged \in BOOLEAN

\* build_transfer_payload on the prefill side, restore_payload on the decode side
Ship == /\ cut.by = "none"
        /\ held' = [h \in KVHead |-> held[h] \cap Shipped(cfg, h, len)]
        /\ cut' = [by |-> "pd", cfg |-> cfg]
        /\ UNCHANGED <<cfg, tensors, len, read, segpaged>>

\* trim_segment_per_head, expand_to_dense
Trim == /\ cut.by = "none"
        /\ held' = [h \in KVHead |-> held[h] \cap Trimmed(cfg, h, len)]
        /\ cut' = [by |-> "trim", cfg |-> cfg]
        /\ UNCHANGED <<cfg, tensors, len, read, segpaged>>

\* the configuration with every positive distance replaced
Rewindowed(c, w) ==
  [dense |-> c.dense,
   head  |-> [h \in KVHead |-> IF c.head[h].dist > 0
                              THEN [c.head[h] EXCEPT !.dist = w] ELSE c.head[h]]]

\* mutant: the cached tensors stay
SetLocalWindowStale(w) == /\ cfg' = Rewindowed(cfg, w)
                          /\ UNCHANGED <<tensors, len, held, cut, read, segpaged>>

\* set_local_window
SetLocalWindow(w) == /\ cfg' = Rewindowed(cfg, w)
                     /\ tensors' = None
                     /\ UNCHANGED <<len, held, cut, read, segpaged>>

\* the configuration without retrieval heads
Merged(c) ==
  [dense |-> c.dense,
   head  |-> [h \in KVHead |-> IF c.head[h].class = "retrieval"
                              THEN [c.head[h] EXCEPT !.class = "global"] ELSE c.head[h]]]

\* merge_retrieval_to_global
MergeRetrieval == /\ cfg' = Merged(cfg)
                  /\ tensors' = None
                  /\ UNCHANGED <<len, held, cut, read, segpaged>>

\* as_tensors, called for a mask plan
Cache == /\ tensors' = AsTensors
         /\ UNCHANGED <<cfg, len, held, cut, read, segpaged>>

\* forward_decode: the new token's KV is written
WriteToken == /\ len < MaxLen
              /\ len' = len + 1
              /\ held' = [h \in KVHead |-> held[h] \cup {len}]

\* then, with SegPaged decode, every head reads what it may see
Decode == /\ segpaged
          /\ WriteToken
          /\ tensors' = AsTensors
          /\ read' = [h \in KVHead |-> Visible(tensors'[h], len')]
          /\ UNCHANGED <<cfg, cut, segpaged>>

\* without it, the default, every head reads the whole sequence: no mask
DecodeDense == /\ ~segpaged
               /\ WriteToken
               /\ read' = [h \in KVHead |-> 0 .. len' - 1]
               /\ UNCHANGED <<cfg, tensors, cut, segpaged>>

HeadNext == \/ Ship \/ Trim \/ MergeRetrieval \/ Cache \/ Decode \/ DecodeDense
            \/ \E w \in Windows : SetLocalWindow(w)

HeadSpec == HeadInit /\ [][HeadNext]_headVars

----------------------------------------------------------------------------
\* the window of a local head of c, at any position p of n
InWindow(c, h, p, n) ==
  LET s == Strategy(c, h)
  IN  s.class = "local" => p < s.sink \/ p >= n - s.window

\* With SegPaged decode, a decode step attends, for every head, to exactly the
\* positions of the sink and of the window in the configuration as it is now
\* (head_config.py's rule), whatever is cached, however short the sequence is and
\* wherever sink and window overlap (as_tensors, set_local_window,
\* local_visible_indices).  Without it there is no window (forward_decode).
ReadsWindow ==
  [][len' # len /\ segpaged => \A h \in KVHead :
       read'[h] = {p \in 0 .. len' - 1 : InWindow(cfg, h, p, len')}]_headVars

\* the trim policy keeps of a head what get_strategy lets it read
TrimAgrees(c, h) == CASE c.head[h].class = "local"     -> ~c.dense /\ c.head[h].dist > 0
                      [] c.head[h].class = "retrieval" -> FALSE
                      [] OTHER                         -> TRUE

\* A decode step masks what was cut away from a head: a local head's window is
\* applied at all, and is no wider than when the KV was cut.
Masked(h) == /\ Strategy(cut.cfg, h).class = "local"
                  => segpaged /\ cfg.head[h].dist <= cut.cfg.head[h].dist
             /\ cut.by = "trim" => TrimAgrees(cut.cfg, h)

\* However many tokens have been decoded since, no head reads zeros that stand for
\* KV which was not transferred (restore_payload) or was trimmed (expand_to_dense),
\* as long as decode masks the head: SegPaged decode is on (pd_transfer.py promises
\* the mask without that condition), its window was not widened since and, for
\* trimmed KV, the trim policy reads the configuration as get_strategy does.
NoPaddingRead ==
  [][len' # len => \A h \in KVHead :
       cut.by = "none" \/ Masked(h) => read'[h] \subseteq held'[h]]_headVars
=============================================================================
