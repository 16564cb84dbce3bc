---------------------------- MODULE MCSegPagedKV ----------------------------
(* Four heads on two ranks: local heads with a window, without one and with *)
(* a sink as long as a prompt, next to heads of the other classes.          *)
EXTENDS SegPagedKV

L(dist, sink) == [class |-> "local", dist |-> dist, sink |-> sink]
Full(class, dist) == [class |-> class, dist |-> dist, sink |-> 1]
Heads(a, b, c, d) == [h \in KVHead |-> CASE h = 0 -> a [] h = 1 -> b [] h = 2 -> c [] h = 3 -> d]

MCConfigs ==
  {[dense |-> FALSE, head |-> Heads(L(1, 0), Full("global", -1), L(3, 1), L(2, 3))],
   [dense |-> FALSE, head |-> Heads(Full("global", 2), L(2, 2), L(-1, 1), Full("retrieval", -1))],
   [dense |-> FALSE, head |-> Heads(L(3, 0), L(1, 2), Full("dense", -1), L(0, 0))],
   [dense |-> TRUE,  head |-> Heads(L(1, 1), L(3, 0), Full("global", -1), L(2, 2))]}
=============================================================================
