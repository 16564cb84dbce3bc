---------------------------- MODULE OfflineKVCache ----------------------------
(***************************************************************************)
(* The store of pre-filled segments of RedKnot                             *)
(* (python/sglang/srt/layers/attention/redknot/offline_cache.py).          *)
(* Every public operation runs under the cache's re-entrant lock, so one   *)
(* operation is one action here; OfflineKVCacheSteps opens the loops of    *)
(* _enforce_limits and shows that they compute EnforceLimits.              *)
(*                                                                         *)
(* segments     the values of the OrderedDict: where the KV of a segment   *)
(*              lives and how many bytes it takes                          *)
(* older        the order of the OrderedDict: <<a, b>> \in older when a    *)
(*              comes before b, the first key being the next victim        *)
(* deviceBytes, hostBytes    the running totals _device_bytes, _host_bytes *)
(***************************************************************************)
EXTENDS Integers, FiniteSets, ByteCounts

CONSTANTS Seg,          \* segment ids
          Sizes,        \* byte counts a segment may have
          MaxDevice,    \* max_device_bytes, or None
          MaxHost,      \* max_host_bytes, or None
          None          \* Python's None

ASSUME SegAssumption == IsFiniteSet(Seg)
ASSUME SizesAssumption == Sizes \subseteq Nat
ASSUME LimitAssumption == /\ None \notin Nat
                          /\ MaxDevice \in Nat \cup {None}
                          /\ MaxHost \in Nat \cup {None}

VARIABLES segments, older, deviceBytes, hostBytes

vars == <<segments, older, deviceBytes, hostBytes>>

Device == {"cuda", "cpu"}
Segment == [device : Device, nbytes : Sizes]
Store == UNION {[S -> Segment] : S \in SUBSET Seg}

On(g, d) == {s \in DOMAIN g : g[s].device = d}

-----------------------------------------------------------------------------
(* The order of the OrderedDict. *)

\* move_to_end of every member of V, in their old order; R is the set of keys.
MoveToEnd(o, R, V) ==
  {p \in o : p[1] \in V => p[2] \in V} \cup ((R \ V) \X V)

Before(o, S, s) == {t \in S : <<t, s>> \in o}

-----------------------------------------------------------------------------
(* _enforce_limits.  st is a record of the four variables.                 *)

\* mutant: the loop stops one step late, at < instead of <=
OffloadedAtLimit(st) ==
  IF MaxDevice = None THEN {}
  ELSE {s \in On(st.segments, "cuda") :
          st.deviceBytes
            - Bytes(st.segments,
                    Before(st.older, On(st.segments, "cuda"), s)) >= MaxDevice}

\* The first loop offloads device segments from the front of the order while
\* _device_bytes is above the ceiling.
Offloaded(st) ==
  IF MaxDevice = None THEN {}
  ELSE {s \in On(st.segments, "cuda") :
          st.deviceBytes
            - Bytes(st.segments,
                    Before(st.older, On(st.segments, "cuda"), s)) > MaxDevice}

\* mutant: what leaves the device is dropped
OffloadDrops(st) ==
  LET V == Offloaded(st)
  IN  [segments    |-> [s \in DOMAIN st.segments \ V |-> st.segments[s]],
       older       |-> {p \in st.older : p[1] \notin V /\ p[2] \notin V},
       deviceBytes |-> st.deviceBytes - Bytes(st.segments, V),
       hostBytes   |-> st.hostBytes]

\* Each to_device(sid, cpu) of that loop also moves its segment to the end.
Offload(st) ==
  LET V == Offloaded(st)
      n == Bytes(st.segments, V)
  IN  [segments    |-> [s \in DOMAIN st.segments |->
                          IF s \in V
                          THEN [st.segments[s] EXCEPT !.device = "cpu"]
                          ELSE st.segments[s]],
       older       |-> MoveToEnd(st.older, DOMAIN st.segments, V),
       deviceBytes |-> st.deviceBytes - n,
       hostBytes   |-> st.hostBytes + n]

Ceiling == (IF MaxDevice = None THEN 0 ELSE MaxDevice) + MaxHost

\* The second loop pops segments from the front of the order, wherever they
\* live, while both totals together are above both ceilings together.
Evicted(st) ==
  IF MaxHost = None THEN {}
  ELSE {s \in DOMAIN st.segments :
          st.deviceBytes + st.hostBytes
            - Bytes(st.segments,
                    Before(st.older, DOMAIN st.segments, s)) > Ceiling}

Remove(st, V) ==
  [segments    |-> [s \in DOMAIN st.segments \ V |-> st.segments[s]],
   older       |-> {p \in st.older : p[1] \notin V /\ p[2] \notin V},
   deviceBytes |-> st.deviceBytes
                     - Bytes(st.segments, V \cap On(st.segments, "cuda")),
   hostBytes   |-> st.hostBytes
                     - Bytes(st.segments, V \cap On(st.segments, "cpu"))]

EnforceLimits(st) == LET st1 == Offload(st) IN Remove(st1, Evicted(st1))

-----------------------------------------------------------------------------
Current == [segments    |-> segments,    older     |-> older,
            deviceBytes |-> deviceBytes, hostBytes |-> hostBytes]

Become(st) == /\ segments' = st.segments
              /\ older' = st.older
              /\ deviceBytes' = st.deviceBytes
              /\ hostBytes' = st.hostBytes

\* move_to_end(s) and nothing else
Promote(s) == /\ older' = MoveToEnd(older, DOMAIN segments, {s})
              /\ UNCHANGED <<segments, deviceBytes, hostBytes>>

Init == /\ segments = [s \in {} |-> [device |-> "cpu", nbytes |-> 0]]
        /\ older = {}
        /\ deviceBytes = 0
        /\ hostBytes = 0

\* A segment whose id is present keeps its old KV and is only promoted.
Inserted(s, d, n) ==
  [segments    |-> [t \in DOMAIN segments \cup {s} |->
                      IF t = s THEN [device |-> d, nbytes |-> n]
                      ELSE segments[t]],
   older       |-> older \cup ((DOMAIN segments) \X {s}),
   deviceBytes |-> IF d = "cuda" THEN deviceBytes + n ELSE deviceBytes,
   hostBytes   |-> IF d = "cuda" THEN hostBytes ELSE hostBytes + n]

Put(s, d, n) ==
  IF s \in DOMAIN segments THEN Promote(s)
  ELSE Become(EnforceLimits(Inserted(s, d, n)))

Get(s) == s \in DOMAIN segments /\ Promote(s)

Drop(s) == s \in DOMAIN segments /\ Become(Remove(Current, {s}))

\* mutant: to_device does not move the segment to the end
MovedInPlace(s, d) ==
  LET n == segments[s].nbytes
  IN  [segments    |-> [segments EXCEPT ![s].device = d],
       older       |-> older,
       deviceBytes |-> IF d = "cuda" THEN deviceBytes + n ELSE deviceBytes - n,
       hostBytes   |-> IF d = "cuda" THEN hostBytes - n ELSE hostBytes + n]

Moved(s, d) ==
  LET n == segments[s].nbytes
  IN  [segments    |-> [segments EXCEPT ![s].device = d],
       older       |-> MoveToEnd(older, DOMAIN segments, {s}),
       deviceBytes |-> IF d = "cuda" THEN deviceBytes + n ELSE deviceBytes - n,
       hostBytes   |-> IF d = "cuda" THEN hostBytes - n ELSE hostBytes + n]

\* mutant: to_device returns without _enforce_limits
ToDeviceUnchecked(s, d) ==
  /\ s \in DOMAIN segments
  /\ IF segments[s].device = d THEN Promote(s) ELSE Become(Moved(s, d))

\* to_device; offload(s) is ToDevice(s, "cpu")
ToDevice(s, d) ==
  /\ s \in DOMAIN segments
  /\ IF segments[s].device = d THEN Promote(s)
     ELSE Become(EnforceLimits(Moved(s, d)))

Clear == /\ segments' = [s \in {} |-> [device |-> "cpu", nbytes |-> 0]]
         /\ older' = {}
         /\ deviceBytes' = 0
         /\ hostBytes' = 0

Next == \/ \E s \in Seg : Get(s) \/ Drop(s)
        \/ \E s \in Seg, d \in Device : ToDevice(s, d)
        \/ \E s \in Seg, d \in Device, n \in Sizes : Put(s, d, n)
        \/ Clear

Spec == Init /\ [][Next]_vars

-----------------------------------------------------------------------------
(* Properties *)

StrictTotalOrder(o, R) ==
  /\ o \subseteq R \X R
  /\ \A a \in R : <<a, a>> \notin o
  /\ \A a, b \in R : a # b => <<a, b>> \in o \/ <<b, a>> \in o
  /\ \A a, b, c \in R : <<a, b>> \in o /\ <<b, c>> \in o => <<a, c>> \in o

\* Type invariant: the dictionary holds segments of legal residency and size,
\* and its order is a strict total order of exactly its keys.
TypeOK ==
  /\ segments \in Store
  /\ StrictTotalOrder(older, DOMAIN segments)
  /\ deviceBytes \in Int
  /\ hostBytes \in Int

\* The running totals that put, drop, to_device and _enforce_limits keep up
\* to date by hand are the bytes really resident on each tier.
AccountingExact ==
  /\ deviceBytes = Bytes(segments, On(segments, "cuda"))
  /\ hostBytes = Bytes(segments, On(segments, "cpu"))

\* Whatever the sequence of operations, no operation returns with the device
\* above max_device_bytes or with both tiers above both ceilings: every
\* operation that can grow a total ends in _enforce_limits, and its loops
\* never run out of victims.
WithinLimits ==
  /\ MaxDevice # None => deviceBytes <= MaxDevice
  /\ MaxHost # None => deviceBytes + hostBytes <= Ceiling

Demoted == {s \in DOMAIN segments \cap DOMAIN segments' :
              segments[s].device = "cuda" /\ segments'[s].device = "cpu"}
Gone == DOMAIN segments \ DOMAIN segments'

\* What _enforce_limits removes is older than what it keeps, up to the
\* segments the same call offloaded (it moves them to the young end) and the
\* segment it was called for; and it removes the segment it was called for
\* only when nothing but such offloaded segments remains.  drop and clear
\* remove what they are asked to remove.
RemovalOrder ==
  [][\/ Clear \/ \E s \in Seg : Drop(s)
     \/ /\ \E op \in Seg :
             \A b \in Gone, a \in DOMAIN segments \cap DOMAIN segments' :
               <<a, b>> \in older => a \in Demoted \/ a = op
        /\ \A s \in Seg, d \in Device, n \in Sizes :
             Put(s, d, n) /\ s \notin DOMAIN segments'
               => DOMAIN segments' \subseteq Demoted]_vars

\* A segment put while it fits under both ceilings stays where it was put, and
\* costs no other segment its place: the loops of _enforce_limits stop exactly
\* at the ceilings.
PutThatFitsDisturbsNothing ==
  [][\A s \in Seg, d \in Device, n \in Sizes :
       /\ Put(s, d, n)
       /\ d = "cuda" /\ MaxDevice # None => deviceBytes + n <= MaxDevice
       /\ MaxHost # None => deviceBytes + hostBytes + n <= Ceiling
       => /\ s \in DOMAIN segments'
          /\ s \in DOMAIN segments
               \/ segments'[s] = [device |-> d, nbytes |-> n]
          /\ \A t \in DOMAIN segments :
               t \in DOMAIN segments' /\ segments'[t] = segments[t]]_vars
=============================================================================
