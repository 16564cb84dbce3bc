------------------------- MODULE OfflineKVCacheSteps -------------------------
(***************************************************************************)
(* The OfflineKVCache with its OrderedDict as a sequence and the loops of  *)
(* _enforce_limits one iteration at a time.  The first loop calls          *)
(* to_device, which calls _enforce_limits again while the outer loop still *)
(* iterates over the keys it listed before: frames is that stack of calls. *)
(* The lock is held until the outermost call returns, so other callers see *)
(* the state saved when it was taken; with that state as refinement        *)
(* mapping the loops implement the atomic operations of OfflineKVCache.    *)
(***************************************************************************)
EXTENDS Integers, Sequences, FiniteSets

CONSTANTS Seg, Sizes, MaxDevice, MaxHost, None

ASSUME StepsAssumption == /\ IsFiniteSet(Seg) /\ Sizes \subseteq Nat /\ None \notin Nat
                          /\ MaxDevice \in Nat \cup {None} /\ MaxHost \in Nat \cup {None}

VARIABLES seg,          \* id -> [device, nbytes], the values of _segments
          order,        \* the keys of _segments, in order
          dBytes,       \* _device_bytes
          hBytes,       \* _host_bytes
          frames,       \* active calls of _enforce_limits, outermost first
          saved,        \* what a caller without the lock can see
          raised        \* a KeyError left the cache

vars == <<seg, order, dBytes, hBytes, frames, saved, raised>>

Device == {"cuda", "cpu"}

\* the order that a list of keys is in
Keys(q) == {q[i] : i \in DOMAIN q}
After(q) == {p \in Keys(q) \X Keys(q) :
               \E i, j \in DOMAIN q : i < j /\ q[i] = p[1] /\ q[j] = p[2]}

\* the list without a key it has once
Without(q, s) ==
  LET k == CHOOSE i \in DOMAIN q : q[i] = s
  IN  [i \in 1 .. Len(q) - 1 |-> IF i < k THEN q[i] ELSE q[i + 1]]

\* move_to_end
ToEnd(q, s) == Append(Without(q, s), s)

Now == [segments |-> seg, older |-> After(order),
        deviceBytes |-> dBytes, hostBytes |-> hBytes]
Nothing == [segments |-> [s \in {} |-> s], older |-> {},
            deviceBytes |-> 0, hostBytes |-> 0]
Seen == IF frames = <<>> THEN Now ELSE saved

Cache == INSTANCE OfflineKVCache
           WITH segments    <- Seen.segments,    older     <- Seen.older,
                deviceBytes <- Seen.deviceBytes, hostBytes <- Seen.hostBytes

Init == /\ seg = [s \in {} |-> [device |-> "cpu", nbytes |-> 0]]
        /\ order = <<>>
        /\ dBytes = 0 /\ hBytes = 0
        /\ frames = <<>>
        /\ saved = Nothing
        /\ raised = FALSE

-----------------------------------------------------------------------------
\* _enforce_limits() as called in a state with keys q
Call(q) == [loop |-> "device", keys |-> q, i |-> 1]

Idle == frames = <<>> /\ ~raised

Promote(s) == /\ order' = ToEnd(order, s)
              /\ UNCHANGED <<seg, dBytes, hBytes, frames, saved, raised>>

\* the bytes of segment s, resident as r, arrive at or leave their tier
Charge(r) == /\ dBytes' = IF r.device = "cuda" THEN dBytes + r.nbytes ELSE dBytes
             /\ hBytes' = IF r.device = "cuda" THEN hBytes ELSE hBytes + r.nbytes
Discharge(r) ==
  /\ dBytes' = IF r.device = "cuda" THEN dBytes - r.nbytes ELSE dBytes
  /\ hBytes' = IF r.device = "cuda" THEN hBytes ELSE hBytes - r.nbytes

\* get, put of a known id, to_device of a segment already there
Touch(s) == Idle /\ s \in DOMAIN seg /\ Promote(s)

PutNew(s, d, n) ==
  /\ Idle
  /\ s \notin DOMAIN seg
  /\ seg' = [t \in DOMAIN seg \cup {s} |->
               IF t = s THEN [device |-> d, nbytes |-> n] ELSE seg[t]]
  /\ order' = Append(order, s)
  /\ Charge([device |-> d, nbytes |-> n])
  /\ frames' = <<Call(order')>>
  /\ saved' = Now
  /\ UNCHANGED raised

\* pop of a key of the dictionary
Pop(s) == /\ seg' = [t \in DOMAIN seg \ {s} |-> seg[t]]
          /\ order' = Without(order, s)
          /\ Discharge(seg[s])

Drop(s) == /\ Idle
           /\ s \in DOMAIN seg
           /\ Pop(s)
           /\ UNCHANGED <<frames, saved, raised>>

\* mutant: no move_to_end
RelocateInPlace(s, d) ==
  /\ seg' = [seg EXCEPT ![s].device = d]
  /\ order' = order
  /\ dBytes' = IF d = "cuda" THEN dBytes + seg[s].nbytes ELSE dBytes - seg[s].nbytes
  /\ hBytes' = IF d = "cuda" THEN hBytes - seg[s].nbytes ELSE hBytes + seg[s].nbytes

\* to_device of a segment that lives elsewhere, up to _enforce_limits
Relocate(s, d) ==
  /\ seg' = [seg EXCEPT ![s].device = d]
  /\ order' = ToEnd(order, s)
  /\ dBytes' = IF d = "cuda" THEN dBytes + seg[s].nbytes ELSE dBytes - seg[s].nbytes
  /\ hBytes' = IF d = "cuda" THEN hBytes - seg[s].nbytes ELSE hBytes + seg[s].nbytes

ToDevice(s, d) ==
  /\ Idle
  /\ s \in DOMAIN seg
  /\ seg[s].device # d
  /\ Relocate(s, d)
  /\ frames' = <<Call(order')>>
  /\ saved' = Now
  /\ UNCHANGED raised

Clear == /\ Idle
         /\ seg' = [s \in {} |-> [device |-> "cpu", nbytes |-> 0]]
         /\ order' = <<>>
         /\ dBytes' = 0 /\ hBytes' = 0
         /\ UNCHANGED <<frames, saved, raised>>

-----------------------------------------------------------------------------
(* _enforce_limits: an iteration of the innermost active call.             *)

Depth == Len(frames)
Top == frames[Depth]
\* mutant: a while loop that forgets to advance
AdvanceNot == frames

Advance == [frames EXCEPT ![Depth].i = @ + 1]
Running(loop) == frames # <<>> /\ ~raised /\ Top.loop = loop

OverDevice == MaxDevice # None /\ dBytes > MaxDevice
OverBoth == /\ MaxHost # None
            /\ dBytes + hBytes
                 > (IF MaxDevice = None THEN 0 ELSE MaxDevice) + MaxHost

KeyError == raised' = TRUE /\ UNCHANGED <<seg, order, dBytes, hBytes, frames, saved>>

\* the first loop breaks, or has no key left: list the keys for the second
DeviceLoopDone ==
  /\ Running("device")
  /\ ~OverDevice \/ Top.i > Len(Top.keys)
  /\ frames' = [frames EXCEPT ![Depth] = [loop |-> "host", keys |-> order, i |-> 1]]
  /\ UNCHANGED <<seg, order, dBytes, hBytes, saved, raised>>

\* mutant: the ceiling is not tested again in each iteration
DeviceLoopStepNoBreak ==
  /\ Running("device")
  /\ Top.i <= Len(Top.keys)
  /\ LET s == Top.keys[Top.i]
     IN  IF s \notin DOMAIN seg THEN KeyError
         ELSE \/ /\ seg[s].device = "cuda"
                 /\ Relocate(s, "cpu")
                 /\ frames' = Append(Advance, Call(order'))
                 /\ UNCHANGED <<saved, raised>>
              \/ /\ seg[s].device # "cuda"
                 /\ frames' = Advance
                 /\ UNCHANGED <<seg, order, dBytes, hBytes, saved, raised>>

\* self._segments[sid], and for a device segment the call of to_device(sid, cpu)
\* down to the nested _enforce_limits()
DeviceLoopStep ==
  /\ Running("device")
  /\ OverDevice /\ Top.i <= Len(Top.keys)
  /\ LET s == Top.keys[Top.i]
     IN  IF s \notin DOMAIN seg THEN KeyError
         ELSE \/ /\ seg[s].device = "cuda"
                 /\ Relocate(s, "cpu")
                 /\ frames' = Append(Advance, Call(order'))
                 /\ UNCHANGED <<saved, raised>>
              \/ /\ seg[s].device # "cuda"
                 /\ frames' = Advance
                 /\ UNCHANGED <<seg, order, dBytes, hBytes, saved, raised>>

\* mutant: pops from the end of the order, popitem() for popitem(last=False)
HostLoopStepFromEnd ==
  /\ Running("host")
  /\ OverBoth /\ Top.i <= Len(Top.keys)
  /\ Pop(Top.keys[Len(Top.keys) + 1 - Top.i])
  /\ frames' = Advance
  /\ UNCHANGED <<saved, raised>>

HostLoopStep ==
  /\ Running("host")
  /\ OverBoth /\ Top.i <= Len(Top.keys)
  /\ LET s == Top.keys[Top.i]
     IN  IF s \notin DOMAIN seg THEN KeyError
         ELSE /\ Pop(s)
              /\ frames' = Advance
              /\ UNCHANGED <<saved, raised>>

\* the call returns to the first loop of the call below, or to its operation,
\* which returns and releases the lock
Return ==
  /\ Running("host")
  /\ ~OverBoth \/ Top.i > Len(Top.keys)
  /\ frames' = SubSeq(frames, 1, Depth - 1)
  /\ saved' = IF Depth = 1 THEN Nothing ELSE saved
  /\ UNCHANGED <<seg, order, dBytes, hBytes, raised>>

Enforce == DeviceLoopDone \/ DeviceLoopStep \/ HostLoopStep \/ Return

Next == \/ \E s \in Seg : Touch(s) \/ Drop(s)
        \/ \E s \in Seg, d \in Device : ToDevice(s, d)
        \/ \E s \in Seg, d \in Device, n \in Sizes : PutNew(s, d, n)
        \/ Clear
        \/ Enforce

\* A caller inside an operation keeps running.
Spec == Init /\ [][Next]_vars /\ WF_vars(Enforce)

-----------------------------------------------------------------------------
(* Properties *)

\* The outer loops iterate over keys listed before the nested calls changed
\* the dictionary, and still never look up a key that is gone: once a nested
\* call returns, the device is within its ceiling and the outer loop breaks.
NoKeyError == ~raised

\* Seen from outside the lock, the loops with their nested calls do what the
\* atomic operations of OfflineKVCache do, and nothing else.
ImplementsCache == Cache!Spec

\* An operation that takes the lock returns.
EnforcementReturns == frames # <<>> ~> frames = <<>>

\* Of the loops as a whole: what they remove is older than what they keep, up
\* to the segments they offloaded on the way and the one they ran for.
RemovalOrder == Cache!RemovalOrder
=============================================================================
