------------------------------ MODULE ChunkEntry ------------------------------
(***************************************************************************)
(* What RedKnot's chunk cache keeps of a chunk, and the priority it is     *)
(* kept by (ChunkEntry in layers/attention/redknot/scheduler.py).          *)
(***************************************************************************)
EXTENDS Integers

\* mutant: recency counts against a chunk, the older the better
PriorityOfAge(now, e, f) ==
  (e.reuse + 1) * e.cost * (now - e.last + 1) * (now - f.last + 2)
    <= (f.reuse + 1) * f.cost * (now - f.last + 1) * (now - e.last + 2)

\* priority(e) <= priority(f) at a step, for the priority
\* (reuse_count + 1) * recovery_cost * (1 + 1 / (1 + now - last_used_step))
PriorityLeq(now, e, f) ==
  (e.reuse + 1) * e.cost * (now - e.last + 2) * (now - f.last + 1)
    <= (f.reuse + 1) * f.cost * (now - f.last + 2) * (now - e.last + 1)

\* a chunk just admitted
NewEntry(n, cost, now) == [nbytes |-> n, cost |-> cost, reuse |-> 0, last |-> now]

\* a chunk just used
Used(e, now) == [e EXCEPT !.reuse = @ + 1, !.last = now]
===============================================================================
