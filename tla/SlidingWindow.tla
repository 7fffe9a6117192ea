--------------------------- MODULE SlidingWindow ---------------------------
(***************************************************************************)
(* The counters over a sliding time window of the HTTP client              *)
(* (libs/resilient-http-client/window.go): a ring of slots, each of which  *)
(* counts two quantities for one slot of time.  A time is the number of    *)
(* its slot.                                                               *)
(***************************************************************************)
EXTENDS Integers, FiniteSets, Functions

CONSTANT WindowSlots

\* newWindow and reset: the zero ring.
newWindow == [i \in 0..(WindowSlots - 1) |-> [idx |-> 0, a |-> 0, b |-> 0]]

\* add: a slot that counts an older (or a newer) time starts again from zero.
add(w, now, a, b) ==
  LET i == now % WindowSlots
      slot == IF w[i].idx # now THEN [idx |-> now, a |-> 0, b |-> 0] ELSE w[i]
  IN [w EXCEPT ![i] = [idx |-> now, a |-> slot.a + a, b |-> slot.b + b]]

\* sum: the totals of the slots inside the window that ends at now.
sum(w, now) ==
  LET inside == {i \in DOMAIN w : now - w[i].idx < WindowSlots}
  IN [a |-> SumFunctionOnSet([i \in DOMAIN w |-> w[i].a], inside),
      b |-> SumFunctionOnSet([i \in DOMAIN w |-> w[i].b], inside)]
============================================================================
