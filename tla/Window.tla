------------------------------- MODULE Window -------------------------------
(***************************************************************************)
(* The rolling window of recent check results kept by a StateMachine       *)
(* (internal/monitor/window.go): a circular buffer of booleans with a      *)
(* running count of the successes it holds.                                *)
(*                                                                         *)
(* A window is a record with the fields of the Go struct.  The nil         *)
(* *Window of a StateMachine without a window is the window of size 0.     *)
(***************************************************************************)
EXTENDS Integers

CONSTANT
    \* float64(s) / float64(l) * 100: the percentage that s successes out of
    \* l results amount to, after rounding.  Only its monotonicity is used.
    Percent(_, _)

newWindow(size) ==
    [buf |-> [i \in 0..(size - 1) |-> FALSE], size |-> size,
     head |-> 0, len |-> 0, sum |-> 0]

IsNil(w) == w.size = 0

Full(w) == w.len = w.size

(* Mutant: the integers are divided before they become floats.             *)
AvailabilityWhole(w) == IF w.len = 0 THEN 100 ELSE 100 * (w.sum \div w.len)

\* An empty window reports 100: no failure was observed yet.
Availability(w) == IF w.len = 0 THEN 100 ELSE Percent(w.sum, w.len)

One(b) == IF b THEN 1 ELSE 0

(* Mutant: the slot is overwritten before the evicted result is read.      *)
AddWritesFirst(w, success) ==
    [w EXCEPT !.buf[w.head] = success,
              !.head = (w.head + 1) % w.size,
              !.len = IF Full(w) THEN @ ELSE @ + 1,
              !.sum = @ - One(Full(w) /\ success) + One(success)]

(* Mutant: the write position is not wrapped.                              *)
AddNoWrap(w, success) ==
    [w EXCEPT !.buf[w.head] = success,
              !.head = @ + 1,
              !.len = IF Full(w) THEN @ ELSE @ + 1,
              !.sum = @ - One(Full(w) /\ w.buf[w.head]) + One(success)]

(* One result enters the window; once it is full the oldest one, at head,  *)
(* leaves it.                                                              *)
Add(w, success) ==
    [w EXCEPT !.buf[w.head] = success,
              !.head = (w.head + 1) % w.size,
              !.len = IF Full(w) THEN @ ELSE @ + 1,
              !.sum = @ - One(Full(w) /\ w.buf[w.head]) + One(success)]

=============================================================================
