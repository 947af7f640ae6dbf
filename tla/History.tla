------------------------------ MODULE History -------------------------------
(***************************************************************************)
(* The bounded history of samples kept per unit                            *)
(* (internal/monitor/history.go): a generic FIFO ring that evicts its      *)
(* oldest element once it is full.                                         *)
(***************************************************************************)
EXTENDS Integers, FiniteSets

newRing(capacity, zero) ==
    [buf |-> [i \in 0..(capacity - 1) |-> zero], head |-> 0, len |-> 0]

capOf(r) == Cardinality(DOMAIN r.buf)

(* Mutant: the ring stops taking samples once it is full.                  *)
addStopsWhenFull(r, v) ==
    IF r.len = capOf(r) THEN r
    ELSE [r EXCEPT !.buf[r.head] = v, !.head = (@ + 1) % capOf(r), !.len = @ + 1]

(* Mutant: the write position is not wrapped.                              *)
addNoWrap(r, v) ==
    [r EXCEPT !.buf[r.head] = v,
              !.head = @ + 1,
              !.len = IF @ < capOf(r) THEN @ + 1 ELSE @]

add(r, v) ==
    [r EXCEPT !.buf[r.head] = v,
              !.head = (@ + 1) % capOf(r),
              !.len = IF @ < capOf(r) THEN @ + 1 ELSE @]

(* The retained elements, oldest first.                                    *)
slice(r) ==
    LET start == (r.head - r.len + capOf(r)) % capOf(r)
    IN  [i \in 1..r.len |-> r.buf[(start + i - 1) % capOf(r)]]

=============================================================================
