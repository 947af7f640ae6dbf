------------------------------ MODULE Rounding ------------------------------
(***************************************************************************)
(* A unit that recovers: its StateMachine, with the availability trigger   *)
(* and a window full of failures, observes one success after the other     *)
(* while the percentage is the rounded float64 of the code.                *)
(***************************************************************************)
EXTENDS StateMachine, Float64

CONSTANTS
    WindowSizes,  \* the window sizes, positive
    Minima        \* the values of min_availability, whole numbers in 1..100

ASSUME RoundingAssumption ==
    /\ WindowSizes \subseteq Nat \ {0}
    /\ Minima \subseteq 1..100

\* The percentage is the one that Availability computes.
ASSUME PercentAssumption ==
    \A size \in WindowSizes : \A s \in 0..size : Percent(s, size) = Percent64(s, size)

VARIABLE sm

(* The machine after it observed `size' failures and nothing else.         *)
Init ==
    \E size \in WindowSizes, min \in Minima :
        LET new == NewWithConfig([FailureThreshold |-> 1, WindowSize |-> size,
                                  Trigger |-> TriggerAvailability,
                                  MinAvailability |-> min])
        IN  sm = [new EXCEPT !.state = Unhealthy, !.consecutive = size,
                             !.window.len = size]

Succeed ==
    /\ sm.window.sum < sm.window.size
    /\ sm' = Observe(sm, TRUE, 1).sm

Next == Succeed

Spec == Init /\ [][Next]_sm

-----------------------------------------------------------------------------
\* sm.window holds at least the minimum, computed without rounding, when
\* `missing' of its successes are not counted.
ReachesMinimum(missing) ==
    100 * (sm.window.sum - missing) >= sm.minAvailability * sm.window.size

\* The two roundings of window.go Availability never lift a percentage to a
\* minimum it has not reached, so a unit is never declared healthy too early;
\* they delay a recovery by one success at most, and a window without failures
\* is healthy whatever the minimum.
RecoversWithinOne ==
    /\ sm.state = Healthy => ReachesMinimum(0)
    /\ ReachesMinimum(1) \/ sm.window.sum = sm.window.size => sm.state = Healthy

\* In a window of 20 results, the size config.go gives to a unit that sets
\* none, the roundings never matter.
DefaultWindowExact ==
    sm.window.size = 20 => (sm.state = Healthy <=> ReachesMinimum(0))

=============================================================================
