---------------------------- MODULE AlertPolicy -----------------------------
(***************************************************************************)
(* What the alert state machine promises, stated over the complete log of  *)
(* check results and without counters or buffers: after every check the    *)
(* state is the verdict on the most recent results, and an event marks     *)
(* exactly the checks at which the verdict changes.                        *)
(***************************************************************************)
EXTENDS Integers, Sequences, FiniteSets

CONSTANTS
    Configs,        \* the configurations a machine may be built with
    Percent(_, _),  \* the percentage s successes out of l results amount to
    MaxChecks       \* bound on the number of checks

VARIABLES
    cfg,      \* the configuration, fixed when the machine is built
    results,  \* every check result so far, oldest first
    state,
    event     \* what the last check returned

vars == <<cfg, results, state, event>>

-----------------------------------------------------------------------------
(* The indices of the last k of n results.                                 *)
Last(n, k) == (n - k + 1)..n

Successes(r, k) == Cardinality({i \in Last(Len(r), k) : r[i]})

\* "transitions after failureThreshold consecutive failures (and recovers on
\* the first success)"
FailedInARow(c, r) ==
    LET k == IF c.FailureThreshold < 1 THEN 1 ELSE c.FailureThreshold
    IN  Len(r) >= k /\ \A i \in Last(Len(r), k) : ~r[i]

\* "transitions once the rolling window is full and availability drops below
\* MinAvailability"
BelowMinimum(c, r) ==
    /\ c.WindowSize > 0 /\ Len(r) >= c.WindowSize
    /\ Percent(Successes(r, c.WindowSize), c.WindowSize) < c.MinAvailability

Down(c, r) == IF c.Trigger = "availability" THEN BelowMinimum(c, r)
                                            ELSE FailedInARow(c, r)

Verdict(c, r) == IF Down(c, r) THEN "UNHEALTHY" ELSE "HEALTHY"

Edge(before, after) ==
    CASE before = "HEALTHY" /\ after = "UNHEALTHY" -> "AlertUnhealthy"
      [] before = "UNHEALTHY" /\ after = "HEALTHY" -> "RecoveryHealthy"
      [] OTHER -> "None"

-----------------------------------------------------------------------------
Init ==
    /\ cfg \in Configs
    /\ results = <<>>
    /\ state = "HEALTHY"
    /\ event = "None"

Check(success) ==
    /\ Len(results) < MaxChecks
    /\ results' = Append(results, success)
    /\ state' = Verdict(cfg, results')
    /\ event' = Edge(state, state')
    /\ UNCHANGED cfg

Next == \E success \in BOOLEAN : Check(success)

Spec == Init /\ [][Next]_vars

=============================================================================
