---------------------------- MODULE AlertMachine ----------------------------
(***************************************************************************)
(* One monitored unit's StateMachine driven by an arbitrary sequence of    *)
(* check results, with the log of those results kept as a history          *)
(* variable.  The time of a check is its ordinal.                          *)
(***************************************************************************)
EXTENDS StateMachine, Sequences, FiniteSets

CONSTANTS
    Configs,   \* the monitor.Config values a role may build its machine with
    MaxChecks  \* bound on the number of checks

Config == [FailureThreshold : Int, WindowSize : Nat, Trigger : Trigger,
           MinAvailability : Int]

\* What config.validateTrigger lets through: the availability trigger needs a
\* window (window_size > 0).
ASSUME ConfigsAssumption ==
    \A c \in Configs : /\ c \in Config
                       /\ c.Trigger = TriggerAvailability => c.WindowSize > 0

ASSUME MaxChecksAssumption == MaxChecks \in Nat

\* More successes out of as many results never make a smaller percentage.
\* Correctly rounded division and multiplication are monotone.
ASSUME PercentAssumption ==
    \A c \in Configs : \A l \in 1..c.WindowSize : \A s \in 0..l :
        /\ Percent(s, l) \in Int
        /\ \A r \in 0..s : Percent(r, l) <= Percent(s, l)

VARIABLES
    cfg,      \* the configuration of the machine
    sm,       \* the StateMachine
    event,    \* what the last Observe returned
    results   \* history: every result observed, oldest first

vars == <<cfg, sm, event, results>>

-----------------------------------------------------------------------------
Init ==
    /\ cfg \in Configs
    /\ sm = NewWithConfig(cfg)
    /\ event = None
    /\ results = <<>>

Check(success) ==
    /\ Len(results) < MaxChecks
    /\ LET o == Observe(sm, success, Len(results) + 1)
       IN  sm' = o.sm /\ event' = o.event
    /\ results' = Append(results, success)
    /\ UNCHANGED cfg

Next == \E success \in BOOLEAN : Check(success)

Spec == Init /\ [][Next]_vars

-----------------------------------------------------------------------------
(* The window of a machine built from cfg: all its indices are in range.   *)
WindowType ==
    [buf : [0..(cfg.WindowSize - 1) -> BOOLEAN], size : {cfg.WindowSize},
     head : 0..cfg.WindowSize, len : 0..cfg.WindowSize,
     sum : 0..cfg.WindowSize]

\* Every field has its type: the window indexes its buffer within bounds
\* (window.go: Add reads and writes buf[head]) and its count of successes
\* stays between 0 and the window size.
TypeOK ==
    /\ cfg \in Configs
    /\ sm \in [failureThreshold : Nat \ {0}, trigger : Trigger,
               minAvailability : Int, state : State, consecutive : Nat,
               window : WindowType, lastSuccess : Nat]
    /\ HasWindow(sm) => sm.window.head < sm.window.size
    /\ event \in Event
    /\ results \in Seq(BOOLEAN)

-----------------------------------------------------------------------------
(* The slot that is `age` writes behind head; the youngest result has age  *)
(* 1.                                                                      *)
Slot(w, age) == IF w.head >= age THEN w.head - age ELSE w.head - age + w.size

\* The indices of the results that are in the window.
InWindow == (Len(results) - sm.window.len + 1)..Len(results)

WindowHoldsLatest ==
    LET w == sm.window
    IN  HasWindow(sm) =>
          /\ w.len = IF Len(results) < w.size THEN Len(results) ELSE w.size
          /\ \A age \in 1..w.len :
                w.buf[Slot(w, age)] = results[Len(results) + 1 - age]

SumCountsSuccesses ==
    HasWindow(sm) => sm.window.sum = Cardinality({i \in InWindow : results[i]})

TrailingFailures ==
    /\ sm.consecutive <= Len(results)
    /\ \A i \in (Len(results) - sm.consecutive + 1)..Len(results) : ~results[i]
    /\ sm.consecutive < Len(results) => results[Len(results) - sm.consecutive]

LastSuccessIsLatest ==
    sm.lastSuccess = Len(results) - sm.consecutive

\* The incremental counters equal what they stand for, recomputed from the
\* whole log: the circular buffer holds exactly the latest results and sum
\* counts their successes (window.go Add, with eviction), consecutive is the
\* length of the run of failures at the end, and lastSuccess is the time of
\* the success before it (statemachine.go Observe).
CountersMatchResults ==
    /\ WindowHoldsLatest
    /\ SumCountsSuccesses
    /\ TrailingFailures
    /\ LastSuccessIsLatest

\* roles.go dispatchEvent sends the counter with an alert and a constant 0
\* with a recovery.  The 0 is right in both modes, although nothing in
\* availability mode refers to the run of failures, and an alert of the
\* consecutive mode carries exactly the threshold.
EventPayload ==
    /\ event = RecoveryHealthy => sm.consecutive = 0
    /\ event = AlertUnhealthy /\ sm.trigger = TriggerConsecutive
         => sm.consecutive = sm.failureThreshold

\* A check that succeeds raises an alert only if it is the one that fills the
\* window (statemachine.go transitionAvailability ends the warm-up); such an
\* alert says "succeeded" in its detail and carries 0 failures.
AlertOnFailureOrFill ==
    event = AlertUnhealthy =>
        \/ ~results[Len(results)]
        \/ sm.trigger = TriggerAvailability /\ Len(results) = sm.window.size

Policy == INSTANCE AlertPolicy WITH state <- sm.state

\* The machine with its counters and circular buffer implements the policy
\* over the whole log: after every Observe the state is the verdict on the
\* latest results and events mark exactly the changes of the verdict.
ImplementsPolicy == Policy!Spec

=============================================================================
