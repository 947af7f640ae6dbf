---------------------------- MODULE StateMachine ----------------------------
(***************************************************************************)
(* The alert state machine that every monitoring role drives with its      *)
(* check results (internal/monitor/statemachine.go).  A machine is a       *)
(* record with the fields of the Go struct; the injected clock becomes the *)
(* time t that Observe is given.                                           *)
(***************************************************************************)
EXTENDS Window

None == "None"
AlertUnhealthy == "AlertUnhealthy"
RecoveryHealthy == "RecoveryHealthy"
Event == {None, AlertUnhealthy, RecoveryHealthy}

Healthy == "HEALTHY"
Unhealthy == "UNHEALTHY"
State == {Healthy, Unhealthy}

TriggerConsecutive == "consecutive"
TriggerAvailability == "availability"
Trigger == {TriggerConsecutive, TriggerAvailability}

\* The zero time.Time: no check has succeeded yet.
ZeroTime == 0

NewWithConfig(cfg) ==
    [failureThreshold |-> IF cfg.FailureThreshold < 1 THEN 1
                                                      ELSE cfg.FailureThreshold,
     trigger          |-> cfg.Trigger,
     minAvailability  |-> cfg.MinAvailability,
     state            |-> Healthy,
     consecutive      |-> 0,
     window           |-> newWindow(cfg.WindowSize),
     lastSuccess      |-> ZeroTime]

HasWindow(m) == ~IsNil(m.window)

MachineAvailability(m) == IF HasWindow(m) THEN Availability(m.window) ELSE 100

-----------------------------------------------------------------------------
(* A transition yields the machine after it and the event it returns.      *)
Enter(m, state, event) == [sm |-> [m EXCEPT !.state = state], event |-> event]

transitionConsecutive(m, success) ==
    CASE success /\ m.state = Unhealthy
           -> Enter(m, Healthy, RecoveryHealthy)
      [] ~success /\ m.state = Healthy /\ m.consecutive >= m.failureThreshold
           -> Enter(m, Unhealthy, AlertUnhealthy)
      [] OTHER
           -> Enter(m, m.state, None)

(* Mutant: no warm-up, a window that is still filling already decides.     *)
transitionNoWarmUp(m) ==
    CASE m.state = Healthy /\ MachineAvailability(m) < m.minAvailability
           -> Enter(m, Unhealthy, AlertUnhealthy)
      [] m.state = Unhealthy /\ MachineAvailability(m) >= m.minAvailability
           -> Enter(m, Healthy, RecoveryHealthy)
      [] OTHER
           -> Enter(m, m.state, None)

(* Mutant: a recovery needs more than the minimum.                         *)
transitionStrict(m) ==
    LET decides == HasWindow(m) /\ Full(m.window)
        avail == Availability(m.window)
    IN  CASE decides /\ m.state = Healthy /\ avail < m.minAvailability
               -> Enter(m, Unhealthy, AlertUnhealthy)
          [] decides /\ m.state = Unhealthy /\ avail > m.minAvailability
               -> Enter(m, Healthy, RecoveryHealthy)
          [] OTHER
               -> Enter(m, m.state, None)

transitionAvailability(m) ==
    LET decides == HasWindow(m) /\ Full(m.window)
        avail == Availability(m.window)
    IN  CASE decides /\ m.state = Healthy /\ avail < m.minAvailability
               -> Enter(m, Unhealthy, AlertUnhealthy)
          [] decides /\ m.state = Unhealthy /\ avail >= m.minAvailability
               -> Enter(m, Healthy, RecoveryHealthy)
          [] OTHER
               -> Enter(m, m.state, None)

(* Mutant: a success does not end the run of failures.                     *)
countNoReset(m, success, t) ==
    [m EXCEPT !.consecutive = IF success THEN @ ELSE @ + 1,
              !.lastSuccess = IF success THEN t ELSE @,
              !.window = IF HasWindow(m) THEN Add(@, success) ELSE @]

(* The part of Observe that both triggers share.                           *)
count(m, success, t) ==
    [m EXCEPT !.consecutive = IF success THEN 0 ELSE @ + 1,
              !.lastSuccess = IF success THEN t ELSE @,
              !.window = IF HasWindow(m) THEN Add(@, success) ELSE @]

(* Mutant: the trigger looks at the counters before they are updated.      *)
ObserveStale(m, success, t) ==
    LET o == IF m.trigger = TriggerAvailability
             THEN transitionAvailability(m)
             ELSE transitionConsecutive(m, success)
    IN  [o EXCEPT !.sm = count(@, success, t)]

Observe(m, success, t) ==
    LET counted == count(m, success, t)
    IN  IF m.trigger = TriggerAvailability
        THEN transitionAvailability(counted)
        ELSE transitionConsecutive(counted, success)

=============================================================================
