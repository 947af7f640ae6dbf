----------------------------- MODULE AlertPath ------------------------------
(***************************************************************************)
(* One monitored unit from its ticker to the notification channels: the    *)
(* loop of a role, its StateMachine and the Dispatcher it blocks in        *)
(* (runCheck and run of internal/roles, roles.go dispatchEvent, composed   *)
(* with StateMachine and Dispatcher).  A shutdown may interrupt the probe, *)
(* which the role then takes for a failure of the target.                  *)
(***************************************************************************)
EXTENDS Dispatcher, StateMachine

CONSTANTS
    UnitConfig,  \* the monitor.Config of the unit
    MaxChecks    \* bound on the number of checks

VARIABLES
    unit,    \* the loop: "select", "probe", "observed", "dispatch", "stopped"
    sm,      \* its StateMachine
    event,   \* what Observe returned in the check under way
    cause,   \* why the last probe came out as it did: "target" or "shutdown"
    told,    \* history: the state the last alert announced
    checks   \* history: how many checks were made

unitVars == <<unit, sm, event, cause, told, checks>>
pathVars == <<vars, unitVars>>

PathInit ==
    /\ Init
    /\ unit = "select"
    /\ sm = NewWithConfig(UnitConfig)
    /\ event = None
    /\ cause = "target"
    /\ told = Healthy
    /\ checks = 0

Tick ==
    /\ unit = "select" /\ checks < MaxChecks
    /\ unit' = "probe"
    /\ checks' = checks + 1
    /\ UNCHANGED <<vars, sm, event, cause, told>>

Stop ==
    /\ unit = "select" /\ ctxDone
    /\ unit' = "stopped"
    /\ UNCHANGED <<vars, sm, event, cause, told, checks>>

(* The probe ends and its result is observed.                              *)
Probed(success, why) ==
    /\ unit = "probe"
    /\ LET r == Observe(sm, success, ZeroTime)
       IN  sm' = r.sm /\ event' = r.event
    /\ cause' = why
    /\ unit' = "observed"
    /\ UNCHANGED <<vars, told, checks>>

ProbeAnswered == \E success \in BOOLEAN : Probed(success, "target")

ProbeInterrupted == ctxDone /\ Probed(FALSE, "shutdown")

(* Mutant: only failures are dispatched.                                   *)
dispatchFailuresOnly ==
    /\ unit = "observed"
    /\ IF event # AlertUnhealthy
       THEN unit' = "select" /\ UNCHANGED <<vars, told>>
       ELSE /\ Raise
            /\ told' = Unhealthy
            /\ unit' = "dispatch"
    /\ UNCHANGED <<sm, event, cause, checks>>

dispatchEvent ==
    /\ unit = "observed"
    /\ IF event = None
       THEN unit' = "select" /\ UNCHANGED <<vars, told>>
       ELSE /\ Raise
            /\ told' = IF event = AlertUnhealthy THEN Unhealthy ELSE Healthy
            /\ unit' = "dispatch"
    /\ UNCHANGED <<sm, event, cause, checks>>

(* Dispatch has returned.                                                  *)
Resume ==
    /\ unit = "dispatch" /\ caller = "idle"
    /\ unit' = "select"
    /\ UNCHANGED <<vars, sm, event, cause, told, checks>>

Delivery ==
    /\ \/ Spawn \/ Return
       \/ \E i \in Known : Step(i)
       \/ \E s \in senders : EmailSend(s)
    /\ UNCHANGED unitVars

Loop == Tick \/ Stop \/ ProbeAnswered \/ ProbeInterrupted \/ dispatchEvent \/ Resume

Path == Loop \/ Delivery \/ (Cancel /\ UNCHANGED unitVars)

(* As in Dispatcher; a probe has a timeout, and the select does not pass   *)
(* over ctx.Done for ever.                                                 *)
PathSpec ==
    /\ PathInit /\ [][Path]_pathVars
    /\ WF_pathVars(ProbeAnswered) /\ WF_pathVars(dispatchEvent) /\ WF_pathVars(Resume)
    /\ SF_pathVars(Stop)
    /\ WF_pathVars(Spawn /\ UNCHANGED unitVars)
    /\ WF_pathVars(Return /\ UNCHANGED unitVars)
    /\ \A i \in Known : WF_pathVars(Step(i) /\ UNCHANGED unitVars)

-----------------------------------------------------------------------------
\* A shutdown raises no false alarm: the alert of a check that failed because
\* the daemon was stopping is handed to Dispatch, and no channel is called for
\* it (roles.go dispatchEvent, dispatcher.go deliver).
NoFalseAlarm ==
    cause = "shutdown" /\ unit = "dispatch" =>
        \A i \in Known : pc[i] \in {"none", "check", "done"}

\* While the daemon runs, a unit that waits for its next check has told every
\* channel of its state: the last alert announced the state the machine is in,
\* and each channel confirmed it or was tried maxAttempts times (roles.go
\* dispatchEvent blocks until Dispatch returns).
ChannelsKnowState ==
    unit = "select" /\ ~ctxDone =>
        /\ told = sm.state
        /\ alert > 0 => \A i \in Known : acked[i] \/ attempt[i] = maxAttempts

\* After a cancellation the unit stops, in whatever check or dispatch it is
\* and whatever its channels do (the loops of internal/roles, email.go Notify,
\* dispatcher.go deliver); Daemon assumes no less of a loop.
UnitStops == ctxDone ~> unit = "stopped"

=============================================================================
