------------------------------- MODULE Fleet --------------------------------
(***************************************************************************)
(* The monitoring roles of one daemon and the registry they share: every   *)
(* monitored unit runs on a goroutine of its own and takes its checks      *)
(* through the same sequence of calls, probe - Observe - Update -          *)
(* RecordCheck - RecordSpeed - LogSnapshot - dispatchEvent                 *)
(* (internal/roles/*_monitor.go, internet_check.go, speed_check.go,        *)
(* roles.go), each call one critical section of the registry.              *)
(*                                                                         *)
(* The time of a check is its ordinal within its unit.                     *)
(***************************************************************************)
EXTENDS Registry

CONSTANTS
    UnitSeq,        \* the units in the order buildRoles constructs them
    NameOf,         \* the name a unit registers under
    ConfigOf,       \* the monitor.Config of a unit
    SpeedUnits,     \* the units that run speed_check
    Speeds,         \* the speeds a measurement can yield, in Mbps
    ThresholdMbps,  \* threshold_mbps of speed_check
    MaxChecks       \* bound on the number of checks per unit

Units == {UnitSeq[i] : i \in DOMAIN UnitSeq}

ASSUME UnitsAssumption ==
    /\ UnitSeq \in Seq(Units)
    /\ \A i, j \in DOMAIN UnitSeq : UnitSeq[i] = UnitSeq[j] => i = j
    /\ SpeedUnits \subseteq Units
    /\ Speeds \subseteq Nat /\ ThresholdMbps \in Nat
    /\ historyCap \in Nat \ {0}

VARIABLES
    built,     \* how many units are constructed
    registry,
    sm,        \* the StateMachine of each unit
    pc,        \* where each unit's goroutine is
    check,     \* the result of the check under way: success, mbps, ev
    ctxDone,   \* the daemon's context is cancelled
    log,       \* history: the results each unit observed, oldest first
    alerts,    \* history: the alerts each unit handed to the notifier
    shown      \* history: what a unit's last snapshot line said of its name

vars == <<built, registry, sm, pc, check, ctxDone, log, alerts, shown>>

-----------------------------------------------------------------------------
\* A check that took no measurement has no speed.
NoSpeed == -1

NoCheck == [success |-> FALSE, mbps |-> NoSpeed, ev |-> None]

(* What a ping or an HTTP probe can come to: an exchange that completes in *)
(* time and as expected, or any failure.  After a cancellation it may      *)
(* still go either way: it fails unless it was already through.            *)
ProbeOutcomes == [success : BOOLEAN, mbps : {NoSpeed}]

(* A speed test fails, or measures a speed that reaches the threshold or   *)
(* not.                                                                    *)
SpeedOutcomes ==
    {[success |-> FALSE, mbps |-> NoSpeed]} \cup
    {[success |-> ~(m < ThresholdMbps), mbps |-> m] : m \in Speeds}

Outcomes(u) == IF u \in SpeedUnits THEN SpeedOutcomes ELSE ProbeOutcomes

Init ==
    /\ built = 0
    /\ registry = NewRegistry
    /\ sm = [u \in Units |-> NewWithConfig(ConfigOf[u])]
    /\ pc = [u \in Units |-> "idle"]
    /\ check = [u \in Units |-> NoCheck]
    /\ ctxDone = FALSE
    /\ log = [u \in Units |-> <<>>]
    /\ alerts = [u \in Units |-> <<>>]
    /\ shown = [u \in Units |-> Healthy]

(* buildRoles constructs the units one after the other before any runs.    *)
Build ==
    /\ built < Len(UnitSeq)
    /\ registry' = Register(registry, NameOf[UnitSeq[built + 1]])
    /\ built' = built + 1
    /\ UNCHANGED <<sm, pc, check, ctxDone, log, alerts, shown>>

Running == built = Len(UnitSeq)

(* The two cases of a role's select.                                       *)
Tick(u) ==
    /\ Running /\ pc[u] = "idle" /\ Len(log[u]) < MaxChecks
    /\ pc' = [pc EXCEPT ![u] = "probe"]
    /\ UNCHANGED <<built, registry, sm, check, ctxDone, log, alerts, shown>>

Stop(u) ==
    /\ Running /\ pc[u] = "idle" /\ ctxDone
    /\ pc' = [pc EXCEPT ![u] = "stopped"]
    /\ UNCHANGED <<built, registry, sm, check, ctxDone, log, alerts, shown>>

(* The probe ends and the goroutine's own machine observes the result.     *)
Probe(u) ==
    /\ pc[u] = "probe"
    /\ \E o \in Outcomes(u) :
          LET r == Observe(sm[u], o.success, Len(log[u]) + 1)
          IN  /\ sm' = [sm EXCEPT ![u] = r.sm]
              /\ check' = [check EXCEPT ![u] = [success |-> o.success,
                                                mbps |-> o.mbps, ev |-> r.event]]
              /\ log' = [log EXCEPT ![u] = Append(@, o)]
    /\ pc' = [pc EXCEPT ![u] = "update"]
    /\ UNCHANGED <<built, registry, ctxDone, alerts, shown>>

(* Mutant: the slot is refreshed only when the state changes.              *)
UpdateOnEvent(u) ==
    /\ pc[u] = "update"
    /\ registry' = IF check[u].ev = None THEN registry
                   ELSE set(registry, StatusOf(NameOf[u], sm[u]))
    /\ pc' = [pc EXCEPT ![u] = "record"]
    /\ UNCHANGED <<built, sm, check, ctxDone, log, alerts, shown>>

Update(u) ==
    /\ pc[u] = "update"
    /\ registry' = set(registry, StatusOf(NameOf[u], sm[u]))
    /\ pc' = [pc EXCEPT ![u] = "record"]
    /\ UNCHANGED <<built, sm, check, ctxDone, log, alerts, shown>>

(* Where a check goes once its samples are recorded.                       *)
Recorded(u) == IF check[u].ev = None THEN "idle" ELSE "snapshot"

RecordCheck(u) ==
    /\ pc[u] = "record"
    /\ registry' = recordCheck(registry, NameOf[u], Len(log[u]), check[u].success)
    /\ pc' = [pc EXCEPT ![u] = IF check[u].mbps = NoSpeed THEN Recorded(u)
                                                          ELSE "speed"]
    /\ UNCHANGED <<built, sm, check, ctxDone, log, alerts, shown>>

RecordSpeed(u) ==
    /\ pc[u] = "speed"
    /\ registry' = recordSpeed(registry, NameOf[u], Len(log[u]), check[u].mbps)
    /\ pc' = [pc EXCEPT ![u] = Recorded(u)]
    /\ UNCHANGED <<built, sm, check, ctxDone, log, alerts, shown>>

LogSnapshot(u) ==
    /\ pc[u] = "snapshot"
    /\ LET line == Snapshot(registry)
           i == CHOOSE j \in DOMAIN line : line[j].Name = NameOf[u]
       IN  shown' = [shown EXCEPT ![u] = line[i].State]
    /\ pc' = [pc EXCEPT ![u] = "dispatch"]
    /\ UNCHANGED <<built, registry, sm, check, ctxDone, log, alerts>>

(* The alert of an event; a recovery carries a constant 0.                 *)
alertOf(ev, consecutive) ==
    CASE ev = AlertUnhealthy
           -> [State |-> "UNHEALTHY", ConsecutiveFailures |-> consecutive]
      [] ev = RecoveryHealthy
           -> [State |-> "HEALTHY", ConsecutiveFailures |-> 0]

(* Mutant: recoveries are not announced.                                   *)
dispatchFailures(u) ==
    /\ pc[u] = "dispatch"
    /\ alerts' = IF check[u].ev = AlertUnhealthy
                 THEN [alerts EXCEPT ![u] =
                         Append(@, alertOf(check[u].ev, sm[u].consecutive))]
                 ELSE alerts
    /\ pc' = [pc EXCEPT ![u] = "idle"]
    /\ UNCHANGED <<built, registry, sm, check, ctxDone, log, shown>>

(* The call of Dispatch; what it does with the channels is Dispatcher.     *)
dispatchEvent(u) ==
    /\ pc[u] = "dispatch"
    /\ alerts' = [alerts EXCEPT ![u] =
                     Append(@, alertOf(check[u].ev, sm[u].consecutive))]
    /\ pc' = [pc EXCEPT ![u] = "idle"]
    /\ UNCHANGED <<built, registry, sm, check, ctxDone, log, shown>>

(* A signal, or a role that failed, cancels the context.                   *)
Cancel ==
    /\ Running /\ ~ctxDone
    /\ ctxDone' = TRUE
    /\ UNCHANGED <<built, registry, sm, pc, check, log, alerts, shown>>

Terminated ==
    /\ \A u \in Units : pc[u] = "stopped"
    /\ UNCHANGED vars

Next ==
    \/ Build
    \/ Cancel
    \/ Terminated
    \/ \E u \in Units : \/ Tick(u) \/ Stop(u) \/ Probe(u) \/ Update(u)
                        \/ RecordCheck(u) \/ RecordSpeed(u) \/ LogSnapshot(u)
                        \/ dispatchEvent(u)

Spec == Init /\ [][Next]_vars

-----------------------------------------------------------------------------
RingType(Sample) ==
    [buf : [0..(historyCap - 1) -> Sample], head : 0..(historyCap - 1),
     len : 0..historyCap]

\* Every variable has its type; in particular both rings of every unit are
\* indexed within their buffers (history.go: add, slice).
TypeOK ==
    /\ built \in 0..Len(UnitSeq)
    /\ pc \in [Units -> {"idle", "probe", "update", "record", "speed",
                         "snapshot", "dispatch", "stopped"}]
    /\ ctxDone \in BOOLEAN
    /\ DOMAIN registry.units = {registry.order[i] : i \in DOMAIN registry.order}
    /\ DOMAIN registry.history = DOMAIN registry.units
    /\ \A name \in DOMAIN registry.history :
          /\ registry.history[name].checks
                \in RingType([Time : Nat, Success : BOOLEAN])
          /\ registry.history[name].speeds \in RingType([Time : Nat, Mbps : Nat])

(* Unit u's goroutine is in its check and has not yet passed one of steps. *)
Before(u, steps) == pc[u] \in steps

\* Apart from the one unit whose Update is due, every slot of the registry is
\* the status of its unit's machine, whatever the other units do meanwhile
\* (registry.go set, Handle.Update; one slot per name, one name per unit).
SlotFollowsMachine ==
    \A u \in Units : log[u] # <<>> /\ ~Before(u, {"update"}) =>
        registry.units[NameOf[u]] = StatusOf(NameOf[u], sm[u])

(* What unit u has recorded: its results and, of those, the measurements.  *)
Checked(u) ==
    {CheckSample(k, log[u][k].success) :
       k \in 1..(Len(log[u]) - One(Before(u, {"update", "record"})))}

Measured(u) ==
    {SpeedSample(k, log[u][k].mbps) :
       k \in {m \in 1..(Len(log[u]) - One(Before(u, {"update", "record", "speed"}))) :
                log[u][m].mbps # NoSpeed}}

(* samples are the latest of the samples in `due', oldest first: none is   *)
(* left out but the oldest, and those only when the history is full.       *)
Latest(samples, due) ==
    /\ Len(samples) <= historyCap
    /\ \A j \in DOMAIN samples : samples[j] \in due
    /\ \A j, k \in DOMAIN samples : j < k => samples[j].Time < samples[k].Time
    /\ \A s \in due :
          \/ \E j \in DOMAIN samples : samples[j] = s
          \/ Len(samples) = historyCap /\ \A j \in DOMAIN samples : s.Time < samples[j].Time

\* A get-summary response made at any moment lists, for every unit, the latest results it
\* recorded, oldest first, at most historyCap of them: it lacks the result of
\* the check under way until RecordCheck and its speed until RecordSpeed,
\* although Update already published its status (registry.go Summary,
\* recordCheck, recordSpeed; history.go add, slice; message_handler.go
\* toWireSummary).
SummaryTellsTheLog ==
    LET wire == toWireSummary(Summary(registry))
    IN  \A u \in Units, i \in DOMAIN wire :
            wire[i].Name = NameOf[u] => /\ Latest(wire[i].Checks, Checked(u))
                                        /\ Latest(wire[i].Speeds, Measured(u))

\* The alerts of a unit alternate, starting with UNHEALTHY, and the last one
\* announced the state the machine is in, unless that change is still on its
\* way to the notifier: "No repeat alerts while it stays in the same state"
\* (roles.go dispatchEvent).
AlertsFollowState ==
    \A u \in Units :
        LET a == alerts[u]
            pending == check[u].ev # None /\
                       Before(u, {"update", "record", "speed", "snapshot", "dispatch"})
            announced == IF a = <<>> THEN Healthy ELSE a[Len(a)].State
        IN  /\ \A k \in DOMAIN a :
                  a[k].State = IF k % 2 = 1 THEN Unhealthy ELSE Healthy
            /\ (announced = sm[u].state) <=> ~pending

\* The snapshot line logged for a change of state shows the unit in the state
\* it changed to: "a single `status snapshot` line is logged listing every
\* unit across all roles with its current state" (registry.go LogSnapshot).
SnapshotShowsChange ==
    \A u \in Units : pc[u] = "dispatch" => shown[u] = sm[u].state

=============================================================================
