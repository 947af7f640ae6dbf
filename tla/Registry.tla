------------------------------ MODULE Registry ------------------------------
(***************************************************************************)
(* The fleet-wide status registry (internal/monitor/registry.go) and the   *)
(* wire form of its summary (internal/roles/message_handler.go).  Every    *)
(* method of the Go type holds the mutex from its first to its last line,  *)
(* so each is one operator from a registry to a registry or to an answer.  *)
(***************************************************************************)
EXTENDS StateMachine, History, Sequences, SequencesExt

CONSTANT historyCap  \* samples retained per unit and kind (100 in the code)

CheckSample(t, success) == [Time |-> t, Success |-> success]
SpeedSample(t, mbps) == [Time |-> t, Mbps |-> mbps]

newUnitHistory ==
    [checks |-> newRing(historyCap, CheckSample(ZeroTime, FALSE)),
     speeds |-> newRing(historyCap, SpeedSample(ZeroTime, 0))]

NewRegistry == [order |-> <<>>, units |-> <<>>, history |-> <<>>]

(* The map f after f[k] = v.                                               *)
Put(f, k, v) == [x \in DOMAIN f \cup {k} |-> IF x = k THEN v ELSE f[x]]

-----------------------------------------------------------------------------
(* Registering under a known name returns a handle to the same slot.       *)
Register(r, name) ==
    IF name \in DOMAIN r.units THEN r
    ELSE [order   |-> Append(r.order, name),
          units   |-> Put(r.units, name,
                          [Name |-> name, State |-> Healthy, HasWindow |-> FALSE,
                           Availability |-> 0, Consecutive |-> 0,
                           LastSuccess |-> ZeroTime]),
          history |-> Put(r.history, name, newUnitHistory)]

recordCheck(r, name, t, success) ==
    IF name \in DOMAIN r.history
    THEN [r EXCEPT !.history[name].checks = add(@, CheckSample(t, success))]
    ELSE r

recordSpeed(r, name, t, mbps) ==
    IF name \in DOMAIN r.history
    THEN [r EXCEPT !.history[name].speeds = add(@, SpeedSample(t, mbps))]
    ELSE r

set(r, status) ==
    IF status.Name \in DOMAIN r.units
    THEN [r EXCEPT !.units[status.Name] = status]
    ELSE r

(* Mutant: the status omits the state, which is then the zero value.       *)
StatusNoState(name, m) ==
    [Name |-> name, State |-> Healthy, HasWindow |-> HasWindow(m),
     Availability |-> MachineAvailability(m), Consecutive |-> m.consecutive,
     LastSuccess |-> m.lastSuccess]

(* What Handle.Update copies from a machine.                               *)
StatusOf(name, m) ==
    [Name |-> name, State |-> m.state, HasWindow |-> HasWindow(m),
     Availability |-> MachineAvailability(m), Consecutive |-> m.consecutive,
     LastSuccess |-> m.lastSuccess]

-----------------------------------------------------------------------------
Snapshot(r) == [i \in 1..Len(r.order) |-> r.units[r.order[i]]]

historyAvailability(samples) ==
    IF samples = <<>> THEN 100
    ELSE Percent(Cardinality({i \in DOMAIN samples : samples[i].Success}),
                 Len(samples))

\* The nil *SpeedStats of a unit without measurements.
NoStats == [Count |-> 0]

speedStats(samples) ==
    LET mbps == {samples[i].Mbps : i \in DOMAIN samples}
        total == FoldLeft(LAMBDA acc, s : acc + s.Mbps, 0, samples)
    IN  IF samples = <<>> THEN NoStats
        ELSE [Count |-> Len(samples), Min |-> Min(mbps), Max |-> Max(mbps),
              Latest |-> samples[Len(samples)].Mbps,
              Avg |-> total \div Len(samples)]

UnitSummary(r, name) ==
    LET checks == slice(r.history[name].checks)
        speeds == slice(r.history[name].speeds)
    IN  [Status |-> r.units[name],
         HistoryAvailability |-> historyAvailability(checks),
         Speed |-> speedStats(speeds), Checks |-> checks, Speeds |-> speeds]

Summary(r) == [i \in 1..Len(r.order) |-> UnitSummary(r, r.order[i])]

(* The units of a get-summary response.  HasWindow does not go out.        *)
toWireSummary(fs) ==
    [i \in DOMAIN fs |->
        [Name |-> fs[i].Status.Name, State |-> fs[i].Status.State,
         Availability |-> fs[i].Status.Availability,
         HistoryAvailability |-> fs[i].HistoryAvailability,
         ConsecutiveFailures |-> fs[i].Status.Consecutive,
         LastSuccessMS |-> fs[i].Status.LastSuccess,
         Speed |-> fs[i].Speed, Checks |-> fs[i].Checks, Speeds |-> fs[i].Speeds]]

=============================================================================
