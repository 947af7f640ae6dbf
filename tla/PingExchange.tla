---------------------------- MODULE PingExchange ----------------------------
(***************************************************************************)
(* The exchange between ping monitors and the pong server of their common  *)
(* target (internal/roles/ping_monitor.go probe, composed with             *)
(* PongServer).  Every probe makes a connection of its own, <<m, k>> for   *)
(* the k-th probe of monitor m, and gives up when its timer fires.  The    *)
(* server may be shut down, and its process may die and start again.       *)
(***************************************************************************)
EXTENDS PongServer, TLC

CONSTANTS
    Monitors,    \* the ping monitors
    MaxCrashes   \* bound on the crashes of the server

ASSUME PingExchangeAssumption ==
    /\ Conns \subseteq Monitors \X (Nat \ {0})
    /\ MaxCrashes \in Nat

VARIABLES
    probe,    \* of each monitor: where it is, how many probes it started, idCounter
    outcome,  \* history: how each probe ended, or "none"
    crashes   \* history: how often the server crashed

allVars == <<vars, probe, outcome, crashes>>

ProbeInit ==
    /\ Init
    /\ probe = [m \in Monitors |-> [pc |-> "idle", count |-> 0, id |-> 0]]
    /\ outcome = [c \in Conns |-> "none"]
    /\ crashes = 0

(* The connection of the probe under way.                                  *)
Of(m) == <<m, probe[m].count>>

At(m, where) == probe[m].pc = where
Goto(m, where) == probe' = [probe EXCEPT ![m].pc = where]

(* probe returns: err is the step that failed, or "ok".  The deferred      *)
(* conn.Close hangs up if there is a connection.                           *)
Finish(m, err) ==
    /\ Goto(m, "idle")
    /\ outcome' = [outcome EXCEPT ![Of(m)] = err]
    /\ IF conn[Of(m)].client = "open" THEN Hangup(Of(m)) ELSE UNCHANGED vars
    /\ UNCHANGED crashes

(* The ticker fires; Conns bounds the probes of a monitor.                 *)
Tick(m) ==
    /\ At(m, "idle") /\ <<m, probe[m].count + 1>> \in Conns
    /\ probe' = [probe EXCEPT ![m].pc = "dial", ![m].count = @ + 1]
    /\ UNCHANGED <<vars, outcome, crashes>>

DialContext(m) ==
    /\ At(m, "dial")
    /\ Dial(Of(m))
    /\ probe' = [probe EXCEPT ![m].pc = "write", ![m].id = @ + 1]
    /\ UNCHANGED <<outcome, crashes>>

(* Refused, timed out or cancelled.                                        *)
DialFails(m) == At(m, "dial") /\ Finish(m, "dial")

WritePing(m) ==
    /\ At(m, "write")
    /\ Send(Of(m), Request(ToString(probe[m].id), TypePing, probe[m].count))
    /\ Goto(m, "read")
    /\ UNCHANGED <<outcome, crashes>>

(* The deadline has passed, or the connection is reset.                    *)
WritePingFails(m) == At(m, "write") /\ Finish(m, "write")

(* What probe makes of a response.                                         *)
Judge(resp, id) ==
    IF resp.json /\ resp.Type = TypePong /\ resp.ID = id THEN "ok" ELSE "rejected"

ReadPong(m) ==
    /\ At(m, "read") /\ conn[Of(m)].out # <<>>
    /\ Finish(m, Judge(Head(conn[Of(m)].out), ToString(probe[m].id)))

(* Mutant: the connection is given no deadline.                            *)
ReadPongWaits(m) ==
    /\ At(m, "read")
    /\ ~conn[Of(m)].open /\ conn[Of(m)].out = <<>>
    /\ Finish(m, "read")

(* Mutant: the error of ReadBytes is ignored.                              *)
ReadPongIgnores(m) ==
    /\ At(m, "read")
    /\ Finish(m, IF conn[Of(m)].open THEN "read" ELSE "ok")

(* The deadline has passed, or the server closed the connection.           *)
ReadPongFails(m) == At(m, "read") /\ Finish(m, "read")

(* The server's process dies and a new one is started; clients lose their  *)
(* connections.                                                            *)
Crash ==
    /\ crashes < MaxCrashes
    /\ crashes' = crashes + 1
    /\ run' = "listen" /\ ctxDone' = FALSE /\ lnOpen' = FALSE
    /\ conn' = [c \in Conns |->
                  IF conn[c].client = "none" THEN conn[c]
                  ELSE [conn[c] EXCEPT !.open = FALSE, !.sock = <<>>, !.buf = <<>>,
                                       !.pc = "done", !.closer = "done"]]
    /\ UNCHANGED <<probe, outcome>>

Probe(m) ==
    \/ DialContext(m) \/ DialFails(m) \/ WritePing(m) \/ WritePingFails(m)
    \/ ReadPong(m) \/ ReadPongFails(m)

Exchange ==
    \/ Server /\ UNCHANGED <<probe, outcome, crashes>>
    \/ Crash
    \/ \E m \in Monitors : Tick(m) \/ Probe(m)

(* The timers of a monitor fire.  Nothing is assumed of the target.        *)
ExchangeSpec ==
    /\ ProbeInit /\ [][Exchange]_allVars
    /\ \A m \in Monitors : WF_allVars(Probe(m))

-----------------------------------------------------------------------------
\* A target is found healthy only by an answer to the very ping of the probe:
\* the server that runs now or ran until a moment ago has read this probe's
\* ping and written its pong.  A pong that comes after its probe has timed
\* out, or was written before a restart of the server, never counts for a
\* later probe (ping_monitor.go probe).
SuccessIsAnswered ==
    \A c \in Conns : outcome[c] = "ok" =>
        /\ Len(conn[c].sent) = 1
        /\ conn[c].written = <<NewPong(conn[c].sent[1])>>

\* A monitor never rejects what a pong server answers: every probe that fails
\* does so because a timer fired or the server was not there, stopped or died
\* (ping_monitor.go probe against message_dispatcher.go and NewPong).
AnswersAccepted == \A c \in Conns : outcome[c] # "rejected"

\* Every probe ends, whatever the target does: one that accepts and never
\* answers does not hold up the monitor (ping_monitor.go probe: the dial
\* context and the deadline).
ProbesEnd == \A m \in Monitors : At(m, "dial") ~> At(m, "idle")

=============================================================================
