------------------------------- MODULE Daemon -------------------------------
(***************************************************************************)
(* The life of the daemon (cmd/healthd/main.go run, from the signal        *)
(* context on): the roles are started one by one and run until a signal or *)
(* the failure of a role cancels their common context; then main waits for *)
(* all of them and returns the failure, if there was one.                  *)
(*                                                                         *)
(* A role monitors (it runs one loop, or one per target on goroutines of   *)
(* their own, and waits for them; the summary reporter is such a role too) *)
(* or serves (PongServer), which is the only way a role can fail.          *)
(***************************************************************************)

CONSTANTS
    Monitors,   \* the roles that run loops
    Servers,    \* the roles that listen: pong_server
    LoopsOf,    \* the loops of each role of Monitors
    Unbounded,  \* the loops whose step has no timeout of its own: speed_check,
                \* and units with an email channel
    NoError     \* the nil error

Roles == Monitors \cup Servers
Loops == UNION {LoopsOf[r] : r \in Monitors}

ASSUME DaemonAssumption ==
    /\ Monitors \cap Servers = {}
    /\ LoopsOf \in [Monitors -> SUBSET Loops]
    /\ Unbounded \subseteq Loops
    /\ NoError \notin Roles

VARIABLES
    main,      \* run: "start", "wait" for the context, "drain", "exited"
    ctxDone,   \* the context is cancelled
    wg,        \* the roles the WaitGroup counts
    role,      \* the goroutine of each role: "none", "run", "serve", "returned"
               \* nil or Canceled, "failed", "cancel", "stopped"
    loop,      \* each loop: "none", "select", "check", "done"
    fatalErr,  \* the role whose error is recorded, or NoError
    failed,    \* history: the roles that failed
    signalled  \* history: a signal came

vars == <<main, ctxDone, wg, role, loop, fatalErr, failed, signalled>>

Init ==
    /\ main = "start"
    /\ ctxDone = FALSE
    /\ wg = {}
    /\ role = [r \in Roles |-> "none"]
    /\ loop = [l \in Loops |-> "none"]
    /\ fatalErr = NoError
    /\ failed = {}
    /\ signalled = FALSE

-----------------------------------------------------------------------------
(* main.                                                                   *)

(* Mutant: the goroutine is started without wg.Add.                        *)
StartRoleNoAdd(r) ==
    /\ main = "start" /\ role[r] = "none"
    /\ role' = [role EXCEPT ![r] = "run"]
    /\ UNCHANGED <<main, ctxDone, wg, loop, fatalErr, failed, signalled>>

(* One turn of the range loop over the map of roles, in any order: a role  *)
(* that fails may cancel the context before the others are started.        *)
StartRole(r) ==
    /\ main = "start" /\ role[r] = "none"
    /\ wg' = wg \cup {r}
    /\ role' = [role EXCEPT ![r] = "run"]
    /\ UNCHANGED <<main, ctxDone, loop, fatalErr, failed, signalled>>

Started ==
    /\ main = "start" /\ \A r \in Roles : role[r] # "none"
    /\ main' = "wait"
    /\ UNCHANGED <<ctxDone, wg, role, loop, fatalErr, failed, signalled>>

Drain ==
    /\ main = "wait" /\ ctxDone
    /\ main' = "drain"
    /\ UNCHANGED <<ctxDone, wg, role, loop, fatalErr, failed, signalled>>

(* wg.Wait returns; run returns fatalErr.                                  *)
Exit ==
    /\ main = "drain" /\ wg = {}
    /\ main' = "exited"
    /\ UNCHANGED <<ctxDone, wg, role, loop, fatalErr, failed, signalled>>

(* SIGINT or SIGTERM; until run returns, further ones have no effect.      *)
Signal ==
    /\ main # "exited" /\ ~signalled
    /\ signalled' = TRUE
    /\ ctxDone' = TRUE
    /\ UNCHANGED <<main, wg, role, loop, fatalErr, failed>>

-----------------------------------------------------------------------------
(* The goroutine of a role.                                                *)

RoleStep(r, from, to) == role[r] = from /\ role' = [role EXCEPT ![r] = to]

(* Mutant: the loop of a target is called, not started with `go'.          *)
StartLoopInline(r, l) ==
    /\ role[r] = "run" /\ loop[l] = "none"
    /\ \A k \in LoopsOf[r] : loop[k] \in {"none", "done"}
    /\ loop' = [loop EXCEPT ![l] = "select"]
    /\ UNCHANGED <<main, ctxDone, wg, role, fatalErr, failed, signalled>>

(* Run enters its loop, or starts the goroutine of a target.               *)
StartLoop(r, l) ==
    /\ role[r] = "run" /\ loop[l] = "none"
    /\ loop' = [loop EXCEPT ![l] = "select"]
    /\ UNCHANGED <<main, ctxDone, wg, role, fatalErr, failed, signalled>>

(* Mutant: Run does not wait for the goroutines it started.                *)
RunReturnsEarly(r) ==
    /\ r \in Monitors /\ \A l \in LoopsOf[r] : loop[l] # "none"
    /\ RoleStep(r, "run", "returned")
    /\ UNCHANGED <<main, ctxDone, wg, loop, fatalErr, failed, signalled>>

(* The Run of a monitoring role always returns nil.                        *)
RunReturns(r) ==
    /\ r \in Monitors /\ \A l \in LoopsOf[r] : loop[l] = "done"
    /\ RoleStep(r, "run", "returned")
    /\ UNCHANGED <<main, ctxDone, wg, loop, fatalErr, failed, signalled>>

(* Listen binds the address, or fails.                                     *)
Listen(r) ==
    /\ r \in Servers /\ RoleStep(r, "run", "serve")
    /\ UNCHANGED <<main, ctxDone, wg, loop, fatalErr, failed, signalled>>

ListenFails(r) ==
    /\ r \in Servers /\ RoleStep(r, "run", "failed")
    /\ failed' = failed \cup {r}
    /\ UNCHANGED <<main, ctxDone, wg, loop, fatalErr, signalled>>

(* Mutant: an error that is context.Canceled counts as a failure.          *)
ListenCancelledFails(r) ==
    /\ r \in Servers /\ ctxDone /\ RoleStep(r, "run", "failed")
    /\ UNCHANGED <<main, ctxDone, wg, loop, fatalErr, failed, signalled>>

(* Listen resolves a host name under the context, and a cancellation       *)
(* interrupts it.  From Go 1.23 on the error of the lookup wraps           *)
(* context.Canceled; before that it does not, and this is ListenFails.     *)
ListenCancelled(r) ==
    /\ r \in Servers /\ ctxDone /\ RoleStep(r, "run", "returned")
    /\ UNCHANGED <<main, ctxDone, wg, loop, fatalErr, failed, signalled>>

(* PongServer: after a cancellation its Run returns nil.                   *)
ServeReturns(r) ==
    /\ ctxDone /\ RoleStep(r, "serve", "returned")
    /\ UNCHANGED <<main, ctxDone, wg, loop, fatalErr, failed, signalled>>

(* The critical section of fatalMu.                                        *)
Record(r) ==
    /\ RoleStep(r, "failed", "cancel")
    /\ fatalErr' = IF fatalErr = NoError THEN r ELSE fatalErr
    /\ UNCHANGED <<main, ctxDone, wg, loop, failed, signalled>>

(* Mutant: a failed role does not cancel the others.                       *)
CancelOthersNot(r) ==
    /\ RoleStep(r, "cancel", "returned")
    /\ UNCHANGED <<main, ctxDone, wg, loop, fatalErr, failed, signalled>>

CancelOthers(r) ==
    /\ RoleStep(r, "cancel", "returned")
    /\ ctxDone' = TRUE
    /\ UNCHANGED <<main, wg, loop, fatalErr, failed, signalled>>

(* The deferred wg.Done.                                                   *)
Done(r) ==
    /\ RoleStep(r, "returned", "stopped")
    /\ wg' = wg \ {r}
    /\ UNCHANGED <<main, ctxDone, loop, fatalErr, failed, signalled>>

-----------------------------------------------------------------------------
(* A loop.  When both cases of its select are ready either is taken.       *)

LoopStep(l, from, to) ==
    /\ loop[l] = from
    /\ loop' = [loop EXCEPT ![l] = to]
    /\ UNCHANGED <<main, ctxDone, wg, role, fatalErr, failed, signalled>>

Tick(l) == LoopStep(l, "select", "check")

(* The check, or the summary, and the dispatch of its alert are over.      *)
EndCheck(l) == LoopStep(l, "check", "select")

Stop(l) == ctxDone /\ LoopStep(l, "select", "done")

-----------------------------------------------------------------------------
Main == (\E r \in Roles : StartRole(r)) \/ Started \/ Drain \/ Exit

Goroutine(r) ==
    \/ r \in Monitors /\ \E l \in LoopsOf[r] : StartLoop(r, l)
    \/ RunReturns(r) \/ Listen(r) \/ ListenFails(r) \/ ListenCancelled(r)
    \/ ServeReturns(r) \/ Record(r) \/ CancelOthers(r) \/ Done(r)

Finished == main = "exited" /\ UNCHANGED vars

Next ==
    \/ Main \/ Signal \/ Finished
    \/ \E r \in Roles : Goroutine(r)
    \/ \E l \in Loops : Tick(l) \/ EndCheck(l) \/ Stop(l)

(* Goroutines are scheduled and tickers tick.  A select with two ready     *)
(* cases chooses at random, so it does not pass over ctx.Done for ever.  A *)
(* check ends: by its timeouts (ProbesEnd, DispatchReturns) or, if it is   *)
(* unbounded, by the cancellation (AlertPath!UnitStops).                  *)
Fairness ==
    /\ WF_vars(Main)
    /\ \A r \in Roles : WF_vars(Goroutine(r))
    /\ \A l \in Loops :
          /\ WF_vars(Tick(l))
          /\ SF_vars(Stop(l))
          /\ WF_vars((ctxDone \/ l \notin Unbounded) /\ EndCheck(l))

Spec == Init /\ [][Next]_vars /\ Fairness

-----------------------------------------------------------------------------
\* Every variable has its type, and the WaitGroup counts the roles that were
\* started and have not stopped (main.go run).
TypeOK ==
    /\ main \in {"start", "wait", "drain", "exited"}
    /\ ctxDone \in BOOLEAN
    /\ role \in [Roles -> {"none", "run", "serve", "returned", "failed", "cancel",
                           "stopped"}]
    /\ wg = {r \in Roles : role[r] \notin {"none", "stopped"}}
    /\ loop \in [Loops -> {"none", "select", "check", "done"}]
    /\ fatalErr \in Roles \cup {NoError}
    /\ failed \subseteq Roles
    /\ signalled \in BOOLEAN

\* When run returns, every role has stopped and none of its loops is left: the
\* end of the process cuts off no check, no Dispatch and no summary of a loop
\* (main.go run, the Run of the monitors).  The mail senders that Notify
\* abandoned and the handlers of the pong server are not waited for.
NoRoleLeft ==
    main = "exited" => /\ \A r \in Roles : role[r] = "stopped"
                       /\ \A l \in Loops : loop[l] = "done"

\* The exit status tells whether a role failed: run returns an error if and
\* only if one did, whatever signal came before, meanwhile or after; a server
\* whose Listen returned context.Canceled did not fail (main.go run).
ExitTellsFailure ==
    main = "exited" => \/ fatalErr = NoError /\ failed = {}
                       \/ fatalErr \in failed

\* A signal ends the daemon, and so does a role that fails, also while other
\* roles are still being started, even if a speed test hangs or an SMTP server
\* does not answer (main.go run: "cancel so the daemon fails fast";
\* speed_check.go execRunner, email.go Notify).
DaemonStops == signalled \/ failed # {} ~> main = "exited"

\* While the daemon runs, every loop whose checks are bounded goes on
\* checking, whatever happens to the checks of others: a speed test that hangs
\* holds up no ping monitor, nor one target another (ping_monitor.go Run,
\* url_monitor.go Run: a goroutine per target).
KeepsChecking ==
    \A l \in Loops \ Unbounded : <>ctxDone \/ []<>(loop[l] = "check")

=============================================================================
