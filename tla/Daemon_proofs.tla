---------------------------- MODULE Daemon_proofs ---------------------------
(***************************************************************************)
(* Proofs of the safety properties of Daemon, for any roles and loops.     *)
(***************************************************************************)
EXTENDS Daemon, TLAPS

(* A monitoring role that has left "run" has no loop left; main has begun  *)
(* to wait only once every role was started; and what a role's goroutine   *)
(* has still to do tells whether its failure is recorded already.          *)
Inv ==
    /\ TypeOK
    /\ main # "start" => \A r \in Roles : role[r] # "none"
    /\ main = "exited" => \A r \in Roles : role[r] = "stopped"
    /\ \A r \in Monitors : role[r] \in {"none", "run", "returned", "stopped"}
    /\ \A r \in Monitors : role[r] \in {"returned", "stopped"} =>
          \A l \in LoopsOf[r] : loop[l] = "done"
    /\ \A r \in Roles : role[r] = "failed" => r \in failed
    /\ \A r \in failed : role[r] # "failed" => fatalErr # NoError
    /\ fatalErr # NoError => fatalErr \in failed

-----------------------------------------------------------------------------
(* The initial states satisfy the invariant: nothing was started.          *)
LEMMA InitInv == Init => Inv
  BY DaemonAssumption DEF Init, Inv, TypeOK, Roles, Loops

(* A step of main keeps the invariant; Exit needs that the WaitGroup       *)
(* counts every role that was started and has not stopped.                 *)
LEMMA MainInv == Inv /\ Main => Inv'
<1> SUFFICES ASSUME Inv, Main PROVE Inv'
  OBVIOUS
<1>1. CASE \E r \in Roles : StartRole(r)
  BY <1>1, DaemonAssumption DEF Inv, TypeOK, StartRole, Roles
<1>2. CASE Started
  BY <1>2 DEF Inv, TypeOK, Started
<1>3. CASE Drain
  BY <1>3 DEF Inv, TypeOK, Drain
<1>4. CASE Exit
  BY <1>4 DEF Inv, TypeOK, Exit
<1> QED
  BY <1>1, <1>2, <1>3, <1>4 DEF Main

(* A step of a role's goroutine keeps the invariant.                       *)
LEMMA GoroutineInv == ASSUME NEW r \in Roles, Inv, Goroutine(r) PROVE Inv'
<1> USE DaemonAssumption DEF Inv, TypeOK
<1>1. CASE r \in Monitors /\ \E l \in LoopsOf[r] : StartLoop(r, l)
  BY <1>1 DEF StartLoop
<1>2. CASE RunReturns(r)
  BY <1>2 DEF RunReturns, RoleStep, Roles
<1>3. CASE Listen(r) \/ ListenCancelled(r) \/ ServeReturns(r)
  BY <1>3 DEF Listen, ListenCancelled, ServeReturns, RoleStep, Roles
<1>4. CASE ListenFails(r)
  BY <1>4 DEF ListenFails, RoleStep, Roles
<1>5. CASE Record(r)
  BY <1>5 DEF Record, RoleStep, Roles
<1>6. CASE CancelOthers(r)
  BY <1>6 DEF CancelOthers, RoleStep, Roles
<1>7. CASE Done(r)
  BY <1>7 DEF Done, RoleStep, Roles
<1> QED
  BY <1>1, <1>2, <1>3, <1>4, <1>5, <1>6, <1>7 DEF Goroutine

(* A step of a loop keeps the invariant: a loop that is done stays done.   *)
LEMMA LoopInv == ASSUME NEW l \in Loops, Inv, Tick(l) \/ EndCheck(l) \/ Stop(l)
                 PROVE  Inv'
  BY DaemonAssumption DEF Inv, TypeOK, Tick, EndCheck, Stop, LoopStep

LEMMA NextInv == Inv /\ [Next]_vars => Inv'
<1> SUFFICES ASSUME Inv, [Next]_vars PROVE Inv'
  OBVIOUS
<1>1. CASE Signal
  BY <1>1 DEF Signal, Inv, TypeOK
<1>2. CASE UNCHANGED vars
  BY <1>2 DEF vars, Inv, TypeOK
<1> QED
  BY <1>1, <1>2, MainInv, GoroutineInv, LoopInv DEF Next, Finished

-----------------------------------------------------------------------------
\* The invariant holds throughout, for any roles and any number of loops.
THEOREM Invariance == Spec => []Inv
<1>1. Init => Inv
  BY InitInv
<1>2. Inv /\ [Next]_vars => Inv'
  BY NextInv
<1> QED
  BY <1>1, <1>2, PTL DEF Spec

\* Type correctness, with it that the WaitGroup counts exactly the roles that
\* run (main.go run: wg.Add before `go', wg.Done deferred).
THEOREM TypeCorrect == Spec => []TypeOK
<1>1. Inv => TypeOK
  BY DEF Inv
<1> QED
  BY <1>1, Invariance, PTL

\* run returns only when every role has stopped and no loop is left, however
\* many targets the monitors have (main.go run, ping_monitor.go Run,
\* url_monitor.go Run).
THEOREM DrainsCompletely == Spec => []NoRoleLeft
<1>1. Inv => NoRoleLeft
  <2> SUFFICES ASSUME Inv, main = "exited" PROVE NoRoleLeft
    BY DEF NoRoleLeft
  <2>1. \A r \in Roles : role[r] = "stopped"
    BY DEF Inv
  <2>2. \A l \in Loops : \E r \in Monitors : l \in LoopsOf[r]
    BY DEF Loops
  <2>3. \A l \in Loops : loop[l] = "done"
    BY <2>1, <2>2 DEF Inv, Roles
  <2> QED
    BY <2>1, <2>3 DEF NoRoleLeft
<1> QED
  BY <1>1, Invariance, PTL

\* run returns an error if and only if a role failed, in every race of the
\* failure with signals and with the start of other roles (main.go run).
THEOREM ExitStatusRight == Spec => []ExitTellsFailure
<1>1. Inv => ExitTellsFailure
  BY DEF Inv, TypeOK, ExitTellsFailure
<1> QED
  BY <1>1, Invariance, PTL

=============================================================================
