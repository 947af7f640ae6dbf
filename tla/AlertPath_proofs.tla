-------------------------- MODULE AlertPath_proofs --------------------------
(***************************************************************************)
(* Proofs about Dispatcher, for every list of channels, number of attempts *)
(* and number of alerts, and then about AlertPath, for every configuration *)
(* of the unit and of its channels.  What is shown of Dispatch carries     *)
(* over: the unit's loop calls it the way Dispatcher assumes.              *)
(***************************************************************************)
EXTENDS AlertPath, FiniteSetTheorems, WellFoundedInduction, TLAPS

(* The places of a goroutine, and those where it runs.                     *)
Places == {"none", "check", "call", "notify", "backoff", "done"}
Running == {"check", "call", "notify", "backoff"}

(* The goroutines that run when they are at f.                             *)
LiveSet(f) == {i \in Positions : f[i] \in Running}

-----------------------------------------------------------------------------
(* The WaitGroup counts the goroutines that run.                           *)
Counted == wg = Cardinality(LiveSet(pc))

(* The range loop has started the known channels below next and no other;  *)
(* a goroutine runs only within a Dispatch.                                *)
Started ==
    /\ caller = "dispatch" => alert > 0
    /\ caller = "idle" /\ alert > 0 => next = Len(channelNames) + 1
    /\ \A i \in Positions : pc[i] \in Running => i \in Known /\ caller = "dispatch"
    /\ \A i \in Positions : caller = "dispatch" /\ i >= next => pc[i] = "none"
    /\ \A i \in Known : alert > 0 /\ i < next => pc[i] # "none"

(* What a goroutine has achieved.                                          *)
Achieved ==
    \A i \in Positions :
        /\ acked[i] => pc[i] = "done"
        /\ pc[i] = "done" /\ ~ctxDone => acked[i] \/ attempt[i] = maxAttempts
        /\ pc[i] \in Running => attempt[i] >= 1
        /\ pc[i] = "backoff" => attempt[i] < maxAttempts

(* A goroutine that is about to call has not called since the cancellation. *)
Calls ==
    \A i \in Positions :
        /\ ~ctxDone \/ pc[i] = "call" => late[i] = 0
        /\ late[i] <= 1

(* Until the cancellation a sender belongs to the Notify under way, and    *)
(* has ended when its result is there.                                     *)
Sending ==
    ~ctxDone => \A s \in senders :
        /\ pc[s[1]] = "notify" /\ Kind(s[1]) = "email"
        /\ s = <<s[1], alert, attempt[s[1]]>>
        /\ reply[s[1]] = "none"

Inv == TypeOK /\ Counted /\ Started /\ Achieved /\ Calls /\ Sending

-----------------------------------------------------------------------------
(* The positions are those of the list.                                    *)
LEMMA PositionsInterval == Positions = 1..Len(channelNames) /\ Len(channelNames) \in Nat
  BY DispatcherAssumption DEF Positions

(* A set of positions is finite and not larger than the list.              *)
LEMMA Bounded ==
    ASSUME NEW f
    PROVE  /\ IsFiniteSet(LiveSet(f))
           /\ Cardinality(LiveSet(f)) \in 0..Len(channelNames)
  <1>1. IsFiniteSet(Positions) /\ Cardinality(Positions) = Len(channelNames)
    <2>1. /\ IsFiniteSet(1..Len(channelNames))
          /\ Cardinality(1..Len(channelNames)) =
                IF 1 > Len(channelNames) THEN 0 ELSE Len(channelNames) - 1 + 1
      BY PositionsInterval, FS_Interval
    <2> QED BY <2>1, PositionsInterval
  <1>2. LiveSet(f) \subseteq Positions
    BY DEF LiveSet
  <1>3. /\ IsFiniteSet(LiveSet(f)) /\ Cardinality(LiveSet(f)) \in Nat
        /\ Cardinality(LiveSet(f)) <= Cardinality(Positions)
    BY <1>1, <1>2, FS_Subset, FS_CardinalityType
  <1> QED BY <1>1, <1>3, PositionsInterval

(* Starting a goroutine adds one to the set.                               *)
LEMMA LiveAdd ==
    ASSUME NEW f \in [Positions -> Places], NEW i \in Positions, NEW v \in Running,
           f[i] \notin Running
    PROVE  Cardinality(LiveSet([f EXCEPT ![i] = v])) = Cardinality(LiveSet(f)) + 1
  <1>1. LiveSet([f EXCEPT ![i] = v]) = LiveSet(f) \cup {i} /\ i \notin LiveSet(f)
    BY DEF LiveSet, Places, Running
  <1> QED BY <1>1, Bounded, FS_AddElement

(* Its end removes one.                                                    *)
LEMMA LiveDrop ==
    ASSUME NEW f \in [Positions -> Places], NEW i \in Positions, f[i] \in Running
    PROVE  Cardinality(LiveSet([f EXCEPT ![i] = "done"])) = Cardinality(LiveSet(f)) - 1
  <1>1. LiveSet([f EXCEPT ![i] = "done"]) = LiveSet(f) \ {i} /\ i \in LiveSet(f)
    BY DEF LiveSet, Places, Running
  <1> QED BY <1>1, Bounded, FS_RemoveElement

(* In between the set does not change.                                     *)
LEMMA LiveKeep ==
    ASSUME NEW f \in [Positions -> Places], NEW i \in Positions, NEW v \in Running,
           f[i] \in Running
    PROVE  LiveSet([f EXCEPT ![i] = v]) = LiveSet(f)
  BY DEF LiveSet, Places, Running

(* Without goroutines the count is 0, and the other way round.             *)
LEMMA LiveNone ==
    ASSUME NEW f
    PROVE  (Cardinality(LiveSet(f)) = 0) <=> (\A i \in Positions : f[i] \notin Running)
  <1>1. (Cardinality(LiveSet(f)) = 0) <=> (LiveSet(f) = {})
    BY Bounded, FS_EmptySet
  <1> QED BY <1>1 DEF LiveSet

-----------------------------------------------------------------------------
(* The invariant holds initially.                                          *)
LEMMA InitInv == Init => Inv
  <1> SUFFICES ASSUME Init PROVE Inv
    OBVIOUS
  <1>1. TypeOK
    <2>1. /\ alert \in 0..MaxAlerts
          /\ next \in 1..(Len(channelNames) + 1) /\ wg \in 0..Len(channelNames)
      BY PositionsInterval, DispatcherAssumption DEF Init
    <2>2. 0 \in 0..maxAttempts /\ 0 \in Nat
      BY DispatcherAssumption
    <2>3. ctxDone \in BOOLEAN /\ acked \in [Positions -> BOOLEAN]
      BY DEF Init
    <2> QED BY <2>1, <2>2, <2>3 DEF Init, TypeOK
  <1>2. Counted
    BY LiveNone DEF Init, Counted, Running
  <1>3. Started /\ Achieved /\ Calls /\ Sending
    BY PositionsInterval DEF Init, Started, Achieved, Calls, Sending, Running, Known
  <1> QED BY <1>1, <1>2, <1>3 DEF Inv

(* Raise finds no goroutine left of the alert before, nor, unless the      *)
(* context is cancelled, a sender.                                         *)
LEMMA RaiseInv == Inv /\ Raise => Inv'
  <1> SUFFICES ASSUME Inv, Raise PROVE Inv'
    OBVIOUS
  <1> USE DEF Inv
  <1>1. TypeOK'
    <2>1. alert' \in 0..MaxAlerts /\ next' \in 1..(Len(channelNames) + 1)
      BY PositionsInterval, DispatcherAssumption DEF TypeOK, Raise
    <2>2. 0 \in 0..maxAttempts /\ 0 \in Nat
      BY DispatcherAssumption
    <2>3. acked' \in [Positions -> BOOLEAN]
      BY DEF Raise
    <2> QED BY <2>1, <2>2, <2>3 DEF TypeOK, Raise
  <1>2. \A i \in Positions : pc[i] \notin Running /\ pc'[i] \notin Running
    BY DEF Started, Raise, Running
  <1>3. Counted'
    BY <1>2, LiveNone DEF Counted, Raise
  <1>4. Started'
    BY PositionsInterval, DispatcherAssumption DEF Started, Raise, TypeOK, Running, Known
  <1>5. Achieved' /\ Calls'
    BY DEF Achieved, Calls, Raise, Running
  <1>6. Sending'
    <2>1. ~ctxDone => senders = {}
      BY <1>2, PositionsInterval DEF Sending, TypeOK, Running
    <2> QED BY <2>1 DEF Sending, Raise
  <1> QED BY <1>1, <1>3, <1>4, <1>5, <1>6

(* Spawn counts the goroutine it starts, whose position had none.          *)
LEMMA SpawnInv == Inv /\ Spawn => Inv'
  <1> SUFFICES ASSUME Inv, Spawn PROVE Inv'
    OBVIOUS
  <1> USE DEF Inv
  <1>0. next \in Positions /\ pc[next] = "none" /\ pc \in [Positions -> Places]
    BY PositionsInterval DEF Spawn, TypeOK, Started, Places
  <1>1. Counted'
    <2>1. CASE next \in Known
      BY <2>1, <1>0, LiveAdd DEF Counted, Spawn, Running
    <2>2. CASE next \notin Known
      BY <2>2 DEF Counted, Spawn
    <2> QED BY <2>1, <2>2
  <1>2. TypeOK'
    <2>1. wg' \in 0..Len(channelNames)
      BY <1>1, Bounded DEF Counted
    <2>2. next' \in 1..(Len(channelNames) + 1) /\ 1 \in 0..maxAttempts
      BY PositionsInterval, DispatcherAssumption DEF TypeOK, Spawn
    <2>3. pc' \in [Positions -> Places] /\ attempt' \in [Positions -> 0..maxAttempts]
      BY <1>0, <2>2 DEF TypeOK, Spawn, Places
    <2> QED BY <2>1, <2>2, <2>3 DEF TypeOK, Spawn, Places
  <1>3. Started'
    BY <1>0, PositionsInterval DEF Started, Spawn, TypeOK, Running, Known
  <1>4. Achieved' /\ Calls'
    <2>1. maxAttempts \in Nat \ {0}
      BY DispatcherAssumption
    <2>2. Achieved'
      BY <1>0, <2>1 DEF Achieved, Spawn, TypeOK, Running
    <2>3. Calls'
      BY <1>0 DEF Calls, Spawn, TypeOK
    <2> QED BY <2>2, <2>3
  <1>5. Sending'
    BY <1>0 DEF Sending, Spawn, TypeOK
  <1> QED BY <1>1, <1>2, <1>3, <1>4, <1>5

(* Return leaves no goroutine behind, since the WaitGroup counts them all. *)
LEMMA ReturnInv == Inv /\ Return => Inv'
  <1> SUFFICES ASSUME Inv, Return PROVE Inv'
    OBVIOUS
  <1> USE DEF Inv
  <1>1. \A i \in Positions : pc[i] \notin Running
    BY LiveNone DEF Return, Counted
  <1>2. TypeOK' /\ Counted'
    BY DEF TypeOK, Counted, Return, goVars
  <1>3. Started'
    BY <1>1, PositionsInterval DEF Started, Return, goVars, TypeOK
  <1>4. Achieved' /\ Calls' /\ Sending'
    BY DEF Achieved, Calls, Sending, Return, goVars
  <1> QED BY <1>2, <1>3, <1>4

(* What is promised until the cancellation is all a Cancel gives up.       *)
LEMMA CancelInv == Inv /\ Cancel => Inv'
  BY DEF Inv, TypeOK, Counted, Started, Achieved, Calls, Sending, Cancel, goVars

-----------------------------------------------------------------------------
(* A goroutine moves within deliver, or returns from it.                   *)
Moves(i) ==
    /\ \/ pc' = [pc EXCEPT ![i] = "done"] /\ wg' = wg - 1
       \/ \E v \in Running : pc' = [pc EXCEPT ![i] = v] /\ wg' = wg
    /\ UNCHANGED <<ctxDone, alert, caller, next>>

(* The WaitGroup and the range loop are right after such a move.           *)
LEMMA MovesInv ==
    ASSUME Inv, NEW i \in Known, pc[i] \in Running, Moves(i)
    PROVE  /\ Counted' /\ Started'
           /\ ctxDone' \in BOOLEAN /\ alert' \in 0..MaxAlerts
           /\ caller' \in {"idle", "dispatch"}
           /\ next' \in 1..(Len(channelNames) + 1)
           /\ wg' \in 0..Len(channelNames) /\ pc' \in [Positions -> Places]
           /\ i \in Positions
  <1>0. i \in Positions /\ pc \in [Positions -> Places]
    BY DEF Known, Inv, TypeOK, Places
  <1>1. pc' \in [Positions -> Places]
    BY <1>0 DEF Moves, Places, Running
  <1>2. Counted'
    <2>1. CASE pc' = [pc EXCEPT ![i] = "done"] /\ wg' = wg - 1
      BY <2>1, <1>0, LiveDrop DEF Counted, Inv
    <2>2. ASSUME NEW v \in Running, pc' = [pc EXCEPT ![i] = v], wg' = wg
          PROVE  Counted'
      BY <2>2, <1>0, LiveKeep DEF Counted, Inv
    <2> QED BY <2>1, <2>2 DEF Moves
  <1>3. wg' \in 0..Len(channelNames)
    BY <1>2, Bounded DEF Counted
  <1>4. Started'
    BY <1>0, PositionsInterval, SMTT(30) DEF Inv, Started, Moves, Running, TypeOK, Known
  <1> QED BY <1>0, <1>1, <1>2, <1>3, <1>4 DEF Moves, Inv, TypeOK

(* Check lets a goroutine go on only while nothing is cancelled.           *)
LEMMA CheckInv == ASSUME Inv, NEW i \in Known, Check(i) PROVE Inv'
  <1>1. Moves(i) /\ pc[i] \in Running
    BY DEF Check, Finish, Moves, Running
  <1>2. i \in Positions /\ pc \in [Positions -> Places]
    BY DEF Known, Inv, TypeOK, Places
  <1>3. TypeOK'
    BY <1>1, MovesInv DEF Inv, TypeOK, Check, Places
  <1>4. Achieved'
    BY <1>2 DEF Inv, Achieved, Check, Finish, Running, Places
  <1>5. Calls'
    BY <1>2 DEF Inv, Calls, Check, Finish, Places
  <1>6. Sending'
    BY <1>2 DEF Inv, TypeOK, Sending, Check, Finish, Places
  <1> QED BY <1>1, <1>3, <1>4, <1>5, <1>6, MovesInv DEF Inv

(* Call starts at most one sender, and none was left of the last attempt.  *)
LEMMA CallInv == ASSUME Inv, NEW i \in Known, Call(i) PROVE Inv'
  <1>1. Moves(i) /\ pc[i] \in Running
    BY DEF Call, Moves, Running
  <1>2. i \in Positions /\ pc \in [Positions -> Places]
    BY DEF Known, Inv, TypeOK, Places
  <1>3. alert \in 1..MaxAlerts /\ attempt[i] \in 1..maxAttempts
    BY <1>1, <1>2, DispatcherAssumption DEF Inv, TypeOK, Started, Achieved
  <1>4. TypeOK'
    <2>1. late' \in [Positions -> Nat]
      <3>1. late \in [Positions -> Nat] /\ late[i] + 1 \in Nat
        BY <1>2 DEF Inv, TypeOK
      <3>2. late' = [late EXCEPT ![i] = late[i] + 1] \/ late' = late
        BY <3>1, <1>2 DEF Call
      <3> QED BY <3>1, <3>2
    <2>2. reply' \in [Positions -> {"none", "nil", "err"}]
      BY <1>2 DEF Inv, TypeOK, Call
    <2>3. senders' \subseteq (Positions \X (1..MaxAlerts) \X (1..maxAttempts))
      <3>1. senders' \subseteq senders \cup {<<i, alert, attempt[i]>>}
        BY DEF Call
      <3>2. <<i, alert, attempt[i]>> \in Positions \X (1..MaxAlerts) \X (1..maxAttempts)
        BY <1>2, <1>3
      <3> QED BY <3>1, <3>2 DEF Inv, TypeOK
    <2>4. UNCHANGED <<attempt, acked>>
      BY DEF Call
    <2> QED BY <1>1, <2>1, <2>2, <2>3, <2>4, MovesInv DEF Inv, TypeOK, Places
  <1>5. Achieved'
    BY <1>2 DEF Inv, Achieved, Call, Running, Places
  <1>6. Calls'
    BY <1>2 DEF Inv, TypeOK, Calls, Call, Places
  <1>7. Sending'
    <2> SUFFICES ASSUME ~ctxDone, NEW s \in senders'
                 PROVE  /\ pc'[s[1]] = "notify" /\ Kind(s[1]) = "email"
                        /\ s = <<s[1], alert, attempt[s[1]]>>
                        /\ reply'[s[1]] = "none"
      BY DEF Call, Sending
    <2>1. CASE s \in senders
      <3>1. s[1] \in Positions /\ s[1] # i
        BY <2>1 DEF Inv, TypeOK, Sending, Call
      <3> QED BY <2>1, <3>1, <1>2 DEF Inv, TypeOK, Sending, Call
    <2>2. CASE s \notin senders
      BY <2>2, <1>2 DEF Inv, TypeOK, Call
    <2> QED BY <2>1, <2>2
  <1> QED BY <1>1, <1>4, <1>5, <1>6, <1>7, MovesInv DEF Inv

(* What deliver does with a result, when the sender of the call has ended  *)
(* or the context is cancelled.                                            *)
LEMMA NotifiedInv ==
    ASSUME Inv, NEW i \in Known, NEW ok \in BOOLEAN, pc[i] = "notify", Notified(i, ok),
           UNCHANGED <<ctxDone, alert, caller, next, attempt, reply, senders, late>>,
           ~ctxDone => \A s \in senders : s[1] # i
    PROVE  Inv'
  <1>1. Moves(i) /\ pc[i] \in Running
    BY DEF Notified, Finish, Moves, Running
  <1>2. i \in Positions /\ pc \in [Positions -> Places]
    BY DEF Known, Inv, TypeOK, Places
  <1>3. acked' \in [Positions -> BOOLEAN]
    BY <1>2 DEF Inv, TypeOK, Notified
  <1>4. TypeOK'
    BY <1>1, <1>3, MovesInv DEF Inv, TypeOK, Places
  <1>5. Achieved'
    <2> SUFFICES ASSUME NEW j \in Positions
                 PROVE  /\ acked'[j] => pc'[j] = "done"
                        /\ pc'[j] = "done" /\ ~ctxDone' =>
                              acked'[j] \/ attempt'[j] = maxAttempts
                        /\ pc'[j] \in Running => attempt'[j] >= 1
                        /\ pc'[j] = "backoff" => attempt'[j] < maxAttempts
      BY DEF Achieved
    <2>1. CASE j # i
      BY <2>1, <1>2 DEF Inv, TypeOK, Achieved, Notified, Finish, Running, Places
    <2>2. CASE j = i
      <3>1. attempt[i] \in 1..maxAttempts
        BY <1>1, <1>2, DispatcherAssumption DEF Inv, TypeOK, Achieved
      <3>2. acked'[i] = ok
        BY <1>2 DEF Notified, Inv, TypeOK
      <3>3. \/ (ok \/ attempt[i] = maxAttempts) /\ pc'[i] = "done"
            \/ ~ok /\ attempt[i] # maxAttempts /\ pc'[i] = "backoff"
        BY <1>2 DEF Notified, Finish
      <3>4. attempt[i] # maxAttempts => attempt[i] < maxAttempts
        BY <3>1, DispatcherAssumption
      <3> QED BY <2>2, <3>1, <3>2, <3>3, <3>4 DEF Running
    <2> QED BY <2>1, <2>2
  <1>6. Calls'
    BY <1>2 DEF Inv, Calls, Notified, Finish, Places
  <1>7. Sending'
    BY <1>2 DEF Inv, TypeOK, Sending, Notified, Finish, Places
  <1> QED BY <1>1, <1>4, <1>5, <1>6, <1>7, MovesInv DEF Inv

(* The console has no sender.                                              *)
LEMMA ConsoleNotifyInv == ASSUME Inv, NEW i \in Known, ConsoleNotify(i) PROVE Inv'
  <1>1. ~ctxDone => \A s \in senders : s[1] # i
    BY DEF Inv, Sending, ConsoleNotify
  <1> QED BY <1>1, NotifiedInv DEF ConsoleNotify

(* Nor has an HTTP channel.                                                *)
LEMMA HTTPNotifyInv == ASSUME Inv, NEW i \in Known, HTTPNotify(i) PROVE Inv'
  <1>1. ~ctxDone => \A s \in senders : s[1] # i
    BY DEF Inv, Sending, HTTPNotify
  <1>2. PICK ok \in BOOLEAN : Notified(i, ok)
    BY DEF HTTPNotify
  <1> QED BY <1>1, <1>2, NotifiedInv DEF HTTPNotify

(* A result is read only when its sender has ended.                        *)
LEMMA EmailResultInv == ASSUME Inv, NEW i \in Known, EmailResult(i) PROVE Inv'
  <1>1. ~ctxDone => \A s \in senders : s[1] # i
    BY DEF Inv, Sending, EmailResult
  <1>2. (reply[i] = "nil") \in BOOLEAN
    OBVIOUS
  <1> QED BY <1>1, <1>2, NotifiedInv DEF EmailResult

(* A sender is abandoned only after the cancellation.                      *)
LEMMA EmailCancelledInv == ASSUME Inv, NEW i \in Known, EmailCancelled(i) PROVE Inv'
  <1>1. ~ctxDone => \A s \in senders : s[1] # i
    BY DEF EmailCancelled
  <1> QED BY <1>1, NotifiedInv DEF EmailCancelled

(* The timer leads to an attempt that is still allowed.                    *)
LEMMA TimerFiresInv == ASSUME Inv, NEW i \in Known, TimerFires(i) PROVE Inv'
  <1>1. Moves(i) /\ pc[i] \in Running
    BY DEF TimerFires, Moves, Running
  <1>2. i \in Positions /\ pc \in [Positions -> Places]
    BY DEF Known, Inv, TypeOK, Places
  <1>3. attempt[i] + 1 \in 1..maxAttempts
    BY <1>2, DispatcherAssumption DEF Inv, TypeOK, Achieved, TimerFires
  <1>4. TypeOK'
    <2>1. attempt' \in [Positions -> 0..maxAttempts]
      BY <1>2, <1>3, DispatcherAssumption DEF Inv, TypeOK, TimerFires
    <2>2. UNCHANGED <<acked, reply, senders, late>>
      BY DEF TimerFires
    <2> QED BY <1>1, <2>1, <2>2, MovesInv DEF Inv, TypeOK, Places
  <1>5. Achieved'
    BY <1>2, <1>3 DEF Inv, TypeOK, Achieved, TimerFires, Running, Places
  <1>6. Calls'
    BY <1>2 DEF Inv, Calls, TimerFires, Places
  <1>7. Sending'
    BY <1>2 DEF Inv, TypeOK, Sending, TimerFires, Places
  <1> QED BY <1>1, <1>4, <1>5, <1>6, <1>7, MovesInv DEF Inv

(* A backoff is cut short only after the cancellation.                     *)
LEMMA BackoffCancelledInv == ASSUME Inv, NEW i \in Known, BackoffCancelled(i) PROVE Inv'
  <1>1. Moves(i) /\ pc[i] \in Running
    BY DEF BackoffCancelled, Finish, Moves, Running
  <1>2. i \in Positions /\ pc \in [Positions -> Places]
    BY DEF Known, Inv, TypeOK, Places
  <1>3. TypeOK'
    BY <1>1, MovesInv DEF Inv, TypeOK, BackoffCancelled, Places
  <1>4. Achieved' /\ Calls' /\ Sending'
    BY <1>2 DEF Inv, Achieved, Calls, Sending, BackoffCancelled, Finish, Running, Places
  <1> QED BY <1>1, <1>3, <1>4, MovesInv DEF Inv

(* A sender that ends is the only one of its position, and takes itself    *)
(* out of the set as it leaves its result.                                 *)
LEMMA EmailSendInv == ASSUME Inv, NEW s \in senders, EmailSend(s) PROVE Inv'
  <1>1. s[1] \in Positions
    BY DEF Inv, TypeOK
  <1>2. reply' \in [Positions -> {"none", "nil", "err"}]
    BY <1>1 DEF Inv, TypeOK, EmailSend
  <1>3. TypeOK' /\ Counted'
    BY <1>2 DEF Inv, TypeOK, Counted, EmailSend
  <1>4. Started' /\ Achieved' /\ Calls'
    BY DEF Inv, Started, Achieved, Calls, EmailSend
  <1>5. Sending'
    <2> SUFFICES ASSUME ~ctxDone, NEW t \in senders'
                 PROVE  /\ pc[t[1]] = "notify" /\ Kind(t[1]) = "email"
                        /\ t = <<t[1], alert, attempt[t[1]]>>
                        /\ reply'[t[1]] = "none"
      BY DEF EmailSend, Sending
    <2>1. t \in senders /\ t # s
      BY DEF EmailSend
    <2>2. t[1] \in Positions /\ t[1] # s[1]
      BY <2>1 DEF Inv, TypeOK, Sending
    <2>3. reply'[t[1]] = reply[t[1]]
      BY <2>2, <1>1 DEF Inv, TypeOK, EmailSend
    <2> QED BY <2>1, <2>3 DEF Inv, Sending
  <1> QED BY <1>3, <1>4, <1>5 DEF Inv

-----------------------------------------------------------------------------
(* Every step keeps the invariant.                                         *)
LEMMA StepInv == Inv /\ [Next]_vars => Inv'
  <1> SUFFICES ASSUME Inv, [Next]_vars PROVE Inv'
    OBVIOUS
  <1>1. CASE Raise \/ Spawn \/ Return \/ Cancel
    BY <1>1, RaiseInv, SpawnInv, ReturnInv, CancelInv
  <1>2. ASSUME NEW i \in Known, Step(i) PROVE Inv'
    BY <1>2, CheckInv, CallInv, ConsoleNotifyInv, HTTPNotifyInv, EmailResultInv,
       EmailCancelledInv, TimerFiresInv, BackoffCancelledInv DEF Step
  <1>3. ASSUME NEW s \in senders, EmailSend(s) PROVE Inv'
    BY <1>3, EmailSendInv
  <1>4. CASE Quiet \/ UNCHANGED vars
    BY <1>4 DEF Quiet, vars, Inv, TypeOK, Counted, Started, Achieved, Calls, Sending
  <1> QED BY <1>1, <1>2, <1>3, <1>4 DEF Next

(* Every behaviour keeps the invariant.                                    *)
THEOREM Invariance == Spec => []Inv
  BY InitInv, StepInv, PTL DEF Spec

(* The invariant excludes that an alert is lost in silence.                *)
LEMMA LossNever == Inv => NoSilentLoss
  <1> SUFFICES ASSUME Inv, caller = "idle", alert > 0, ~ctxDone, NEW i \in Known
               PROVE  acked[i] \/ attempt[i] = maxAttempts
    BY DEF NoSilentLoss
  <1>1. i \in Positions /\ i < next
    BY PositionsInterval DEF Known, Inv, Started, TypeOK
  <1>2. pc[i] = "done"
    BY <1>1 DEF Inv, TypeOK, Started, Running
  <1> QED BY <1>1, <1>2 DEF Inv, Achieved

(* Every variable has its type; in particular the WaitGroup of Dispatch is *)
(* never driven below zero.                                                *)
THEOREM TypeCorrect == Spec => []TypeOK
  <1>1. Inv => TypeOK
    BY DEF Inv
  <1> QED BY <1>1, Invariance, PTL

(* Dispatch returns only when all its goroutines have finished.            *)
THEOREM ReturnsComplete == Spec => []ReturnMeansFinished
  <1>1. Inv => ReturnMeansFinished
    <2> SUFFICES ASSUME Inv, caller = "idle", NEW i \in Positions, Live(i) PROVE FALSE
      BY DEF ReturnMeansFinished
    <2>1. pc[i] \in Running
      BY DEF Inv, TypeOK, Live, Running
    <2> QED BY <2>1 DEF Inv, Started
  <1> QED BY <1>1, Invariance, PTL

(* Unless it is cancelled, Dispatch gives up no known channel before it    *)
(* confirmed or was called maxAttempts times.                              *)
THEOREM NothingLostSilently == Spec => []NoSilentLoss
  BY LossNever, Invariance, PTL

(* A channel that confirmed an alert is not called for it again.           *)
THEOREM ConfirmedOnce == Spec => []AckIsFinal
  <1>1. Inv => AckIsFinal
    BY DEF Inv, Achieved, AckIsFinal, Known
  <1> QED BY <1>1, Invariance, PTL

(* A goroutine calls its channel at most once after the cancellation.      *)
THEOREM CancellationRespected == Spec => []OneCallAfterCancel
  <1>1. Inv => OneCallAfterCancel
    BY DEF Inv, Calls, OneCallAfterCancel, Known
  <1> QED BY <1>1, Invariance, PTL

(* Until the cancellation no sender outlives the Notify that started it.   *)
THEOREM SendersAwaited == Spec => []NoSenderLeftBehind
  <1>1. Inv => NoSenderLeftBehind
    BY DEF Inv, Sending, NoSenderLeftBehind
  <1> QED BY <1>1, Invariance, PTL

-----------------------------------------------------------------------------
(* The pauses.                                                             *)

(* A set of numbers that is not empty has a least one: the induction that  *)
(* the lemmas about powers of two need.                                    *)
LEMMA Least ==
    ASSUME NEW T, T \subseteq Nat, T # {}
    PROVE  \E x \in T : \A y \in T : x <= y
  <1> DEFINE Lt == {ss \in Nat \X Nat : ss[1] < ss[2]}
  <1>1. IsWellFoundedOn(Lt, Nat)
    BY NatLessThanWellFounded, Zenon DEF OpToRel
  <1>2. \A x, y \in Nat : <<y, x>> \in Lt <=> y < x
    OBVIOUS
  <1> HIDE DEF Lt
  <1>3. PICK x \in T : \A y \in T : ~(<<y, x>> \in Lt)
    BY <1>1, WFMin
  <1>4. x \in Nat /\ \A y \in T : y \in Nat /\ ~(y < x)
    BY <1>2, <1>3
  <1> QED BY <1>4

(* What holds of 0 and passes on from n to n + 1 holds of all of 0..m.     *)
LEMMA UpTo ==
    ASSUME NEW m \in Nat, NEW S, 0 \in S,
           \A n \in 0..m : n \in S /\ n < m => n + 1 \in S
    PROVE  \A n \in 0..m : n \in S
  <1> SUFFICES ASSUME {n \in 0..m : n \notin S} # {}
               PROVE  FALSE
    OBVIOUS
  <1> DEFINE T == {n \in 0..m : n \notin S}
  <1>1. T \subseteq Nat
    OBVIOUS
  <1>2. PICK x \in T : \A y \in T : x <= y
    <2> HIDE DEF T
    <2>1. T # {}
      BY DEF T
    <2> QED BY <1>1, <2>1, Least
  <1>3. x \in 0..m /\ x \notin S /\ x # 0
    BY <1>2
  <1>4. x - 1 \in 0..m /\ x - 1 < m /\ x - 1 \notin T /\ (x - 1) + 1 = x
    BY <1>1, <1>2, <1>3
  <1> QED BY <1>3, <1>4

LEMMA PowersPositive == \A n \in 0..Bits : 2^n \in Nat /\ 2^n > 0
  <1> DEFINE S == {n \in Nat : 2^n \in Nat /\ 2^n > 0}
  <1>1. 0 \in S
    BY PowersOfTwo
  <1>2. ASSUME NEW n \in 0..Bits, n \in S, n < Bits
        PROVE  n + 1 \in S
    BY <1>2, PowersOfTwo, DispatcherAssumption
  <1> HIDE DEF S
  <1>3. \A n \in 0..Bits : n \in S
    BY <1>1, <1>2, UpTo, DispatcherAssumption
  <1> QED BY <1>3 DEF S

(* A shifted delay, and the room that Fits leaves for it.                  *)
LEMMA ShiftFits ==
    ASSUME Fits, NEW n \in 0..maxBackoffShift
    PROVE  /\ baseDelay * 2^n \in Nat
           /\ baseDelay * 2^n < 2^((Bits - 1 - maxBackoffShift) + n)
           /\ 2^((Bits - 1 - maxBackoffShift) + n) <= 2^(Bits - 1)
  <1> DEFINE e == Bits - 1 - maxBackoffShift
  <1>1. e \in Nat /\ e + maxBackoffShift = Bits - 1 /\ Bits \in Nat /\ maxBackoffShift \in Nat
    BY DispatcherAssumption
  <1>2. baseDelay \in Nat /\ baseDelay < 2^e
    BY DispatcherAssumption DEF Fits
  <1> HIDE DEF e
  <1> DEFINE S == {k \in Nat : baseDelay * 2^k \in Nat /\ baseDelay * 2^k < 2^(e + k)}
  <1>3. 0 \in S
    BY <1>1, <1>2, PowersOfTwo
  <1>4. ASSUME NEW k \in 0..maxBackoffShift, k \in S, k < maxBackoffShift
        PROVE  k + 1 \in S
    <2>1. k \in 0..Bits /\ e + k \in 0..Bits /\ (e + k) + 1 = e + (k + 1)
      BY <1>1, <1>4
    <2>2. 2^(k + 1) = 2 * 2^k /\ 2^(e + (k + 1)) = 2 * 2^(e + k)
      BY <2>1, PowersOfTwo
    <2>3. 2^k \in Nat /\ 2^(e + k) \in Nat
      BY <2>1, PowersPositive
    <2>4. \A a, p, q \in Nat : a * p < q => a * (2 * p) < 2 * q /\ a * (2 * p) \in Nat
      OBVIOUS
    <2> QED BY <1>2, <1>4, <2>2, <2>3, <2>4
  <1> DEFINE R == {k \in Nat : k <= maxBackoffShift => 2^((Bits - 1) - k) <= 2^(Bits - 1)}
  <1>5. 0 \in R
    BY <1>1, PowersPositive
  <1>6. ASSUME NEW k \in 0..maxBackoffShift, k \in R, k < maxBackoffShift
        PROVE  k + 1 \in R
    <2> DEFINE j == (Bits - 1) - (k + 1)
    <2>1. j \in 0..Bits /\ j + 1 = (Bits - 1) - k /\ Bits - 1 \in 0..Bits
      BY <1>1, <1>6
    <2> HIDE DEF j
    <2>2. 2^(j + 1) = 2 * 2^j /\ 2^j \in Nat /\ 2^(Bits - 1) \in Nat
      BY <2>1, PowersOfTwo, PowersPositive
    <2>3. 2^(j + 1) <= 2^(Bits - 1)
      BY <1>6, <2>1
    <2>4. 2^j <= 2^(Bits - 1)
      BY <2>2, <2>3
    <2> QED BY <2>4 DEF j
  <1> HIDE DEF S, R
  <1>7. \A k \in 0..maxBackoffShift : k \in S
    BY <1>1, <1>3, <1>4, UpTo
  <1>8. \A k \in 0..maxBackoffShift : k \in R
    BY <1>1, <1>5, <1>6, UpTo
  <1>9. maxBackoffShift - n \in 0..maxBackoffShift /\ (Bits - 1) - (maxBackoffShift - n) = e + n
    BY <1>1
  <1>10. 2^(e + n) <= 2^(Bits - 1)
    BY <1>8, <1>9 DEF R
  <1> QED BY <1>7, <1>10 DEF S, e

(* A delay that fits is not changed by the width of the integers.          *)
LEMMA BackoffExact ==
    ASSUME Fits, NEW n \in Nat \ {0}
    PROVE  LET shift == IF n - 1 > maxBackoffShift THEN maxBackoffShift ELSE n - 1
           IN  backoff(n) = baseDelay * 2^shift
  <1> DEFINE shift == IF n - 1 > maxBackoffShift THEN maxBackoffShift ELSE n - 1
             m == baseDelay * 2^shift
             h == 2^(Bits - 1)
  <1>1. shift \in 0..maxBackoffShift /\ Bits - 1 \in 0..Bits /\ (Bits - 1) + 1 = Bits
    BY DispatcherAssumption
  <1>2. backoff(n) = ((m + h) % 2^Bits) - h
    BY DEF backoff, Wrap
  <1>3. h \in Nat /\ h > 0 /\ 2^Bits = 2 * h
    BY <1>1, PowersOfTwo, PowersPositive
  <1> HIDE DEF shift
  <1>4. m \in Nat /\ m < h
    <2> DEFINE p == 2^((Bits - 1 - maxBackoffShift) + shift)
    <2>1. m \in Nat /\ m < p /\ p <= h
      BY <1>1, ShiftFits
    <2>2. (Bits - 1 - maxBackoffShift) + shift \in 0..Bits
      BY <1>1, DispatcherAssumption
    <2>3. p \in Nat
      BY <2>2, PowersPositive
    <2> HIDE DEF p, m, h
    <2> QED BY <1>3, <2>1, <2>3
  <1> HIDE DEF m, h
  <1>5. \A k, l \in Nat : k < l => k % l = k
    OBVIOUS
  <1>6. (m + h) % (2 * h) = m + h
    BY <1>3, <1>4, <1>5
  <1>7. backoff(n) = m
    BY <1>2, <1>3, <1>4, <1>6
  <1> QED BY <1>7 DEF m, shift

\* Retries are never closer together than before and never closer than the
\* base delay (dispatcher.go backoff), however many there are, if the base
\* delay leaves room for the largest shift.
THEOREM PausesGrow == Spec => []PausesNeverShrink
  <1>1. Inv => PausesNeverShrink
    <2> SUFFICES ASSUME Inv, Fits, NEW i \in Known, pc[i] = "backoff"
                 PROVE  backoff(attempt[i]) >= IF attempt[i] = 1 THEN baseDelay
                                               ELSE backoff(attempt[i] - 1)
      BY DEF PausesNeverShrink
    <2> DEFINE n == attempt[i]
               Shift(k) == IF k - 1 > maxBackoffShift THEN maxBackoffShift ELSE k - 1
    <2>1. n \in Nat \ {0}
      BY DispatcherAssumption DEF Inv, TypeOK, Achieved, Running, Known
    <2> HIDE DEF n
    <2>2. maxBackoffShift \in Nat /\ maxBackoffShift < Bits /\ baseDelay \in Nat /\ Bits \in Nat
      BY DispatcherAssumption
    <2>3. \A k \in Nat \ {0} : backoff(k) = baseDelay * 2^Shift(k)
      BY BackoffExact
    <2>4. CASE n = 1
      <3>1. Shift(1) = 0
        BY <2>2
      <3> HIDE DEF Shift
      <3>2. backoff(1) = baseDelay * 2^Shift(1)
        BY <2>3
      <3>3. 2^Shift(1) = 1
        BY <2>2, <3>1, PowersOfTwo
      <3>4. backoff(1) = baseDelay
        BY <2>2, <3>2, <3>3
      <3> QED BY <2>2, <2>4, <3>4 DEF n
    <2>5. CASE n # 1
      <3> DEFINE s == Shift(n - 1)
      <3>1. /\ n - 1 \in Nat \ {0} /\ s \in 0..maxBackoffShift /\ s \in 0..Bits
            /\ Shift(n) = s \/ Shift(n) = s + 1
        BY <2>1, <2>2, <2>5
      <3>2. backoff(n) = baseDelay * 2^Shift(n) /\ backoff(n - 1) = baseDelay * 2^s
        BY <2>1, <2>3, <3>1
      <3> HIDE DEF Shift, s
      <3>3. 2^s \in Nat /\ 2^(s + 1) = 2 * 2^s
        BY <3>1, PowersOfTwo, PowersPositive
      <3>4. \A a, p \in Nat : a * p <= a * p /\ a * p <= a * (2 * p)
        OBVIOUS
      <3>5. backoff(n - 1) <= backoff(n)
        BY <2>2, <3>1, <3>2, <3>3, <3>4
      <3>6. backoff(n) \in Int /\ backoff(n - 1) \in Int
        BY <2>2, <3>1, <3>2, <3>3
      <3> QED BY <2>5, <3>5, <3>6 DEF n
    <2> QED BY <2>4, <2>5
  <1> QED BY <1>1, Invariance, PTL

-----------------------------------------------------------------------------
(* The loop of the unit around Dispatch.                                   *)

(* m has the fields of a StateMachine and one of the two states.           *)
IsMachine(m) ==
    m \in [failureThreshold : {m.failureThreshold}, trigger : {m.trigger},
           minAvailability : {m.minAvailability}, state : State,
           consecutive : {m.consecutive}, window : {m.window},
           lastSuccess : {m.lastSuccess}]

(* The loop is where Dispatch is, and has announced the state of its       *)
(* machine except between Observe and dispatchEvent, when the event says   *)
(* whether there is something to announce.                                 *)
PathInv ==
    /\ IsMachine(sm)
    /\ unit \in {"select", "probe", "observed", "dispatch", "stopped"}
    /\ unit # "dispatch" => caller = "idle"
    /\ unit # "observed" => told = sm.state
    /\ unit = "observed" =>
          \/ event = None /\ told = sm.state
          \/ event = AlertUnhealthy /\ sm.state = Unhealthy
          \/ event = RecoveryHealthy /\ sm.state = Healthy
    /\ cause = "shutdown" => ctxDone
    /\ NoFalseAlarm

-----------------------------------------------------------------------------
(* Every step of the composition is a step of the Dispatcher or leaves it  *)
(* alone.                                                                  *)
LEMMA PathStep == [Path]_pathVars => [Next]_vars
  BY DEF Path, pathVars, Loop, Tick, Stop, ProbeAnswered, ProbeInterrupted, Probed,
         dispatchEvent, Resume, Delivery, Next

(* So the composition implements the Dispatcher's safety part: a role      *)
(* raises one alert at a time and touches nothing else of a delivery.      *)
THEOREM PathImplementsDispatcher == PathSpec => Init /\ [][Next]_vars
  <1>1. PathInit => Init
    BY DEF PathInit
  <1> QED BY <1>1, PathStep, PTL DEF PathSpec

(* And the Dispatcher's invariant holds in it.                             *)
THEOREM PathKeepsDispatcher == PathSpec => []Inv
  <1>1. PathInit => Inv
    BY InitInv DEF PathInit
  <1>2. Inv /\ [Path]_pathVars => Inv'
    BY PathStep, StepInv
  <1> QED BY <1>1, <1>2, PTL DEF PathSpec

(* What Observe returns: an event exactly when the state changes.          *)
LEMMA ObserveEvent ==
    ASSUME NEW m, IsMachine(m), NEW success \in BOOLEAN, NEW t
    PROVE  LET r == Observe(m, success, t)
           IN  /\ IsMachine(r.sm)
               /\ \/ r.event = None /\ r.sm.state = m.state
                  \/ r.event = AlertUnhealthy /\ r.sm.state = Unhealthy
                  \/ r.event = RecoveryHealthy /\ r.sm.state = Healthy
  <1> DEFINE c == count(m, success, t)
  <1>1. IsMachine(c) /\ c.state = m.state
    BY DEF IsMachine, count
  <1> HIDE DEF c
  <1>2. ASSUME NEW s \in State, NEW e
        PROVE  /\ IsMachine(Enter(c, s, e).sm)
               /\ Enter(c, s, e).sm.state = s /\ Enter(c, s, e).event = e
    BY <1>1 DEF IsMachine, Enter
  <1>3. c.state \in State /\ Healthy \in State /\ Unhealthy \in State
    BY <1>1 DEF IsMachine, State
  <1>4. \/ Observe(m, success, t) = Enter(c, c.state, None)
        \/ Observe(m, success, t) = Enter(c, Unhealthy, AlertUnhealthy)
        \/ Observe(m, success, t) = Enter(c, Healthy, RecoveryHealthy)
    BY DEF Observe, transitionAvailability, transitionConsecutive, c
  <1> QED BY <1>1, <1>2, <1>3, <1>4

-----------------------------------------------------------------------------
(* A new machine is healthy, which is what nobody needs to be told.        *)
LEMMA PathInitInv == PathInit => PathInv
  <1> SUFFICES ASSUME PathInit PROVE PathInv
    OBVIOUS
  <1>1. IsMachine(sm) /\ sm.state = Healthy
    BY DEF PathInit, NewWithConfig, IsMachine, State
  <1> QED BY <1>1 DEF PathInit, PathInv, NoFalseAlarm, Init

(* After Observe the event tells whether the state must be announced.      *)
LEMMA ProbedInv ==
    ASSUME PathInv, NEW success \in BOOLEAN, NEW why, Probed(success, why),
           why = "shutdown" => ctxDone
    PROVE  PathInv'
  <1> DEFINE r == Observe(sm, success, ZeroTime)
  <1>1. /\ IsMachine(r.sm)
        /\ \/ r.event = None /\ r.sm.state = sm.state
           \/ r.event = AlertUnhealthy /\ r.sm.state = Unhealthy
           \/ r.event = RecoveryHealthy /\ r.sm.state = Healthy
    BY ObserveEvent DEF PathInv
  <1>2. sm' = r.sm /\ event' = r.event
    BY DEF Probed
  <1> HIDE DEF r
  <1> QED BY <1>1, <1>2 DEF PathInv, Probed, NoFalseAlarm, vars

(* The steps of the unit's loop.                                           *)
LEMMA LoopInv == PathInv /\ Loop => PathInv'
  <1> SUFFICES ASSUME PathInv, Loop PROVE PathInv'
    OBVIOUS
  <1>1. CASE Tick \/ Stop
    BY <1>1 DEF Tick, Stop, PathInv, NoFalseAlarm, vars
  <1>2. CASE ProbeAnswered \/ ProbeInterrupted
    BY <1>2, ProbedInv DEF ProbeAnswered, ProbeInterrupted
  <1>3. CASE dispatchEvent
    <2>1. CASE event = None
      BY <1>3, <2>1 DEF dispatchEvent, PathInv, NoFalseAlarm, vars, None,
         AlertUnhealthy, RecoveryHealthy
    <2>2. CASE event # None
      <3>1. /\ unit' = "dispatch" /\ UNCHANGED <<sm, cause, ctxDone>>
            /\ pc' = [i \in Positions |-> "none"]
            /\ told' = IF event = AlertUnhealthy THEN Unhealthy ELSE Healthy
        BY <1>3, <2>2 DEF dispatchEvent, Raise
      <3>2. told' = sm'.state
        BY <1>3, <2>2, <3>1 DEF dispatchEvent, PathInv, AlertUnhealthy, RecoveryHealthy
      <3>3. NoFalseAlarm'
        BY <3>1 DEF NoFalseAlarm, Known
      <3> QED BY <3>1, <3>2, <3>3 DEF PathInv
    <2> QED BY <2>1, <2>2
  <1>4. CASE Resume
    BY <1>4 DEF Resume, PathInv, NoFalseAlarm, vars
  <1> QED BY <1>1, <1>2, <1>3, <1>4 DEF Loop

(* The deliveries and the cancellation: after the cancellation a goroutine *)
(* that has not yet called its channel does not call it.                   *)
LEMMA DeliveryInv ==
    ASSUME Inv, PathInv, Delivery \/ (Cancel /\ UNCHANGED unitVars)
    PROVE  PathInv'
  <1>0. UNCHANGED unitVars
    BY DEF Delivery
  <1>1. caller = "idle" => caller' = "idle"
    BY DEF Delivery, Step, Spawn, Return, Cancel, goVars, Check, Call,
       ConsoleNotify, HTTPNotify, EmailResult, EmailCancelled, TimerFires,
       BackoffCancelled, EmailSend
  <1>2. ctxDone => ctxDone'
    BY DEF Delivery, Step, Spawn, Return, Cancel, goVars, Check, Call,
       ConsoleNotify, HTTPNotify, EmailResult, EmailCancelled, TimerFires,
       BackoffCancelled, EmailSend
  <1>3. NoFalseAlarm'
    <2> SUFFICES ASSUME cause = "shutdown", unit = "dispatch", NEW j \in Known
                 PROVE  pc'[j] \in {"none", "check", "done"}
      BY <1>0 DEF NoFalseAlarm, unitVars
    <2>0. /\ ctxDone /\ pc \in [Positions -> Places] /\ j \in Positions
          /\ \A i \in Known : pc[i] \in {"none", "check", "done"}
      BY DEF PathInv, NoFalseAlarm, Inv, TypeOK, Places, Known
    <2>1. CASE Spawn
      BY <2>0, <2>1 DEF Spawn
    <2>2. CASE Return \/ Cancel
      BY <2>0, <2>2 DEF Return, Cancel, goVars
    <2>3. ASSUME NEW i \in Known, Step(i)
          PROVE  pc'[j] \in {"none", "check", "done"}
      <3>1. pc[i] \in {"none", "check", "done"} /\ i \in Positions
        BY <2>0 DEF Known
      <3>2. Check(i)
        BY <2>3, <3>1 DEF Step, Call, ConsoleNotify, HTTPNotify, EmailResult,
           EmailCancelled, TimerFires, BackoffCancelled
      <3> QED BY <2>0, <3>1, <3>2 DEF Check, Finish
    <2>4. ASSUME NEW s \in senders, EmailSend(s)
          PROVE  pc'[j] \in {"none", "check", "done"}
      BY <2>0, <2>4 DEF EmailSend
    <2> QED BY <2>1, <2>2, <2>3, <2>4 DEF Delivery
  <1> QED BY <1>0, <1>1, <1>2, <1>3 DEF PathInv, unitVars

(* Every behaviour keeps both invariants.                                  *)
THEOREM PathInvariance == PathSpec => [](Inv /\ PathInv)
  <1>1. Inv /\ PathInv /\ [Path]_pathVars => PathInv'
    <2> SUFFICES ASSUME Inv, PathInv, [Path]_pathVars PROVE PathInv'
      OBVIOUS
    <2>1. CASE Loop
      BY <2>1, LoopInv
    <2>2. CASE Delivery \/ (Cancel /\ UNCHANGED unitVars)
      BY <2>2, DeliveryInv
    <2>3. CASE UNCHANGED pathVars
      <3>1. UNCHANGED vars /\ UNCHANGED unitVars
        BY <2>3 DEF pathVars
      <3> QED BY <3>1 DEF vars, unitVars, PathInv, NoFalseAlarm
    <2> QED BY <2>1, <2>2, <2>3 DEF Path
  <1> QED BY <1>1, PathInitInv, PathKeepsDispatcher, PTL DEF PathSpec

(* No channel is called for an alert that only the shutdown caused.        *)
THEOREM ShutdownAlarmsNobody == PathSpec => []NoFalseAlarm
  <1>1. PathInv => NoFalseAlarm
    BY DEF PathInv
  <1> QED BY <1>1, PathInvariance, PTL

(* Between two checks the channels have been told the state of the unit.   *)
THEOREM StateAnnounced == PathSpec => []ChannelsKnowState
  <1>1. Inv /\ PathInv => ChannelsKnowState
    <2>1. Inv => NoSilentLoss
      BY LossNever
    <2> QED BY <2>1 DEF PathInv, ChannelsKnowState, NoSilentLoss
  <1> QED BY <1>1, PathInvariance, PTL

=============================================================================
