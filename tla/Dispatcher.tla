----------------------------- MODULE Dispatcher -----------------------------
(***************************************************************************)
(* The delivery of alerts (internal/notify): Dispatch starts a goroutine   *)
(* per known channel and waits for all of them; each retries its channel's *)
(* Notify with a backoff until it succeeds, the attempts are used up or    *)
(* the context is cancelled.  A role's loop is blocked in Dispatch, so it  *)
(* raises one alert at a time; dispatches of different roles share only    *)
(* the immutable channel map.                                              *)
(***************************************************************************)
EXTENDS Integers, Sequences, FiniteSets

CONSTANTS
    channelNames,  \* the notify list of the role
    channels,      \* the known channels: name -> "console", "http" or "email"
    maxAttempts,   \* retry.max_attempts
    baseDelay,     \* retry.base_delay_ms, as a time.Duration
    maxBackoffShift,
    Bits,          \* the width of time.Duration
    MaxAlerts      \* bound on the number of alerts raised

Positions == DOMAIN channelNames
Known == {i \in Positions : channelNames[i] \in DOMAIN channels}
Kind(i) == channels[channelNames[i]]

ASSUME DispatcherAssumption ==
    /\ channelNames \in Seq(STRING)
    /\ \A i \in Known : Kind(i) \in {"console", "http", "email"}
    /\ maxAttempts \in Nat \ {0}
    /\ baseDelay \in Nat /\ maxBackoffShift \in Nat /\ Bits \in Nat \ {0}
    /\ maxBackoffShift < Bits
    /\ MaxAlerts \in Nat

(* What a power of two is, up to those that occur: arithmetic that TLC has *)
(* built in and the provers have not.                                      *)
ASSUME PowersOfTwo ==
    \A n \in 0..Bits : (n = 0 => 2^n = 1) /\ 2^(n + 1) = 2 * 2^n

VARIABLES
    ctxDone,  \* the context is cancelled
    alert,    \* how many alerts were raised
    caller,   \* "idle", or "dispatch" while Dispatch runs
    next,     \* the position the range loop of Dispatch is at
    wg,       \* the counter of the WaitGroup
    pc,       \* where the goroutine of each position is
    attempt,  \* its loop variable
    acked,    \* its last Notify returned nil
    reply,    \* the buffered channel `done' of its Email.Notify
    senders,  \* sender goroutines of Email.Notify: <<position, alert, attempt>>
    late      \* history: calls of Notify that started after the cancellation

vars == <<ctxDone, alert, caller, next, wg, pc, attempt, acked, reply, senders,
          late>>
goVars == <<pc, attempt, acked, reply, senders, late>>

-----------------------------------------------------------------------------
Init ==
    /\ ctxDone = FALSE
    /\ alert = 0
    /\ caller = "idle"
    /\ next = 1
    /\ wg = 0
    /\ pc = [i \in Positions |-> "none"]
    /\ attempt = [i \in Positions |-> 0]
    /\ acked = [i \in Positions |-> FALSE]
    /\ reply = [i \in Positions |-> "none"]
    /\ senders = {}
    /\ late = [i \in Positions |-> 0]

(* A role calls Dispatch; it does so in a check under way even when the    *)
(* context is already cancelled.                                           *)
Raise ==
    /\ caller = "idle" /\ alert < MaxAlerts
    /\ alert' = alert + 1
    /\ caller' = "dispatch"
    /\ next' = 1
    /\ pc' = [i \in Positions |-> "none"]
    /\ attempt' = [i \in Positions |-> 0]
    /\ acked' = [i \in Positions |-> FALSE]
    /\ late' = [i \in Positions |-> 0]
    /\ UNCHANGED <<ctxDone, wg, reply, senders>>

(* Mutant: the goroutine is started without wg.Add.                        *)
SpawnNoAdd ==
    /\ caller = "dispatch" /\ next <= Len(channelNames)
    /\ IF next \in Known
       THEN /\ pc' = [pc EXCEPT ![next] = "check"]
            /\ attempt' = [attempt EXCEPT ![next] = 1]
       ELSE UNCHANGED <<pc, attempt>>
    /\ next' = next + 1
    /\ UNCHANGED <<ctxDone, alert, caller, wg, acked, reply, senders, late>>

(* One turn of the range loop: an unknown channel is skipped.              *)
Spawn ==
    /\ caller = "dispatch" /\ next <= Len(channelNames)
    /\ IF next \in Known
       THEN /\ wg' = wg + 1
            /\ pc' = [pc EXCEPT ![next] = "check"]
            /\ attempt' = [attempt EXCEPT ![next] = 1]
       ELSE UNCHANGED <<wg, pc, attempt>>
    /\ next' = next + 1
    /\ UNCHANGED <<ctxDone, alert, caller, acked, reply, senders, late>>

(* Mutant: Dispatch does not wait for the goroutines it started.           *)
ReturnEarly ==
    /\ caller = "dispatch" /\ next > Len(channelNames)
    /\ caller' = "idle"
    /\ UNCHANGED <<ctxDone, alert, next, wg>> /\ UNCHANGED goVars

(* wg.Wait returns, and with it Dispatch.                                  *)
Return ==
    /\ caller = "dispatch" /\ next > Len(channelNames) /\ wg = 0
    /\ caller' = "idle"
    /\ UNCHANGED <<ctxDone, alert, next, wg>> /\ UNCHANGED goVars

Cancel ==
    /\ ~ctxDone
    /\ ctxDone' = TRUE
    /\ UNCHANGED <<alert, caller, next, wg>> /\ UNCHANGED goVars

-----------------------------------------------------------------------------
(* deliver returns; the goroutine's deferred wg.Done runs.                 *)
Finish(i) ==
    /\ pc' = [pc EXCEPT ![i] = "done"]
    /\ wg' = wg - 1

(* Mutant: deliver does not look at the context before it calls Notify.    *)
CheckNothing(i) ==
    /\ pc[i] = "check"
    /\ pc' = [pc EXCEPT ![i] = "call"]
    /\ UNCHANGED <<wg, ctxDone, alert, caller, next, attempt, acked, reply,
                   senders, late>>

(* The head of the retry loop.                                             *)
Check(i) ==
    /\ pc[i] = "check"
    /\ IF ctxDone THEN Finish(i)
       ELSE pc' = [pc EXCEPT ![i] = "call"] /\ UNCHANGED wg
    /\ UNCHANGED <<ctxDone, alert, caller, next, attempt, acked, reply,
                   senders, late>>

(* safeNotify is called; an email channel starts its sender goroutine.     *)
Call(i) ==
    /\ pc[i] = "call"
    /\ pc' = [pc EXCEPT ![i] = "notify"]
    /\ late' = [late EXCEPT ![i] = IF ctxDone THEN @ + 1 ELSE @]
    /\ IF Kind(i) = "email"
       THEN /\ senders' = senders \cup {<<i, alert, attempt[i]>>}
            /\ reply' = [reply EXCEPT ![i] = "none"]
       ELSE UNCHANGED <<senders, reply>>
    /\ UNCHANGED <<ctxDone, alert, caller, next, wg, attempt, acked>>

(* Mutant: the last attempt but one is taken for the last.                 *)
NotifiedGivesUp(i, ok) ==
    /\ acked' = [acked EXCEPT ![i] = ok]
    /\ IF ok \/ attempt[i] + 1 >= maxAttempts
       THEN Finish(i)
       ELSE pc' = [pc EXCEPT ![i] = "backoff"] /\ UNCHANGED wg

(* Mutant: a success does not leave the loop.                              *)
NotifiedGoesOn(i, ok) ==
    /\ acked' = [acked EXCEPT ![i] = ok \/ acked[i]]
    /\ IF attempt[i] = maxAttempts
       THEN Finish(i)
       ELSE pc' = [pc EXCEPT ![i] = "backoff"] /\ UNCHANGED wg

(* What deliver does with the result of safeNotify: nil ends it, an error  *)
(* or a recovered panic leads to the backoff unless it was the last one.   *)
Notified(i, ok) ==
    /\ acked' = [acked EXCEPT ![i] = ok]
    /\ IF ok \/ attempt[i] = maxAttempts
       THEN Finish(i)
       ELSE pc' = [pc EXCEPT ![i] = "backoff"] /\ UNCHANGED wg

(* Console.Notify writes a log line and always returns nil.                *)
ConsoleNotify(i) ==
    /\ pc[i] = "notify" /\ Kind(i) = "console"
    /\ Notified(i, TRUE)
    /\ UNCHANGED <<ctxDone, alert, caller, next, attempt, reply, senders, late>>

(* Webhook.Notify and SMSGate.Notify: a 2xx answer, or any other answer,   *)
(* error, client timeout or cancellation.                                  *)
HTTPNotify(i) ==
    /\ pc[i] = "notify" /\ Kind(i) = "http"
    /\ \E ok \in BOOLEAN : Notified(i, ok)
    /\ UNCHANGED <<ctxDone, alert, caller, next, attempt, reply, senders, late>>

(* The sender goroutine of an Email.Notify ends, if the SMTP server lets   *)
(* it: its result goes to the buffered channel, read or not.               *)
EmailSend(s) ==
    /\ senders' = senders \ {s}
    /\ IF s = <<s[1], alert, attempt[s[1]]>> /\ pc[s[1]] = "notify"
       THEN \E r \in {"nil", "err"} : reply' = [reply EXCEPT ![s[1]] = r]
       ELSE UNCHANGED reply
    /\ UNCHANGED <<ctxDone, alert, caller, next, wg, pc, attempt, acked, late>>

(* The select of Email.Notify.                                             *)
EmailResult(i) ==
    /\ pc[i] = "notify" /\ Kind(i) = "email" /\ reply[i] # "none"
    /\ Notified(i, reply[i] = "nil")
    /\ UNCHANGED <<ctxDone, alert, caller, next, attempt, reply, senders, late>>

(* Mutant: the sender is given up although nothing was cancelled.          *)
EmailGivesUp(i) ==
    /\ pc[i] = "notify" /\ Kind(i) = "email"
    /\ Notified(i, FALSE)
    /\ UNCHANGED <<ctxDone, alert, caller, next, attempt, reply, senders, late>>

(* Mutant: Notify waits for its sender whatever happens to the context.    *)
EmailWaits(i) ==
    /\ pc[i] = "notify" /\ Kind(i) = "email" /\ ctxDone /\ reply[i] # "none"
    /\ Notified(i, FALSE)
    /\ UNCHANGED <<ctxDone, alert, caller, next, attempt, reply, senders, late>>

EmailCancelled(i) ==
    /\ pc[i] = "notify" /\ Kind(i) = "email" /\ ctxDone
    /\ Notified(i, FALSE)
    /\ UNCHANGED <<ctxDone, alert, caller, next, attempt, reply, senders, late>>

(* The value of n in two's complement.                                     *)
Wrap(n) == ((n + 2^(Bits - 1)) % 2^Bits) - 2^(Bits - 1)

(* Mutant: the shift is not clamped.                                       *)
backoffUnclamped(n) == Wrap(baseDelay * 2^(n - 1))

(* The pause after a failure of the n-th attempt.                          *)
backoff(n) ==
    LET shift == IF n - 1 > maxBackoffShift THEN maxBackoffShift ELSE n - 1
    IN  Wrap(baseDelay * 2^shift)

(* Mutant: the retry does not count as an attempt.                         *)
TimerRestarts(i) ==
    /\ pc[i] = "backoff"
    /\ pc' = [pc EXCEPT ![i] = "check"]
    /\ UNCHANGED <<ctxDone, alert, caller, next, wg, attempt, acked, reply,
                   senders, late>>

(* The select of the backoff: the timer, set to backoff(attempt[i]), fires *)
(* and the loop goes on.                                                   *)
TimerFires(i) ==
    /\ pc[i] = "backoff"
    /\ attempt' = [attempt EXCEPT ![i] = @ + 1]
    /\ pc' = [pc EXCEPT ![i] = "check"]
    /\ UNCHANGED <<ctxDone, alert, caller, next, wg, acked, reply, senders, late>>

BackoffCancelled(i) ==
    /\ pc[i] = "backoff" /\ ctxDone
    /\ Finish(i)
    /\ UNCHANGED <<ctxDone, alert, caller, next, attempt, acked, reply, senders,
                   late>>

(* The last Dispatch has returned: no more alerts within the bound.        *)
Quiet ==
    /\ caller = "idle" /\ alert = MaxAlerts /\ ctxDone
    /\ UNCHANGED vars

(* The steps of the program that need nothing from an SMTP server.         *)
Step(i) ==
    \/ Check(i) \/ Call(i) \/ ConsoleNotify(i) \/ HTTPNotify(i)
    \/ EmailResult(i) \/ EmailCancelled(i) \/ TimerFires(i) \/ BackoffCancelled(i)

Next ==
    \/ Raise \/ Spawn \/ Return \/ Cancel \/ Quiet
    \/ \E i \in Known : Step(i)
    \/ \E s \in senders : EmailSend(s)

(* Goroutines are scheduled, timers fire, and an HTTP client gives up      *)
(* after its timeout.  Nothing bounds the time an SMTP server may take, so *)
(* EmailSend is not fair; nor are the alerts and the cancellation.         *)
Fairness ==
    /\ WF_vars(Spawn) /\ WF_vars(Return)
    /\ \A i \in Known : WF_vars(Step(i))

Spec == Init /\ [][Next]_vars /\ Fairness

-----------------------------------------------------------------------------
Live(i) == pc[i] \notin {"none", "done"}

\* Every variable has its type; the counter of the WaitGroup is never
\* negative, which would panic (dispatcher.go Dispatch).
TypeOK ==
    /\ ctxDone \in BOOLEAN
    /\ alert \in 0..MaxAlerts
    /\ caller \in {"idle", "dispatch"}
    /\ next \in 1..(Len(channelNames) + 1)
    /\ wg \in 0..Len(channelNames)
    /\ pc \in [Positions -> {"none", "check", "call", "notify", "backoff", "done"}]
    /\ attempt \in [Positions -> 0..maxAttempts]
    /\ acked \in [Positions -> BOOLEAN]
    /\ reply \in [Positions -> {"none", "nil", "err"}]
    /\ senders \subseteq (Positions \X (1..MaxAlerts) \X (1..maxAttempts))
    /\ late \in [Positions -> Nat]

\* Dispatch "blocks until all channels have finished": when it has returned no
\* goroutine of it is left, so two alerts of a role never overtake each other
\* in deliver (dispatcher.go Dispatch).
ReturnMeansFinished ==
    caller = "idle" => \A i \in Positions : ~Live(i)

\* No alert is lost in silence: unless the context is cancelled, every known
\* channel either confirmed the alert or was tried maxAttempts times by the
\* time Dispatch returns (dispatcher.go deliver).
NoSilentLoss ==
    caller = "idle" /\ alert > 0 /\ ~ctxDone =>
        \A i \in Known : acked[i] \/ attempt[i] = maxAttempts

\* A channel that confirmed an alert is not called again for it
\* (dispatcher.go deliver returns on a nil error).
AckIsFinal == \A i \in Known : acked[i] => pc[i] = "done"

\* After the cancellation a goroutine calls Notify at most once more: the call
\* it was about to make when it looked at the context (dispatcher.go deliver,
\* "retries respect context cancellation").
OneCallAfterCancel == \A i \in Known : late[i] <= 1

\* A sender goroutine of Email.Notify outlives its Notify only after a
\* cancellation: while the daemon runs, every sender is waited for, so a slow
\* SMTP server never accumulates senders (email.go Notify).
NoSenderLeftBehind ==
    ~ctxDone => \A s \in senders :
        pc[s[1]] = "notify" /\ s = <<s[1], alert, attempt[s[1]]>>

(* The base delays that leave room for the largest shift: in the daemon,   *)
(* with 64 bits and a shift of at most 30, those below 2^33 ns (8.5 s).    *)
Fits == baseDelay < 2^(Bits - 1 - maxBackoffShift)

\* However many attempts are configured, a failing channel is never called
\* again sooner than after the failure before, nor before the base delay has
\* passed, as long as the base delay leaves room for the largest shift
\* (dispatcher.go backoff, clamped so that it does not overflow).
PausesNeverShrink ==
    Fits => \A i \in Known : pc[i] = "backoff" =>
                backoff(attempt[i]) >= IF attempt[i] = 1 THEN baseDelay
                                       ELSE backoff(attempt[i] - 1)

\* Nothing but an SMTP server that does not answer keeps a Dispatch from
\* returning, and that only until the cancellation: it returns, or there is
\* for ever a sender that has not ended and nobody cancels (dispatcher.go
\* deliver; webhook.go and smsgate.go Notify, whose clients have a timeout;
\* email.go Notify, which abandons its sender when it is cancelled).
OnlyMailBlocks ==
    caller = "dispatch" ~> (caller = "idle" \/ [](senders # {} /\ ~ctxDone))

\* Every call of Dispatch returns.
DispatchReturns == caller = "dispatch" ~> caller = "idle"

=============================================================================
