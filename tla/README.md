# A TLA+ model of healthd

healthd is a single daemon that monitors hosts: it pings peers over TCP, fetches
URLs, checks that the internet is reachable and fast enough, and notifies people
over several channels when a unit's health changes. It also answers pings and
summary requests from other daemons. This directory models its logic in TLA+,
checks small instances with TLC and proves its safety properties for every
configuration with TLAPS.

Contents: [Inventory](#inventory) · [Modules](#modules) · [Runs](#runs) ·
[Bounds](#bounds) · [Fairness](#fairness) · [Proofs](#proofs) ·
[Findings](#findings) · [Not modelled](#not-modelled) · [Plan](#plan)

## Inventory

Paths are relative to `src/`.

| Component | State | Operations | Correct when |
|---|---|---|---|
| **Rolling window**, `internal/monitor/window.go` | circular `buf`, `head`, `len`, `sum` | `Add`, `Full`, `Availability` | `sum` counts the successes among exactly the latest `len` results |
| **Alert state machine**, `internal/monitor/statemachine.go` | `state`, `consecutive`, `window`, `lastSuccess`, parameters | `NewWithConfig`, `Observe` | the state is the verdict on the latest results, an event marks each change of it and nothing else |
| **Histories**, `internal/monitor/history.go` | per unit, a ring of 100 check samples and one of speed samples | `add`, `slice` | a slice is the latest samples, oldest first |
| **Registry**, `internal/monitor/registry.go` | `order`, `units`, `history` under one mutex | `Register`, `Update`, `RecordCheck`, `RecordSpeed`, `Snapshot`, `LogSnapshot`, `Summary`, `LogSummary` | a slot follows its unit's machine; a summary tells what was observed; a snapshot shows the change it is logged for |
| **Monitoring roles**, `internal/roles/{ping_monitor,url_monitor,internet_check,speed_check,http_probe,roles}.go` | a ticker and a state machine per unit; the internet check also rotates over its sites | the loop of each unit, `runCheck`, `dispatchEvent` | every change of state is announced once, in order, with the right counter |
| **Summary reporter**, `internal/roles/summary_reporter.go` | a ticker | `Run` | reports what the registry holds |
| **Notifier**, `internal/notify/` | the channel map (immutable); per `Dispatch` a WaitGroup, per channel an attempt counter; per email a sender goroutine | `Dispatch`, `deliver`, `safeNotify`, `Notify` of console, webhook, smsgate, email | every channel is tried until it confirms or its attempts are used up; channels do not hold each other up; a cancellation ends it promptly |
| **Pong server**, `internal/roles/{tcp_listener,message_dispatcher,message_handler}.go` | the listener, a goroutine per connection | `Run`, `handle`, `Dispatch`, the ping and get-summary handlers | every request is answered once, with its own id; shutdown ends the accept loop |
| **Wire protocol**, `internal/protocol/protocol.go` | none | encode and decode of a line | what is encoded is what is decoded |
| **Configuration**, `internal/config/config.go` | none after `Load` | profile inheritance, defaults, validation | what passes validation is what the roles rely on |
| **Daemon**, `cmd/healthd/main.go` | the context, the first error, a WaitGroup of roles | `run`, `buildChannels`, `buildRoles` | the first fatal error stops all roles and is returned |

Interactions. `run` builds every role before it starts any. Each monitored unit
then runs on a goroutine of its own. At each tick it probes, lets its own
`StateMachine` observe the result, and publishes to the shared `Registry` in
separate critical sections (`Update`, `RecordCheck`, for a speed check also
`RecordSpeed`). When the state changed it logs a snapshot of *all* units and calls
`Dispatch`, which starts a goroutine per channel and blocks the unit's loop until
the last has ended. The pong server reads the registry when it is asked for a
summary, the reporter when its ticker fires. A ping monitor's probe is a client of the
pong server of another daemon. One context, cancelled by a signal or
by a role that fails, ends everything.

What is hard: the arithmetic of two circular buffers; the warm-up of the
availability trigger; the interleaving of several units and readers between the
critical sections of one check; the cancellation that may arrive at every point of
a delivery; channels that do not answer; the shutdown of goroutines that wait for
each other, for a ticker, for a peer; a pong that comes too late; settings that are
absent, zero or inherited; two roundings before a comparison. `PROJECT.json` lists
these hazards by source line.

## Modules

| Module | Models | Uses |
|---|---|---|
| `Window` | `window.go` as operators on a record with the fields of the Go struct. A nil window is the window of size 0. | |
| `StateMachine` | `statemachine.go`: `NewWithConfig`, `Observe` and both transitions, as operators. The injected clock is an argument. | `Window` |
| `AlertPolicy` | *Abstract specification*: the promise of the state machine stated over the complete log of results, without counter or buffer. The verdict is `Down` after `failureThreshold` failures in a row, or when the last `WindowSize` results exist and amount to less than `MinAvailability`. | |
| `AlertMachine` | One machine driven by any sequence of results, with the log as a history variable; its properties; its refinement of `AlertPolicy`. | `StateMachine` |
| `AlertMachine_proofs` | The theorems about `AlertMachine`. | `AlertMachine` |
| `History` | `history.go`: the generic ring, as operators. | |
| `Registry` | `registry.go` and `toWireSummary` of `message_handler.go`. Each method holds the mutex throughout, so each is one operator. | `StateMachine`, `History` |
| `Fleet` | The units of a daemon and their registry. One action per call of `runCheck`: `Probe` (with `Observe`, which is local to the goroutine), `Update`, `RecordCheck`, `RecordSpeed`, `LogSnapshot`, `dispatchEvent`; `Tick` and `Stop` are the two cases of the loop's `select`; `Build` is a turn of `buildRoles`; `Cancel` the signal. | `Registry` |
| `Fleet_proofs` | The theorems about `Fleet`, with those about the ring and the registry; that each of its units is an `AlertMachine`. | `Fleet`, `AlertMachine` |
| `Dispatcher` | `internal/notify`: `Raise`, `Spawn` and `Return` are `Dispatch`; `Check`, `Call`, `Notified`, `TimerFires`, `BackoffCancelled` are `deliver`; `ConsoleNotify`, `HTTPNotify`, `EmailSend`, `EmailResult`, `EmailCancelled` are the channels. | |
| `AlertPath` | One unit from its ticker to the channels: the loop of a role, its machine and the `Dispatch` it blocks in. A probe that a shutdown interrupts counts as a failure, as in the code. | `Dispatcher`, `StateMachine` |
| `AlertPath_proofs` | The theorems about `Dispatcher` and about `AlertPath`, to which the former carry over. | `AlertPath` |
| `Float64` | `float64(s)/float64(l)*100` as `Availability` computes it, both roundings included, in small integers. | |
| `Rounding` | A machine that recovers under that arithmetic. | `StateMachine`, `Float64` |
| `Rounding_proofs` | The theorems about `Rounding`, and that `Float64` is right: division and multiplication as IEEE 754 defines them, and the proof that `Percent64` is what they come to. | `Rounding` |
| `Config` | `config.go` as operators: decoding, profile inheritance, defaults, validation. | |
| `Startup` | `run` up to the first goroutine: `Read`, `Decode`, `Resolve`, `ApplyDefaults`, `CheckConfig` are `config.Load`; `BuildChannels` and `BuildRoles` the rest. Every step may end the start. | `Config` |
| `Startup_proofs` | The theorems about `Startup`, with those about the operators of `Config`. | `Startup` |
| `Protocol` | `protocol.go` and the routing of `message_dispatcher.go` and `message_handler.go` as operators. A line is decodable or not; if it is, it has a version, an id, a type and a timestamp. | |
| `PongServer` | `tcp_listener.go`: accept loop, connection handlers with reader, deadline and blocking `Write`, the goroutines that close listener and connections; clients that do anything. | `Protocol` |
| `PongServer_proofs` | The theorems about `PongServer`, and the lemmas about one connection. | `PongServer` |
| `PingExchange` | `probe` of `ping_monitor.go` against that server, which may also die and be started again. | `PongServer` |
| `PingExchange_proofs` | The theorems about `PingExchange`, which use the lemmas about a connection. | `PingExchange`, `PongServer_proofs` |
| `Daemon` | `run` from the first goroutine to the exit, with every role's `Run` and loops. | |
| `Daemon_proofs` | The theorems about `Daemon`. | `Daemon` |
| `MC...` | Instances for TLC. | |

How they fit together. `Startup` shows what a daemon that starts gives its roles,
which is what `AlertMachine`, `Dispatcher` and `PongServer` assume of their constants.
`AlertPath` composes a unit's machine with its notifier, and `UnitStops` is what
`Daemon` assumes of a loop; `RunReturns` of `PongServer` is what it assumes of the
server. `PingExchange` composes monitor and server. `Fleet` composes the units with
the registry; each of its units is an `AlertMachine` of its own.

What the data became. A time is the ordinal of a check within its unit. A name and
a channel are strings of a small set. A percentage is `Percent(s, l)`, a constant
operator of which the proofs use only that it grows with `s`; TLC evaluates it as
`Percent64`, the float64 result rounded down to a whole number, which is all that a
comparison with a whole minimum can tell apart. An outcome of a probe is success or
failure and, for a speed test, the speed. A timer fires at any time
after it was started; how long a backoff was asked for is `backoff(attempt)`, in
integers of `Bits` bits. In `Startup` a JSON object is a partial function from fields
to values, so that an absent field and a zero one differ until they are decoded; its
numbers are whole ones, `min_availability` and `threshold_mbps` too, which the code keeps as
floats. Of a channel's text fields only whether they are empty is kept, of an address what
`url.Parse` says of it. `ctxDone` is the context of the daemon; both cases of a
`select` that are ready may be taken.

Readers of the registry (`Summary`, `toWireSummary`) change nothing. They are
operators, and the properties evaluate them in every reachable state, which is to
say at every moment a request or the reporter may take the mutex.

## Runs

`tlc -config <cfg> <module>`; the runs and their properties are in `PROJECT.json`.

**`alert_machine`** (`MCAlertMachine`). Every sequence of 8 results, 24
configurations.
- `CountersMatchResults`: the buffer holds exactly the latest results, `sum` counts
  its successes, `consecutive` is the run of failures at the end of the log and
  `lastSuccess` the time of the success before it.
- `EventPayload`: `dispatchEvent` sends a constant 0 with every recovery. That is
  right under the availability trigger too, whose transition never looks at the run
  of failures: a recovery needs availability to rise, hence a success.
- `AlertOnFailureOrFill`: a check that succeeds raises an alert only if it is the one
  that fills the window. That case is real: `F S` in a window of two with a minimum
  of 60 alerts on the success.
- `ImplementsPolicy`: the machine implements `AlertPolicy`.

**`fleet`** (`MCFleet`). A ping target under the availability trigger and a speed
check under the consecutive one, histories of two samples so that they wrap, a
cancellation at any moment.
- `SlotFollowsMachine`: apart from the unit whose `Update` is due, every slot is the
  status of its machine, whatever the other unit does.
- `SummaryTellsTheLog`: a summary at any moment lists the recorded samples of a unit,
  oldest first, and leaves out only the oldest, when the ring is full. It lacks the check
  under way until `RecordCheck`, although the status is already published, so status and
  history may differ by one check and no more.
- `AlertsFollowState`: the alerts of a unit alternate and the last one announced the
  current state, unless the change is still on its way.
- `SnapshotShowsChange`: the snapshot logged for a change shows the new state.

**`dispatcher`** (`MCDispatcher`). Two alerts to a webhook, to a name that is not
configured, to an email channel whose SMTP server may never answer and to the console;
four attempts; a cancellation at any moment.
- `ReturnMeansFinished`, `NoSilentLoss`, `AckIsFinal`: when `Dispatch` has returned
  no goroutine is left; unless cancelled, every known channel confirmed the alert or
  was tried `maxAttempts` times; a channel that confirmed is not called again.
- `OneCallAfterCancel`: a goroutine that looked at the context just before the
  cancellation makes one more call, never two.
- `NoSenderLeftBehind`: sender goroutines are abandoned only after a cancellation.
- `PausesNeverShrink`: the pauses between attempts never shrink, if the base delay
  leaves room for the largest shift.
- `OnlyMailBlocks`: a `Dispatch` returns unless an SMTP server is silent for ever and
  nobody cancels.

**`alert_path`** (`MCAlertPath`). One unit with a webhook and a mail channel, five
checks, a shutdown at any moment.
- `NoFalseAlarm`: a probe that the shutdown interrupted is observed as a failure, may
  change the state and raise an alert; no channel is called for it.
- `ChannelsKnowState`: between two checks the last alert announced the state the
  machine is in and every channel confirmed it or was tried `maxAttempts` times.
- `UnitStops`: after a cancellation the unit stops, wherever it was and whatever its
  channels do.

**`rounding`** (`MCRounding`). Windows of 20, 25, 30, 50 and 100 results that fill
with successes, every whole minimum.
- `RecoversWithinOne`: the roundings never declare a unit healthy too early, and delay
  a recovery by one success at most.
- `DefaultWindowExact`: in a window of the default size they never matter.

**`startup`** (`MCStartup`). Some 2,900 files: every way to set, inherit, omit or
misspell the settings of the trigger, the timing and the channels; every combination
of roles, complete, defective or switched off with a defect; every channel type with
each field missing; times on both sides of the range of a duration.
- `RolesGetWhatTheyNeed`: what starts has positive intervals and timeouts, a machine
  configuration that `AlertMachine` assumes, channels that exist, a site to check, a
  dispatcher with the attempts that were configured and a pause between them: all that
  would otherwise panic, hang or be corrected in silence much later. It is about what
  `buildChannels`, `NewDispatcher` and `buildRoles` made of the configuration, after
  the conversion of every time to a duration.
- `OneProfilePrecedence`: where at most one profile applies to a target, every setting
  comes from where the repository's README says: the target, else the profile, else the
  built-in default. `Due` recomputes it from the file in the documented order.
- `SummaryIffUnits`: an instance reports and answers get-summary exactly if it has
  units.
- `DisabledRolesIgnored`: what a file says of a role that is switched off never decides
  whether the daemon starts.

**`pong_server`** (`MCPongServer`). A client that sends up to three of a ping, a request
that this instance does not serve, one of another version, a line that is not JSON and
one that is too long, in any order and pipelined, reads or not, and hangs up at any time; `Accept` may fail
for a passing reason; a shutdown at any moment.
- `AnswersFollowRequests`: the k-th response is the one due for the k-th line, and
  nothing follows the rejection of a line that was too long.
- `NothingLost`: while the connection is up, every line is in one of the buffers, being
  answered, or answered.
- `IdleConnectionsEnd`: both goroutines of a connection end once its client is silent,
  unless the client leaves a full buffer unread and the handler is blocked in `Write`.
- `RunReturns`, `HandlersEnd`: after a cancellation `Run` returns, and every handler and
  closing goroutine ends, one that is blocked in `Write` or was accepted in a race with
  the cancellation included.

**`ping_exchange`** (`MCPingExchange`). Two successive probes of a monitor against one
server, which may be slow, be stopped, and crash once and come back.
- `SuccessIsAnswered`: a probe succeeds only if the server read this probe's ping and
  wrote its pong; a late pong never counts for the next probe.
- `AnswersAccepted`: no answer of a pong server is rejected.
- `ProbesEnd`: every probe ends, whatever the target does.

**`daemon`** (`MCDaemon`). A ping monitor with two targets, a speed test that may hang,
the reporter, and a pong server that may fail to bind; signals at any moment.
- `NoRoleLeft`: when `run` returns, no role and no loop is left. Mail senders that were
  abandoned and connection handlers are not waited for.
- `ExitTellsFailure`: `run` returns an error if and only if a role failed; a `Listen`
  that returned `context.Canceled` did not. Whether an interrupted lookup of a host name
  does so depends on the Go version: from 1.23 on its error wraps `context.Canceled`
  (`ListenCancelled`), with the 1.22 of the Dockerfile it does not and is recorded as a
  failure (`ListenFails`). The model allows both.
- `DaemonStops`: a signal, or a role that fails, ends the daemon.
- `KeepsChecking`: until then every loop whose checks are bounded goes on checking,
  although the speed test hangs.

**`fleet_same_name`**, **`dispatcher_mail`** and **`startup_default_profile`** show the [findings](#findings).

## Bounds

- `MaxChecks` 8 in `AlertMachine`, windows of 1 to 4: every window fills, wraps and
  is overwritten completely, and the state changes several times. Thresholds go from
  0 (which the code clamps to 1) to 3. The proofs remove this bound.
- `MaxChecks` 4 and `historyCap` 2 in `Fleet`: each ring is filled, wrapped and
  overwritten completely, each machine goes through alert, recovery and alert. Two
  units suffice for the interleavings, since units meet only in the registry.
- `maxAttempts` 4 in `dispatcher`: a first and a last attempt, and two pauses at the
  clamped shift (`maxBackoffShift` 1, `Bits` 5, `baseDelay` 4: one more doubling would
  overflow). `MaxAlerts` 2: a second alert can meet what the first left behind. The
  proofs remove both bounds for the safety properties.
- `MaxChecks` 5, `maxAttempts` 2 in `AlertPath`: alert, recovery and alert.
- `Rounding` takes every whole minimum and window sizes with and without whole
  percentages. The proofs remove this bound; that `Percent64` is the float64 result is
  proved for windows of up to 2^30 results.
- `Half` 2^23 and milliseconds in `Startup` (2^63 and nanoseconds in the daemon), since
  TLC's integers have 32 bits: files on both sides of the range are among those checked.
- `Conns` 1, `MaxLines` 3, `OutCap` 1 in `PongServer`: connections share nothing but the
  listener and the context, three lines can be in three different buffers, and a send
  buffer of one response is full as soon as a client does not read.
- Two probes and one crash in `PingExchange`: the second probe may begin while the
  server is still at the connection of the first, before or after a restart.
- `Daemon` has a role of every kind; loops meet only in their role's WaitGroup.
- `fleet`, `dispatcher` and `daemon` check for deadlock; `Terminated`, `Quiet` and
  `Finished` are their legitimate ends. In the others everything may come to an end
  within the bounds.

## Fairness

Go schedules runnable goroutines, timers fire and deadlines pass; nobody need raise an
alert, connect, send, read or stop the daemon.

- `Dispatcher`, `AlertPath`: `Spawn`, `Return` and the steps of a delivery goroutine are
  weakly fair. `HTTPNotify` ends because `applyDefaults` gives every HTTP channel a
  client timeout. `EmailSend` is *not* fair: nothing in `email.go` bounds the time an
  SMTP conversation takes. Of the loop, the end of a probe (it has a timeout),
  `dispatchEvent` and `Resume` are weakly fair and `Stop` is strongly fair: `select`
  chooses at random among the cases that are ready, so a ticker that is always ready
  does not pass over `ctx.Done()` for ever.
- `PongServer`: the accept loop, the handlers and the closing goroutines are weakly
  fair, a read deadline included. `Accept` on a closed listener fails. Clients and the
  cancellation are not fair.
- `PingExchange`: only the monitor's own steps are weakly fair, which include its
  timeouts. Nothing is assumed of the server.
- `Daemon`: `main`, the goroutines of the roles and the tickers are weakly fair, `Stop`
  strongly fair as above. A check of a loop in `Unbounded` (the speed test; a unit with
  an email channel) ends only if the context is cancelled, by `CommandContext` and by
  `Email.Notify`; any other ends by its timeout. Signals are not fair.

## Proofs

What is proved holds for every value of the constants: configurations, window sizes and
thresholds, lists of channels, numbers of attempts, alerts and checks, roles and loops,
units, connections and lines, probes and crashes, configuration files. Every safety
property of a passing run is proved.

| Theorem of `AlertMachine_proofs` | Statement |
|---|---|
| `Invariance` | `Spec => []IInv` |
| `TypeCorrect` | `Spec => []TypeOK`: every index into the window is in range |
| `CountersCorrect` | `Spec => []CountersMatchResults` |
| `PayloadCorrect` | `Spec => []EventPayload` |
| `AlertCause` | `Spec => []AlertOnFailureOrFill` |
| `Refinement` | `Spec => ImplementsPolicy` |

| Theorem of `Rounding_proofs` | Statement |
|---|---|
| `PercentMonotone` | more successes out of as many results never make a smaller `Percent64` |
| `Percent64Correct` | for `l` up to 2^30 and `s` in `1..l`, `Percent64(s, l)` is the whole part of the float64 `s / l * 100`, and both significands have 53 bits |
| `RecoveryPrompt` | `Spec => []RecoversWithinOne` |
| `DefaultExact` | `Spec => []DefaultWindowExact` |

| Theorem of `AlertPath_proofs` on `Dispatcher` | Statement |
|---|---|
| `TypeCorrect` | `Spec => []TypeOK`: the WaitGroup never goes below zero |
| `ReturnsComplete` | `Spec => []ReturnMeansFinished` |
| `NothingLostSilently` | `Spec => []NoSilentLoss` |
| `ConfirmedOnce` | `Spec => []AckIsFinal` |
| `CancellationRespected` | `Spec => []OneCallAfterCancel` |
| `SendersAwaited` | `Spec => []NoSenderLeftBehind` |
| `PausesGrow` | `Spec => []PausesNeverShrink` |

| Theorem of `AlertPath_proofs` on `AlertPath` | Statement |
|---|---|
| `PathImplementsDispatcher` | `PathSpec => Init /\ [][Next]_vars`: the safety part of `Dispatcher` |
| `ShutdownAlarmsNobody` | `PathSpec => []NoFalseAlarm` |
| `StateAnnounced` | `PathSpec => []ChannelsKnowState` |

| Theorem of `Daemon_proofs` | Statement |
|---|---|
| `TypeCorrect` | `Spec => []TypeOK`: the WaitGroup counts the roles started and not stopped |
| `DrainsCompletely` | `Spec => []NoRoleLeft` |
| `ExitStatusRight` | `Spec => []ExitTellsFailure` |

| Theorem of `Fleet_proofs` | Statement |
|---|---|
| `TypeCorrect` | `Spec => []TypeOK`: both rings of every unit are indexed within their buffers |
| `AlertsCorrect` | `Spec => []AlertsFollowState` |
| `SlotsCorrect` | `DistinctNames` implies `Spec => []SlotFollowsMachine` |
| `SnapshotsCorrect` | `DistinctNames` implies `Spec => []SnapshotShowsChange` |
| `SummariesCorrect` | `DistinctNames` implies `Spec => []SummaryTellsTheLog` |
| `UnitsAreMachines` | `Spec => Machine(u)!Spec` for every unit `u`: its machine, event and results go through a behaviour of `AlertMachine` |

| Theorem of `PongServer_proofs` | Statement |
|---|---|
| `AnswersCorrect` | `Spec => []AnswersFollowRequests` |
| `RequestsKept` | `Spec => []NothingLost` |

| Theorem of `PingExchange_proofs` | Statement |
|---|---|
| `SuccessCorrect` | `ExchangeSpec => []SuccessIsAnswered` |
| `AnswersUnderstood` | `ExchangeSpec => []AnswersAccepted` |

| Theorem of `Startup_proofs` | Statement |
|---|---|
| `NeedsMet` | `Spec => []RolesGetWhatTheyNeed` |
| `PrecedenceCorrect` | `Spec => []OneProfilePrecedence` |
| `SummaryCorrect` | `Spec => []SummaryIffUnits` |
| `DisabledCorrect` | `Spec => []DisabledRolesIgnored` |

### `AlertMachine`

Assumptions: `ConfigsAssumption` (what `validateTrigger` lets through: the
availability trigger has a window), `MaxChecksAssumption`, and `PercentAssumption`
(more successes out of as many results never make a smaller percentage; of the
arithmetic of the code that is `PercentMonotone` of `Rounding_proofs`).

Argument. The inductive invariant `IInv` is `TypeOK`, `ParametersKept` (threshold,
trigger, minimum and window size are those of the configuration),
`CountersMatchResults` and `StateIsVerdict` (the state is `AlertPolicy`'s verdict on
the log). None of the properties is inductive alone. `TypeOK` needs the meaning of
`sum` to know that it stays between 0 and the size when a result is evicted.
`EventPayload` and `AlertOnFailureOrFill` speak of the event, and follow from how the
*verdict* changes, so they need `StateIsVerdict` before the step and monotonicity of
`Percent`: a failed check cannot raise the count of a full window, a successful one
cannot lower it.

The circular buffer is described by *ages*: `Slot(w, a)` is the slot written `a`
results ago. After `Add` the age of every retained result grows by one and the slot
that was overwritten is the one of age `size`. This keeps modular arithmetic out of
all but two lemmas. That `sum` counts successes is a lemma on cardinality: the set of
successful indices loses at most the evicted one and gains at most the new one.

### `Float64` and `Rounding`

Assumptions: `RoundingAssumption` (positive window sizes, whole minima from 1 to 100),
`PercentAssumption` (the percentage is `Percent64`) and `Doubling`, which is what `2^n`
means.

`Percent64` decides with integers that TLC can hold whether two roundings of a number of 53
bits end at or below a whole percentage. `Percent64Correct` compares it with the definition:
`Quotient` is `s / l` in units of `2^-(52 + Scale)`, rounded to nearest, ties to even;
`Product` is 100 times that, rounded again. When `100 * s / l` is no whole number, it is at
least `1 / l` from one, while the roundings move it by at most `114 / Unit`
(`InexactCase`). When it is a whole number `m`, then `m` is itself a float64 with an even
significand, and the product falls short of it only if the first rounding went down by more
than half a unit of the product below `m`; that unit is half as large just below a power of
two (`Binade`, `ExactCase`). `NoTie` shows that the first rounding never meets a tie: a
divisor of up to 2^30 has too few factors of two. `Error` is computed from a remainder of
`2^(52 + a)` that is built from small factors; `PowerModuloCorrect` says that it is that
remainder. Results about powers of two are shown from the least counterexample (`Least`,
`FromTo`).

The inductive invariant `RInv` says that the machine has come to some number of successes
`n`, that they lie in front of `head` with only failures behind it, and that the state is the
verdict on `Percent64(n, size)`. `RecoversWithinOne` then needs only that `Percent64` is the
whole part or, when that is exact, one less (`PercentRange`) and that it is 100 for a window
without failures; `DefaultWindowExact` goes through the 20 percentages of the default
window and shows that none falls short.

### `Dispatcher` and `AlertPath`

Assumptions: `DispatcherAssumption` (a list of names, known channels of the three kinds,
at least one attempt, which `NewDispatcher` ensures, a largest shift below the width of a
duration) and `PowersOfTwo`, which is what `2^n` means: TLC knows it, the provers do not.

`Inv` has five parts beside the types. `Counted`: `wg` is the *number* of goroutines
that run, from which the return of `Wait` follows; it is kept by lemmas on the
cardinality of that set. `Started`: the known channels below `next` have been started
and no others, so that at the return each of them has ended. `Achieved`: a goroutine
that ended without a cancellation confirmed or used up its attempts. `Calls`: one that
is about to call has not called since the cancellation, which is why a second late call
is impossible: after the first it meets the check at the head of the loop. `Sending`:
until the cancellation a sender is the one of the `Notify` under way and its reply is
still open, so a result is read, and the next attempt begun, only when the sender is
gone. `OneCallAfterCancel` and `NoSenderLeftBehind` are not inductive without these.

`PausesNeverShrink` is about arithmetic. That a delay below `2^e` shifted by `n` is below
`2^(e + n)` is an induction on `n`; since the library's induction theorems cannot be
instantiated here, it is made from the least counterexample (`Least`, `UpTo`), which exists
because the order of the natural numbers is well-founded. Then no product wraps around, and
consecutive pauses are equal or double.

Every step of `AlertPath` is a step of `Dispatcher` or leaves it alone
(`PathImplementsDispatcher`), so `Inv` holds there too. `PathInv` adds where the loop
is, that the event says whether the state is still to be announced, and that a probe is
interrupted only after the cancellation, from when on `Check` lets no goroutine pass.

### `Daemon`

Assumption: `DaemonAssumption`. Nothing is assumed about how loops are shared out. `Inv`
says that a monitoring role that has left `Run` has no loop left, that `main` waits only
when every role was started, and that a recorded error and the roles that failed agree
up to the goroutine that is about to record its own.

### `Fleet`

Assumptions: `UnitsAssumption` and, for the last three theorems, `DistinctNames`: no two
units share a name. It is a hypothesis of these theorems and not an assumption of the
module because nothing in `config.go` ensures it; without it they are false, which is what
`fleet_same_name` shows. `TypeCorrect` and `AlertsCorrect` need no such thing.

The invariant comes in two layers. `Base` speaks of what each goroutine owns: where it is in
its check, that the check under way is the last of its log, and that the state its alerts
have announced differs from its machine's exactly while an alert is on its way. `Shared`
adds the registry, per unit: its slot is its machine's status except between the check and
`Update`; its two rings hold the latest of the samples recorded so far; a snapshot under way
shows its state. A step of one unit keeps `Shared` of the others because it writes only
under its own name.

`UnitsAreMachines` needs no such name either: `Probe` is a step of `AlertMachine` on
the unit's own machine and log, every other step leaves both alone. The theorems about
`AlertMachine` therefore hold of every unit of a daemon, provided its configuration is one
that `ConfigsAssumption` admits, which `NeedsMet` shows of every daemon that starts.

A ring is described by `slice`. The lemmas on it say that `add` appends the new sample and
drops the oldest once the ring is full, whatever `head` is, so that a slice that was the
latest samples before is so after; the modular arithmetic of `head` stays in `Wrap` and
`SliceElements`.

### `PongServer` and `PingExchange`

Assumption: `PongServerAssumption`, in which a server always handles pings (`main.go`
registers the ping handler for every instance) and a send buffer holds at least one
response.

The invariant is one about a single connection and holds for whatever lines clients send:
the lines sent are cut into those answered, the one being answered, those in the reader and
those with the kernel, in this order (`Answered`, `Pending`), with nothing in between while
both ends are up (`Complete`); and a handler that answered a line that was too long is
leaving. Neither property is inductive: each needs where *all* lines are. The operations
are treated in lemmas about a record, so that `PingExchange` can use them where other
clients meet the same server and where a crash ends every connection at once.

`PingExchange` adds, per probe, that it has a connection of its own on which it sent nothing
or one ping with its own id, and that nobody has read from it before `ReadPong`. So what a
probe reads is what the server wrote for its ping, and a late pong stays with the
connection of the probe that gave up.

### `Startup`

Assumption: `StartupAssumption`, the shape of a file that `encoding/json` can decode into the
structs of `config.go` (`IsFile`): any number of profiles, channels and targets, any values,
unknown fields included.

The invariant `StartInv` only says that at each stage `cfg` is the file after the operators
of `Config` that came before, `dispatcher` and `active` what was built from it, and which
check a start that failed has failed. The work is in
the operators. Each has a lemma on what it does to every field and one that it keeps the
shape `IsConfig`. `NeedsMet` follows the parameters of each unit back to a validated
object, and the dispatcher to the validated and defaulted globals. `PrecedenceCorrect` follows a
field of a target through `decodeParams`, `inheritFrom` and `applyParamDefaults`
(`DueField`) and shows that the profile the code chooses is the one the documented order
comes to, if only one applies (`OneProfileDue`). `DisabledCorrect` compares two files: `Alike` holds of two
configurations that differ at most in roles that are switched off; decoding, resolving and
defaults preserve it and neither check can tell the two apart.

The proof of `NeedsMet` found `Fits` too weak as it first stood: it limited the intervals only,
while timeouts and the summary interval are multiplied in the same way.

### Only model-checked

- All liveness (`OnlyMailBlocks`, `UnitStops`, `IdleConnectionsEnd`, `RunReturns`,
  `HandlersEnd`, `ProbesEnd`, `DaemonStops`, `KeepsChecking`): liveness under fairness and
  `ENABLED` are beyond the prover used here.

No module declares a recursive operator.

## Findings

1. **Two targets with the same address share a slot** (`fleet_same_name`). `Register`
   is idempotent by name and nothing rejects a repeated address, so two independent
   machines overwrite each other's status and the snapshot logged for the change of
   one may show the state of the other.
2. **A silent SMTP server blocks a role for good** (`dispatcher_mail`). `Email.Notify`
   waits for its sender or for a cancellation; the sender has no deadline. The role
   makes no more checks and its later alerts reach no channel.
3. **A target with a profile gets nothing from `default_profile`**
   (`startup_default_profile`). `resolveProfileRefs` merges one profile, the target's
   own or else the role's. The repository's README gives the order "inline field on the
   target → its `profile` → the role's `default_profile`" for *each setting*, so a
   profile that lacks `notify` should take it from `default_profile`; the unit notifies
   nobody instead. (The README's tables, "applied to any target that omits `profile`",
   agree with the code.)

Noted while modelling, without a run of their own:

- `internal/monitor/registry.go:51`: `Register` leaves `Availability` at its zero value and
  `toWireSummary` sends it without `HasWindow`. Until the first tick, one whole interval
  after the start, a get-summary response says `availability_pct` 0 of a HEALTHY unit,
  where "An empty window reports 100" (`internal/monitor/window.go:47`); `registry.go:14`
  says of the field that it is "meaningful only when HasWindow".
- `internal/config/config.go:120`: `inheritFrom` takes an inline field that is zero or
  empty for absent, although "An inline field always overrides the profile"
  (`README.md:231`), the flag alone excepted: a target with `"notify": []` notifies the
  profile's channels, and an explicit `failure_threshold` of 0 becomes the profile's or 1
  where "validation still enforces >=1 when explicitly set". `Sets` of `Startup` follows
  the code: a zero value sets nothing.
- `cmd/healthd/main.go:56`, `:122` and `:181`: an interval, a timeout or a base delay of
  more than 292 years passes validation and wraps around; `RolesGetWhatTheyNeed` excludes it (`Fits` of `Startup`).
- `internal/notify/dispatcher.go:106`: the shift is clamped and the product is not, so a
  `base_delay_ms` of 8590 or more overflows from the 31st attempt on at the latest;
  `PausesNeverShrink` excludes it (`Fits` of `Dispatcher`). The pause before the first
  that overflows is at least 2^62 ns long, which is 146 years, so nobody will meet it,
  and the comment there ("clamping the shift so it never overflows") may be read as one
  on the shift alone.
- `internal/monitor/window.go:53`: 29 successes of 50 give 57.99999999999999, so a unit
  with a minimum of 58 recovers one success late (`RecoversWithinOne`).
- `internal/roles/tcp_listener.go:74`: `Run` does not wait for its handlers, so a role
  that has "stopped" may leave a request unanswered (`HandlersEnd` holds, but later).

## Not modelled

- What happens inside an HTTP probe and a speed test, and the rotation of the internet
  check over its sites: their outcome is all that the roles' properties tell apart.
  (That there is a site to rotate over is part of `RolesGetWhatTheyNeed`.)
- JSON: a line or a file decodes or not, an unknown field of a parameter object included.
- SMTP and TLS: a sender ends with a result, or never.
- Copies of an alert at its receiver: a webhook that received an alert but answered
  too late is called again. The code promises nothing here.
- Wording and layout of log lines, alerts and mails.

## Plan

Done: every component of the inventory has its module, and every safety property of a passing
run its proof. What is left, in this order:

1. `Fleet` on top of `AlertPath`: several units whose alerts are under way at once.
2. The rotation of the internet check, and what a site that is down for good does to its
   machine.
3. A refinement of `PongServer` by `PingExchange`, for the behaviours without a crash.
