------------------------ MODULE AlertMachine_proofs -------------------------
(***************************************************************************)
(* Proofs about AlertMachine for all configurations, window sizes,         *)
(* thresholds and numbers of checks.                                       *)
(***************************************************************************)
EXTENDS AlertMachine, FiniteSetTheorems, TLAPS

-----------------------------------------------------------------------------
(* Arithmetic of the circular buffer.                                      *)

\* The write position advances by one and wraps at the end of the buffer.
LEMMA Wrap ==
    ASSUME NEW s \in Nat \ {0}, NEW h \in 0..(s - 1)
    PROVE  (h + 1) % s = IF h + 1 = s THEN 0 ELSE h + 1
  BY SMT

(* The windows of size s, with counts of successes in `counts'.            *)
WindowOf(s, counts) ==
    [buf : [0..(s - 1) -> BOOLEAN], size : {s}, head : 0..s, len : 0..s,
     sum : counts]

\* What Add does to the positions and the buffer of a window that is not nil.
LEMMA AddFields ==
    ASSUME NEW s \in Nat \ {0}, NEW w \in WindowOf(s, 0..s),
           w.head < s, NEW success \in BOOLEAN
    PROVE  /\ Add(w, success) \in WindowOf(s, Int)
           /\ Add(w, success).size = s
           /\ Add(w, success).head = IF w.head + 1 = s THEN 0 ELSE w.head + 1
           /\ Add(w, success).len = IF w.len = s THEN s ELSE w.len + 1
           /\ Add(w, success).buf = [w.buf EXCEPT ![w.head] = success]
  <1>. USE DEF WindowOf
  <1>. DEFINE a == Add(w, success)
  <1>1. w.size = s /\ w.head \in 0..(s - 1)
    OBVIOUS
  <1>3. a.size = s
    BY <1>1 DEF Add
  <1>4. a.head = (w.head + 1) % s
    BY <1>1 DEF Add
  <1>5. a.len = IF w.len = s THEN s ELSE w.len + 1
    BY <1>1 DEF Add, Full
  <1>6. a.sum = w.sum - One(w.len = s /\ w.buf[w.head]) + One(success)
    BY <1>1 DEF Add, Full
  <1>7. a.buf = [w.buf EXCEPT ![w.head] = success]
    BY <1>1 DEF Add
  <1>8. (w.head + 1) % s = IF w.head + 1 = s THEN 0 ELSE w.head + 1
    BY <1>1, Wrap
  <1>9. One(w.len = s /\ w.buf[w.head]) \in 0..1 /\ One(success) \in 0..1
    BY DEF One
  <1>10. a \in WindowOf(s, Int)
    <2>1. a.head \in 0..s /\ a.len \in 0..s /\ a.sum \in Int
      BY <1>1, <1>4, <1>5, <1>6, <1>8, <1>9, SMTT(30)
    <2>2. a.buf \in [0..(s - 1) -> BOOLEAN]
      BY <1>1, <1>7
    <2>. QED
      BY <1>3, <2>1, <2>2 DEF Add
  <1>. QED
    BY <1>3, <1>4, <1>5, <1>6, <1>7, <1>8, <1>10

-----------------------------------------------------------------------------
(* The inductive invariant: besides the counters, the machine keeps the    *)
(* parameters it was built with, and its state is the verdict of the       *)
(* counters.                                                               *)
ParametersKept ==
    /\ sm.failureThreshold = IF cfg.FailureThreshold < 1 THEN 1
                                                        ELSE cfg.FailureThreshold
    /\ sm.trigger = cfg.Trigger
    /\ sm.minAvailability = cfg.MinAvailability

CountersDown(m) ==
    IF m.trigger = TriggerAvailability
    THEN Full(m.window) /\ Percent(m.window.sum, m.window.size) < m.minAvailability
    ELSE m.consecutive >= m.failureThreshold

StateIsVerdict ==
    sm.state = IF CountersDown(sm) THEN Unhealthy ELSE Healthy

IInv ==
    /\ TypeOK
    /\ ParametersKept
    /\ CountersMatchResults
    /\ StateIsVerdict

-----------------------------------------------------------------------------
(* The machine that count leaves behind, and the one after the transition. *)

\* count updates the two counters and the window and nothing else.
LEMMA CountFields ==
    ASSUME TypeOK, NEW success \in BOOLEAN, NEW t \in Nat
    PROVE  LET c == count(sm, success, t)
           IN  /\ c.failureThreshold = sm.failureThreshold
               /\ c.trigger = sm.trigger
               /\ c.minAvailability = sm.minAvailability
               /\ c.state = sm.state
               /\ c.consecutive = IF success THEN 0 ELSE sm.consecutive + 1
               /\ c.lastSuccess = IF success THEN t ELSE sm.lastSuccess
               /\ c.window = IF HasWindow(sm) THEN Add(sm.window, success)
                                              ELSE sm.window
  BY DEF TypeOK, count

(* The machines with a window in `windows'.                                *)
MachineOf(windows) ==
    [failureThreshold : Nat \ {0}, trigger : Trigger, minAvailability : Int,
     state : State, consecutive : Nat, window : windows, lastSuccess : Nat]

\* count leaves a machine behind.
LEMMA CountType ==
    ASSUME TypeOK, NEW success \in BOOLEAN, NEW t \in Nat
    PROVE  count(sm, success, t) \in MachineOf({count(sm, success, t).window})
  <1>. DEFINE c == count(sm, success, t)
  <1>1. c.consecutive \in Nat /\ c.lastSuccess \in Nat
    BY CountFields DEF TypeOK
  <1>. QED
    BY <1>1 DEF count, TypeOK, MachineOf

\* Enter sets the state and nothing else.
LEMMA EnterFields ==
    ASSUME NEW m, m \in MachineOf({m.window}), NEW s \in State, NEW e
    PROVE  /\ Enter(m, s, e).sm.state = s
           /\ Enter(m, s, e).event = e
  BY DEF Enter, MachineOf

\* A transition changes the state alone, to one of the two states.
LEMMA ObserveFields ==
    ASSUME TypeOK, NEW success \in BOOLEAN, NEW t \in Nat
    PROVE  LET c == count(sm, success, t)
               o == Observe(sm, success, t)
           IN  /\ \E s \in State : o.sm = [c EXCEPT !.state = s]
               /\ o.event \in Event
  <1>1. sm.state \in State
    BY DEF TypeOK
  <1>2. count(sm, success, t).state = sm.state
    BY CountFields
  <1>. QED
    BY <1>1, <1>2 DEF Observe, transitionAvailability, transitionConsecutive,
         Enter, State, Event, None, AlertUnhealthy, RecoveryHealthy, Healthy, Unhealthy

\* What a check does to the fields of the machine.
LEMMA CheckFields ==
    ASSUME TypeOK, NEW success \in BOOLEAN, Check(success)
    PROVE  /\ sm' \in MachineOf({sm'.window})
           /\ sm'.failureThreshold = sm.failureThreshold
           /\ sm'.trigger = sm.trigger
           /\ sm'.minAvailability = sm.minAvailability
           /\ sm'.consecutive = IF success THEN 0 ELSE sm.consecutive + 1
           /\ sm'.lastSuccess = IF success THEN Len(results) + 1
                                           ELSE sm.lastSuccess
           /\ sm'.window = IF HasWindow(sm) THEN Add(sm.window, success)
                                            ELSE sm.window
           /\ event' \in Event
  <1>. DEFINE t == Len(results) + 1
              c == count(sm, success, t)
  <1>1. t \in Nat
    BY DEF TypeOK
  <1>2. PICK s \in State : sm' = [c EXCEPT !.state = s]
    BY <1>1, ObserveFields DEF Check
  <1>3. event' \in Event
    BY <1>1, ObserveFields DEF Check
  <1>4. /\ c.failureThreshold = sm.failureThreshold
        /\ c.trigger = sm.trigger
        /\ c.minAvailability = sm.minAvailability
        /\ c.consecutive = IF success THEN 0 ELSE sm.consecutive + 1
        /\ c.lastSuccess = IF success THEN t ELSE sm.lastSuccess
        /\ c.window = IF HasWindow(sm) THEN Add(sm.window, success)
                                       ELSE sm.window
    BY <1>1, CountFields
  <1>5. c \in MachineOf({c.window})
    BY <1>1, CountType
  <1>6. /\ sm'.failureThreshold = c.failureThreshold
        /\ sm'.trigger = c.trigger
        /\ sm'.minAvailability = c.minAvailability
        /\ sm'.consecutive = c.consecutive
        /\ sm'.lastSuccess = c.lastSuccess
        /\ sm'.window = c.window
    BY <1>2, <1>5 DEF MachineOf
  <1>7. sm' \in MachineOf({sm'.window})
    BY <1>2, <1>5, <1>6 DEF MachineOf
  <1>. HIDE DEF c
  <1>. QED
    BY <1>3, <1>4, <1>6, <1>7

\* The log grows by the result of the check.
LEMMA LogGrows ==
    ASSUME TypeOK, NEW success \in BOOLEAN, Check(success)
    PROVE  /\ results' \in Seq(BOOLEAN)
           /\ Len(results) \in Nat
           /\ Len(results') = Len(results) + 1
           /\ results'[Len(results) + 1] = success
           /\ \A i \in 1..Len(results) : results'[i] = results[i]
  BY DEF TypeOK, Check

-----------------------------------------------------------------------------
(* Counting successes in a part of a log.                                  *)
Ones(r, lo, hi) == Cardinality({i \in lo..hi : r[i]})

\* A count of successes lies between 0 and the number of results counted.
LEMMA OnesBounds ==
    ASSUME NEW r, NEW lo \in Int, NEW hi \in Int, lo <= hi + 1
    PROVE  Ones(r, lo, hi) \in 0..(hi - lo + 1)
  <1>1. IsFiniteSet(lo..hi) /\ Cardinality(lo..hi) = hi - lo + 1
    BY FS_Interval
  <1>2. {i \in lo..hi : r[i]} \in SUBSET (lo..hi)
    OBVIOUS
  <1>3. /\ IsFiniteSet({i \in lo..hi : r[i]})
        /\ Cardinality({i \in lo..hi : r[i]}) <= Cardinality(lo..hi)
    BY <1>1, <1>2, FS_Subset
  <1>4. Cardinality({i \in lo..hi : r[i]}) \in Nat
    BY <1>3, FS_CardinalityType
  <1>. QED
    BY <1>1, <1>3, <1>4 DEF Ones

\* One more result at the end adds one if it is a success.
LEMMA OnesAppend ==
    ASSUME NEW lo \in Int, NEW hi \in Int, lo <= hi + 1, NEW r, NEW q,
           NEW b \in BOOLEAN, q[hi + 1] = b,
           \A i \in lo..hi : q[i] = r[i]
    PROVE  Ones(q, lo, hi + 1) = Ones(r, lo, hi) + One(b)
  <1>. DEFINE A == {i \in lo..hi : r[i]}
              B == {i \in lo..(hi + 1) : q[i]}
  <1>1. IsFiniteSet(A)
    <2>1. IsFiniteSet(lo..hi)
      BY FS_Interval
    <2>. QED
      BY <2>1, FS_Subset
  <1>2. Cardinality(A) \in Nat
    BY <1>1, FS_CardinalityType
  <1>3. CASE b
    <2>0. q[hi + 1]
      BY <1>3, Zenon
    <2>1. B = A \cup {hi + 1}
      <3>1. lo..(hi + 1) = (lo..hi) \cup {hi + 1}
        OBVIOUS
      <3>2. \A i : i \in B <=> i \in A \/ i = hi + 1
        BY <2>0, <3>1, Zenon
      <3>. QED
        BY <3>2, Zenon
    <2>2. hi + 1 \notin A
      OBVIOUS
    <2>3. Cardinality(A \cup {hi + 1}) = Cardinality(A) + 1
      BY <1>1, <2>2, FS_AddElement
    <2>. QED
      BY <1>3, <2>1, <2>3 DEF Ones, One
  <1>4. CASE ~b
    <2>1. B = A
      BY <1>4
    <2>. QED
      BY <1>2, <1>4, <2>1 DEF Ones, One
  <1>. QED
    BY <1>3, <1>4

\* Without its oldest result a log counts one less if that was a success.
LEMMA OnesDrop ==
    ASSUME NEW lo \in Int, NEW hi \in Int, lo <= hi, NEW r,
           r[lo] \in BOOLEAN
    PROVE  Ones(r, lo + 1, hi) = Ones(r, lo, hi) - One(r[lo])
  <1>. DEFINE A == {i \in lo..hi : r[i]}
              B == {i \in (lo + 1)..hi : r[i]}
  <1>1. IsFiniteSet(A)
    <2>1. IsFiniteSet(lo..hi)
      BY FS_Interval
    <2>. QED
      BY <2>1, FS_Subset
  <1>2. Cardinality(A) \in Nat
    BY <1>1, FS_CardinalityType
  <1>3. CASE r[lo]
    <2>1. B = A \ {lo}
      BY <1>3
    <2>2. lo \in A
      BY <1>3
    <2>3. Cardinality(A \ {lo}) = Cardinality(A) - 1
      BY <1>1, <2>2, FS_RemoveElement
    <2>4. One(r[lo]) = 1
      BY <1>3, Zenon DEF One
    <2>5. Ones(r, lo + 1, hi) = Cardinality(A) - 1 /\ Ones(r, lo, hi) = Cardinality(A)
      BY <2>1, <2>3, Zenon DEF Ones
    <2>. QED
      BY <2>4, <2>5
  <1>4. CASE ~r[lo]
    <2>1. B = A
      BY <1>4
    <2>2. One(r[lo]) = 0
      BY <1>4, Zenon DEF One
    <2>3. Ones(r, lo + 1, hi) = Cardinality(A) /\ Ones(r, lo, hi) = Cardinality(A)
      BY <2>1, Zenon DEF Ones
    <2>. QED
      BY <1>2, <2>2, <2>3
  <1>. QED
    BY <1>3, <1>4

-----------------------------------------------------------------------------
(* The window after a check.                                               *)

\* The buffer still holds the latest results, and sum still counts their
\* successes: what Add evicts is exactly the result that leaves the window.
LEMMA WindowStep ==
    ASSUME IInv, NEW success \in BOOLEAN, Check(success), HasWindow(sm)
    PROVE  /\ sm'.window \in WindowType
           /\ sm'.window.head < sm'.window.size
           /\ sm'.window.size = sm.window.size
           /\ sm'.window.sum =
                sm.window.sum - One(Full(sm.window) /\ sm.window.buf[sm.window.head])
                + One(success)
           /\ WindowHoldsLatest'
           /\ SumCountsSuccesses'
  <1>. DEFINE w == sm.window
              v == sm'.window
              n == Len(results)
              W == cfg.WindowSize
  <1>1. /\ W \in Nat \ {0} /\ w.size = W
        /\ w \in WindowOf(W, 0..W)
        /\ w.head \in 0..(W - 1) /\ w.head < W
        /\ w.len \in 0..W /\ w.sum \in 0..W
        /\ w.buf \in [0..(W - 1) -> BOOLEAN]
    BY ConfigsAssumption DEF IInv, TypeOK, WindowType, WindowOf, HasWindow,
                             IsNil, Config
  <1>2. v = Add(w, success)
    BY CheckFields DEF IInv
  <1>4. /\ n \in Nat /\ Len(results') = n + 1 /\ results'[n + 1] = success
        /\ \A i \in 1..n : results'[i] = results[i]
    BY LogGrows DEF IInv
  <1>5. /\ w.len = IF n < W THEN n ELSE W
        /\ \A age \in 1..w.len : w.buf[Slot(w, age)] = results[n + 1 - age]
        /\ w.sum = Ones(results, n - w.len + 1, n)
    BY <1>1 DEF IInv, CountersMatchResults, WindowHoldsLatest,
                SumCountsSuccesses, InWindow, Ones
  <1>. HIDE DEF w, v, n, W
  <1>3. /\ v \in WindowOf(W, Int)
        /\ v.size = W
        /\ v.head = IF w.head + 1 = W THEN 0 ELSE w.head + 1
        /\ v.len = IF w.len = W THEN W ELSE w.len + 1
        /\ v.sum = w.sum - One(w.len = W /\ w.buf[w.head]) + One(success)
        /\ v.buf = [w.buf EXCEPT ![w.head] = success]
    <2>1. /\ v \in WindowOf(W, Int)
          /\ v.size = W
          /\ v.head = IF w.head + 1 = W THEN 0 ELSE w.head + 1
          /\ v.len = IF w.len = W THEN W ELSE w.len + 1
          /\ v.buf = [w.buf EXCEPT ![w.head] = success]
      BY <1>1, <1>2, AddFields
    <2>2. v.sum = w.sum - One(w.len = W /\ w.buf[w.head]) + One(success)
      BY <1>1, <1>2 DEF Add, Full
    <2>. QED
      BY <2>1, <2>2, Zenon
  <1>6. v.len = IF n + 1 < W THEN n + 1 ELSE W
    BY <1>1, <1>3, <1>4, <1>5
  <1>7. ASSUME NEW age \in 1..v.len
        PROVE  v.buf[Slot(v, age)] = results'[n + 2 - age]
    <2>1. CASE age = 1
      <3>1. Slot(v, 1) = w.head
        <4>1. w.head \in 0..(W - 1) /\ v.size = W
          BY <1>1, <1>3
        <4>. QED
          BY <1>1, <1>3, <4>1 DEF Slot
      <3>2. v.buf[w.head] = success
        BY <1>1, <1>3
      <3>. QED
        BY <1>4, <2>1, <3>1, <3>2
    <2>2. CASE age # 1
      <3>1. age - 1 \in 1..w.len /\ age - 1 < W
        BY <1>1, <1>3, <1>5, <1>6, <2>2
      <3>2. /\ Slot(v, age) = Slot(w, age - 1)
            /\ Slot(w, age - 1) # w.head
            /\ Slot(w, age - 1) \in 0..(W - 1)
        <4>1. w.head \in 0..(W - 1) /\ v.size = W /\ w.size = W
          BY <1>1, <1>3
        <4>2. age \in Int /\ 2 <= age /\ age <= W
          BY <1>1, <1>5, <3>1
        <4>3. v.head = IF w.head + 1 = W THEN 0 ELSE w.head + 1
          BY <1>3, Zenon
        <4>. QED
          BY <1>1, <4>1, <4>2, <4>3, SMTT(30) DEF Slot
      <3>3. v.buf[Slot(v, age)] = w.buf[Slot(w, age - 1)]
        BY <1>1, <1>3, <3>2
      <3>4. w.buf[Slot(w, age - 1)] = results[n + 1 - (age - 1)]
        BY <1>5, <3>1
      <3>5. n + 1 - (age - 1) = n + 2 - age /\ n + 2 - age \in 1..n
        BY <1>1, <1>4, <1>5, <3>1
      <3>. QED
        BY <1>4, <3>3, <3>4, <3>5
    <2>. QED
      BY <2>1, <2>2
  <1>8. v.sum = Ones(results', (n + 1) - v.len + 1, n + 1)
    <2>1. CASE w.len < W
      <3>1. (n + 1) - v.len + 1 = n - w.len + 1 /\ n - w.len + 1 = 1
        BY <1>1, <1>3, <1>4, <1>5, <2>1
      <3>2. Ones(results', 1, n + 1) = Ones(results, 1, n) + One(success)
        BY <1>4, OnesAppend
      <3>3. One(w.len = W /\ w.buf[w.head]) = 0
        BY <1>1, <2>1 DEF One
      <3>4. w.sum \in Int /\ One(success) \in Int
        BY <1>1 DEF One
      <3>. QED
        BY <1>3, <1>5, <3>1, <3>2, <3>3, <3>4
    <2>2. CASE w.len = W
      <3>. DEFINE lo == n - W + 1
      <3>1. /\ lo \in Int /\ 1 <= lo /\ lo <= n /\ lo \in 1..n
            /\ (n + 1) - v.len + 1 = lo + 1
        <4>1. n >= W /\ n \in Nat /\ v.len = W
          BY <1>1, <1>3, <1>4, <1>5, <2>2
        <4>. QED
          BY <1>1, <4>1
      <3>2. w.buf[w.head] = results[lo]
        <4>1. W \in 1..w.len /\ Slot(w, W) = w.head /\ n + 1 - W = lo
          BY <1>1, <1>4, <2>2 DEF Slot
        <4>. QED
          BY <1>5, <4>1
      <3>3. results[lo] \in BOOLEAN
        BY <3>1 DEF IInv, TypeOK, n
      <3>4. Ones(results', lo, n + 1) = Ones(results, lo, n) + One(success)
        <4>1. \A i \in lo..n : results'[i] = results[i]
          BY <1>4, <3>1
        <4>2. lo <= n + 1 /\ n \in Int
          BY <1>4, <3>1
        <4>. QED
          BY <1>4, <3>1, <4>1, <4>2, OnesAppend, SMTT(30)
      <3>5. results'[lo] = results[lo]
        BY <1>4, <3>1
      <3>6. Ones(results', lo + 1, n + 1)
              = Ones(results', lo, n + 1) - One(results[lo])
        BY <1>4, <3>1, <3>3, <3>5, OnesDrop
      <3>7. One(w.len = W /\ w.buf[w.head]) = One(results[lo])
        <4>1. (w.len = W /\ w.buf[w.head]) = results[lo]
          BY <2>2, <3>2, <3>3
        <4>. QED
          BY <4>1, Zenon DEF One
      <3>8. w.sum = Ones(results, lo, n)
        BY <1>5, <2>2
      <3>9. w.sum \in Int /\ One(success) \in Int /\ One(results[lo]) \in Int
        BY <1>1 DEF One
      <3>. QED
        BY <1>3, <3>1, <3>4, <3>6, <3>7, <3>8, <3>9
    <2>. QED
      BY <1>1, <2>1, <2>2
  <1>9. v.sum \in 0..W
    <2>1. v.sum \in 0..v.len
      BY <1>4, <1>6, <1>8, <1>1, OnesBounds
    <2>. QED
      BY <1>3, <2>1, <1>1
  <1>10. v \in WindowType /\ v.head < v.size
    BY <1>1, <1>3, <1>9 DEF WindowType, WindowOf, W
  <1>11. WindowHoldsLatest'
    BY <1>3, <1>4, <1>6, <1>7 DEF WindowHoldsLatest, v, n
  <1>12. SumCountsSuccesses'
    BY <1>4, <1>8 DEF SumCountsSuccesses, InWindow, Ones, v, n
  <1>. QED
    BY <1>1, <1>3, <1>10, <1>11, <1>12 DEF Full, v, w

-----------------------------------------------------------------------------
(* The verdict after a check.                                              *)

\* A machine with the availability trigger has a window.
LEMMA AvailabilityHasWindow ==
    ASSUME IInv, sm.trigger = TriggerAvailability
    PROVE  HasWindow(sm) /\ cfg.WindowSize \in Nat \ {0}
  <1>1. cfg \in Configs /\ cfg.Trigger = TriggerAvailability
    BY DEF IInv, TypeOK, ParametersKept
  <1>2. cfg.WindowSize > 0 /\ cfg.WindowSize \in Nat
    BY <1>1, ConfigsAssumption DEF Config
  <1>3. sm.window.size = cfg.WindowSize
    BY DEF IInv, TypeOK, WindowType
  <1>. QED
    BY <1>2, <1>3 DEF HasWindow, IsNil

\* Whichever trigger decides, the state after a check is the verdict of the
\* counters after it, and the event marks the change.
LEMMA VerdictStep ==
    ASSUME IInv, NEW success \in BOOLEAN, Check(success)
    PROVE  /\ StateIsVerdict'
           /\ event' = CASE sm.state = Healthy /\ sm'.state = Unhealthy
                              -> AlertUnhealthy
                        [] sm.state = Unhealthy /\ sm'.state = Healthy
                              -> RecoveryHealthy
                        [] OTHER -> None
  <1>. DEFINE c == count(sm, success, Len(results) + 1)
  <1>1. /\ sm.state \in State /\ sm.failureThreshold \in Nat \ {0}
        /\ sm.consecutive \in Nat /\ sm.trigger \in Trigger
        /\ sm.state = IF CountersDown(sm) THEN Unhealthy ELSE Healthy
        /\ Len(results) + 1 \in Nat /\ TypeOK
    BY DEF IInv, TypeOK, StateIsVerdict
  <1>2. /\ c.failureThreshold = sm.failureThreshold
        /\ c.trigger = sm.trigger
        /\ c.minAvailability = sm.minAvailability
        /\ c.state = sm.state
        /\ c.consecutive = IF success THEN 0 ELSE sm.consecutive + 1
        /\ c.window = IF HasWindow(sm) THEN Add(sm.window, success)
                                       ELSE sm.window
    BY <1>1, CountFields
  <1>3. /\ sm'.failureThreshold = c.failureThreshold
        /\ sm'.trigger = c.trigger
        /\ sm'.minAvailability = c.minAvailability
        /\ sm'.consecutive = c.consecutive
        /\ sm'.window = c.window
        /\ sm'.state \in State
    BY <1>1, <1>2, CheckFields DEF MachineOf
  <1>e. ASSUME NEW s \in State, NEW e
        PROVE  Enter(c, s, e).sm.state = s /\ Enter(c, s, e).event = e
    <2>1. c \in MachineOf({c.window})
      BY <1>1, CountType
    <2>. HIDE DEF c
    <2>. QED
      BY <2>1, EnterFields
  <1>4. CASE sm.trigger = TriggerAvailability
    <2>1. HasWindow(sm) /\ cfg.WindowSize \in Nat \ {0}
      BY <1>4, AvailabilityHasWindow
    <2>2. /\ c.window \in WindowType /\ c.window.size = sm.window.size
          /\ c.window.size = cfg.WindowSize
      BY <1>3, <2>1, WindowStep DEF WindowType
    <2>3. Full(sm.window) => Full(c.window)
      <3>1. Full(sm.window) => Len(results) >= sm.window.size
        BY <1>1, <2>1 DEF IInv, CountersMatchResults, WindowHoldsLatest, Full,
                          TypeOK, WindowType
      <3>2. /\ c.window.len = IF Len(results) + 1 < c.window.size
                              THEN Len(results) + 1 ELSE c.window.size
        BY <1>1, <1>3, <2>1, <2>2, WindowStep, LogGrows
           DEF WindowHoldsLatest, HasWindow, IsNil
      <3>. QED
        BY <1>1, <2>2, <2>1, <3>1, <3>2 DEF Full
    <2>4. HasWindow(c)
      BY <2>1, <2>2 DEF HasWindow, IsNil
    <2>5. Full(c.window) => Availability(c.window)
                              = Percent(c.window.sum, c.window.size)
      BY <2>1, <2>2 DEF Full, Availability
    <2>6. CountersDown(sm') <=>
            Full(c.window) /\ Percent(c.window.sum, c.window.size) < c.minAvailability
      BY <1>2, <1>3, <1>4 DEF CountersDown
    <2>7. sm.state = Unhealthy => Full(sm.window)
      BY <1>1, <1>4 DEF CountersDown, Unhealthy, Healthy
    <2>8. Full(c.window) => Percent(c.window.sum, c.window.size) \in Int
      <3>1. c.window.sum \in 0..cfg.WindowSize
        BY <2>2 DEF WindowType
      <3>2. cfg \in Configs /\ cfg.WindowSize \in 1..cfg.WindowSize
        BY <1>1, <2>1 DEF TypeOK
      <3>. QED
        BY <2>2, <3>1, <3>2, PercentAssumption
    <2>9. c.minAvailability \in Int
      BY <1>1, <1>2 DEF TypeOK
    <2>10. sm' = transitionAvailability(c).sm /\ event' = transitionAvailability(c).event
      BY <1>4 DEF Check, Observe
    <2>. HIDE DEF c
    <2>11. CASE Full(c.window) /\ c.state = Healthy
                  /\ Percent(c.window.sum, c.window.size) < c.minAvailability
      <3>1. transitionAvailability(c) = Enter(c, Unhealthy, AlertUnhealthy)
        BY <2>4, <2>5, <2>11 DEF transitionAvailability, Healthy, Unhealthy
      <3>2. sm'.state = Unhealthy /\ event' = AlertUnhealthy
        BY <1>1, <1>2, <1>e, <2>10, <3>1 DEF State
      <3>. QED
        BY <1>2, <2>6, <2>11, <3>2 DEF StateIsVerdict, Healthy, Unhealthy
    <2>12. CASE Full(c.window) /\ c.state = Unhealthy
                  /\ Percent(c.window.sum, c.window.size) >= c.minAvailability
      <3>1. transitionAvailability(c) = Enter(c, Healthy, RecoveryHealthy)
        BY <2>4, <2>5, <2>12 DEF transitionAvailability, Healthy, Unhealthy
      <3>2. sm'.state = Healthy /\ event' = RecoveryHealthy
        BY <1>1, <1>2, <1>e, <2>10, <3>1 DEF State
      <3>3. ~CountersDown(sm')
        BY <2>6, <2>8, <2>9, <2>12
      <3>. QED
        BY <1>2, <2>12, <3>2, <3>3 DEF StateIsVerdict, Healthy, Unhealthy
    <2>13. CASE /\ ~(Full(c.window) /\ c.state = Healthy
                     /\ Percent(c.window.sum, c.window.size) < c.minAvailability)
                /\ ~(Full(c.window) /\ c.state = Unhealthy
                     /\ Percent(c.window.sum, c.window.size) >= c.minAvailability)
      <3>1. transitionAvailability(c) = Enter(c, c.state, None)
        BY <2>4, <2>5, <2>13 DEF transitionAvailability
      <3>2. sm'.state = sm.state /\ event' = None
        BY <1>1, <1>2, <1>e, <2>10, <3>1 DEF State
      <3>3. sm.state = Unhealthy <=> CountersDown(sm')
        BY <1>1, <1>2, <2>3, <2>6, <2>7, <2>8, <2>9, <2>13
           DEF State, Healthy, Unhealthy
      <3>. QED
        BY <1>1, <3>2, <3>3 DEF StateIsVerdict, State, Healthy, Unhealthy
    <2>. QED
      BY <2>11, <2>12, <2>13
  <1>5. CASE sm.trigger = TriggerConsecutive
    <2>1. /\ sm' = transitionConsecutive(c, success).sm
          /\ event' = transitionConsecutive(c, success).event
      BY <1>5 DEF Check, Observe, TriggerConsecutive, TriggerAvailability
    <2>2. CountersDown(sm') <=> c.consecutive >= c.failureThreshold
      BY <1>2, <1>3, <1>5 DEF CountersDown, TriggerConsecutive, TriggerAvailability
    <2>3. sm.state = Unhealthy <=> sm.consecutive >= sm.failureThreshold
      BY <1>1, <1>5 DEF CountersDown, TriggerConsecutive, TriggerAvailability,
                        Healthy, Unhealthy
    <2>. HIDE DEF c
    <2>4. CASE success /\ c.state = Unhealthy
      <3>1. sm'.state = Healthy /\ event' = RecoveryHealthy
        BY <1>e, <2>1, <2>4 DEF transitionConsecutive, State
      <3>. QED
        BY <1>1, <1>2, <2>2, <2>4, <3>1 DEF StateIsVerdict, Healthy, Unhealthy
    <2>5. CASE ~success /\ c.state = Healthy /\ c.consecutive >= c.failureThreshold
      <3>1. sm'.state = Unhealthy /\ event' = AlertUnhealthy
        BY <1>e, <2>1, <2>5 DEF transitionConsecutive, State
      <3>. QED
        BY <1>1, <1>2, <2>2, <2>5, <3>1 DEF StateIsVerdict, Healthy, Unhealthy
    <2>6. CASE /\ ~(success /\ c.state = Unhealthy)
               /\ ~(~success /\ c.state = Healthy
                      /\ c.consecutive >= c.failureThreshold)
      <3>1. sm'.state = sm.state /\ event' = None
        BY <1>1, <1>2, <1>e, <2>1, <2>6 DEF transitionConsecutive
      <3>2. sm.state = Unhealthy <=> CountersDown(sm')
        BY <1>1, <1>2, <2>2, <2>3, <2>6 DEF State, Healthy, Unhealthy
      <3>. QED
        BY <1>1, <3>1, <3>2 DEF StateIsVerdict, State, Healthy, Unhealthy
    <2>. QED
      BY <2>4, <2>5, <2>6
  <1>. QED
    BY <1>1, <1>4, <1>5 DEF Trigger

-----------------------------------------------------------------------------
(* The invariant is inductive.                                             *)

\* A new machine satisfies the invariant.
LEMMA InitIInv == Init => IInv
  <1>. SUFFICES ASSUME Init PROVE IInv
    OBVIOUS
  <1>1. cfg \in Config
    BY ConfigsAssumption DEF Init
  <1>2. sm = NewWithConfig(cfg) /\ event = None /\ results = <<>>
    BY DEF Init
  <1>3. TypeOK
    BY <1>1, <1>2 DEF Init, TypeOK, NewWithConfig, newWindow, WindowType, Config,
         HasWindow, IsNil, State, Event, ZeroTime
  <1>4. ParametersKept
    BY <1>2 DEF ParametersKept, NewWithConfig
  <1>5. CountersMatchResults
    <2>1. sm.window.len = 0 /\ sm.window.sum = 0 /\ sm.window.size \in Nat
      BY <1>1, <1>2 DEF NewWithConfig, newWindow, Config
    <2>2. Len(results) = 0
      BY <1>2
    <2>3. WindowHoldsLatest
      BY <2>1, <2>2 DEF WindowHoldsLatest, HasWindow, IsNil
    <2>4. SumCountsSuccesses
      <3>1. {i \in InWindow : results[i]} = {}
        BY <2>1, <2>2 DEF InWindow
      <3>. QED
        BY <2>1, <3>1, FS_EmptySet DEF SumCountsSuccesses
    <2>5. TrailingFailures /\ LastSuccessIsLatest
      BY <1>2, <2>2 DEF TrailingFailures, LastSuccessIsLatest, NewWithConfig, ZeroTime
    <2>. QED
      BY <2>3, <2>4, <2>5 DEF CountersMatchResults
  <1>6. StateIsVerdict
    <2>1. sm.trigger = TriggerAvailability => cfg.WindowSize > 0
      BY <1>2, ConfigsAssumption DEF Init, NewWithConfig
    <2>2. ~CountersDown(sm)
      BY <1>1, <1>2, <2>1 DEF CountersDown, NewWithConfig, newWindow, Full, Config
    <2>. QED
      BY <1>2, <2>2 DEF StateIsVerdict, NewWithConfig
  <1>. QED
    BY <1>3, <1>4, <1>5, <1>6 DEF IInv

\* A check preserves the invariant.
LEMMA CheckIInv ==
    ASSUME IInv, NEW success \in BOOLEAN, Check(success)
    PROVE  IInv'
  <1>. DEFINE n == Len(results)
  <1>1. TypeOK /\ cfg' = cfg
    BY DEF IInv, Check
  <1>2. /\ sm' \in MachineOf({sm'.window}) /\ event' \in Event
        /\ sm'.failureThreshold = sm.failureThreshold
        /\ sm'.trigger = sm.trigger
        /\ sm'.minAvailability = sm.minAvailability
        /\ sm'.consecutive = IF success THEN 0 ELSE sm.consecutive + 1
        /\ sm'.lastSuccess = IF success THEN n + 1 ELSE sm.lastSuccess
        /\ ~HasWindow(sm) => sm'.window = sm.window
    BY <1>1, CheckFields
  <1>3. /\ n \in Nat /\ results' \in Seq(BOOLEAN) /\ Len(results') = n + 1
        /\ results'[n + 1] = success
        /\ \A i \in 1..n : results'[i] = results[i]
    BY <1>1, LogGrows
  <1>4. /\ sm'.window \in WindowType /\ sm'.window.size = sm.window.size
        /\ HasWindow(sm) => sm'.window.head < sm'.window.size
    <2>1. CASE HasWindow(sm)
      BY <2>1, WindowStep
    <2>2. CASE ~HasWindow(sm)
      BY <1>1, <1>2, <2>2 DEF TypeOK
    <2>. QED
      BY <2>1, <2>2
  <1>5. HasWindow(sm') <=> HasWindow(sm)
    BY <1>4 DEF HasWindow, IsNil
  <1>6. TypeOK'
    <2>1. WindowType' = WindowType
      BY <1>1 DEF WindowType
    <2>. QED
      BY <1>1, <1>2, <1>3, <1>4, <1>5, <2>1 DEF TypeOK, MachineOf
  <1>7. ParametersKept'
    BY <1>1, <1>2 DEF IInv, ParametersKept
  <1>8. CountersMatchResults'
    <2>1. WindowHoldsLatest' /\ SumCountsSuccesses'
      <3>1. CASE HasWindow(sm)
        BY <3>1, WindowStep
      <3>2. CASE ~HasWindow(sm)
        BY <1>5, <3>2 DEF WindowHoldsLatest, SumCountsSuccesses
      <3>. QED
        BY <3>1, <3>2
    <2>2. /\ sm.consecutive \in Nat /\ sm.consecutive <= n
          /\ \A i \in (n - sm.consecutive + 1)..n : ~results[i]
          /\ sm.consecutive < n => results[n - sm.consecutive]
          /\ sm.lastSuccess = n - sm.consecutive
      BY DEF IInv, TypeOK, CountersMatchResults, TrailingFailures,
             LastSuccessIsLatest
    <2>3. TrailingFailures' /\ LastSuccessIsLatest'
      <3>1. CASE success
        <4>1. sm'.consecutive = 0 /\ sm'.lastSuccess = n + 1 /\ results'[n + 1]
          BY <1>2, <1>3, <3>1
        <4>. QED
          BY <1>3, <4>1 DEF TrailingFailures, LastSuccessIsLatest
      <3>2. CASE ~success
        <4>1. /\ sm'.consecutive = sm.consecutive + 1
              /\ sm'.lastSuccess = sm.lastSuccess /\ ~results'[n + 1]
          BY <1>2, <1>3, <3>2
        <4>2. \A i \in (n - sm.consecutive + 1)..(n + 1) : ~results'[i]
          BY <1>3, <2>2, <4>1
        <4>3. sm.consecutive < n => results'[n - sm.consecutive]
          BY <1>3, <2>2
        <4>. QED
          BY <1>3, <2>2, <4>1, <4>2, <4>3 DEF TrailingFailures, LastSuccessIsLatest
      <3>. QED
        BY <3>1, <3>2
    <2>. QED
      BY <2>1, <2>3 DEF CountersMatchResults
  <1>9. StateIsVerdict'
    BY VerdictStep
  <1>. QED
    BY <1>6, <1>7, <1>8, <1>9 DEF IInv

\* IInv holds in every reachable state.
THEOREM Invariance == Spec => []IInv
  <1>1. IInv /\ [Next]_vars => IInv'
    <2>. SUFFICES ASSUME IInv, [Next]_vars PROVE IInv'
      OBVIOUS
    <2>1. CASE Next
      BY <2>1, CheckIInv DEF Next
    <2>2. CASE UNCHANGED vars
      BY <2>2 DEF vars, IInv, TypeOK, WindowType, HasWindow, IsNil, ParametersKept,
           CountersMatchResults, WindowHoldsLatest, SumCountsSuccesses, InWindow,
           TrailingFailures, LastSuccessIsLatest, StateIsVerdict, CountersDown, Full
    <2>. QED
      BY <2>1, <2>2
  <1>. QED
    BY <1>1, InitIInv, PTL DEF Spec

\* Type correctness: for every window size Add reads and writes its buffer
\* within bounds and the count of successes stays between 0 and that size.
THEOREM TypeCorrect == Spec => []TypeOK
  <1>1. IInv => TypeOK
    BY DEF IInv
  <1>. QED
    BY <1>1, Invariance, PTL

\* The incremental counters of Observe and Add always equal what they stand
\* for, recomputed from the whole log of results.
THEOREM CountersCorrect == Spec => []CountersMatchResults
  <1>1. IInv => CountersMatchResults
    BY DEF IInv
  <1>. QED
    BY <1>1, Invariance, PTL

-----------------------------------------------------------------------------
(* What the events say.                                                    *)

\* A full window stays full, and both percentages are comparable.
LEMMA FullStays ==
    ASSUME IInv, NEW success \in BOOLEAN, Check(success),
           sm.trigger = TriggerAvailability
    PROVE  /\ Full(sm.window) => Full(sm'.window)
           /\ Percent(sm.window.sum, sm.window.size) \in Int
           /\ Percent(sm'.window.sum, sm'.window.size) \in Int
  <1>1. /\ cfg.WindowSize \in 1..cfg.WindowSize /\ cfg \in Configs
        /\ HasWindow(sm)
    BY AvailabilityHasWindow DEF IInv, TypeOK
  <1>2. /\ sm.window.size = cfg.WindowSize
        /\ sm'.window.size = cfg.WindowSize
        /\ sm.window.sum \in 0..cfg.WindowSize
        /\ sm'.window.sum \in 0..cfg.WindowSize
    BY <1>1, WindowStep DEF IInv, TypeOK, WindowType
  <1>3. TypeOK /\ IInv' /\ HasWindow(sm')
    BY <1>1, <1>2, CheckIInv DEF IInv, HasWindow, IsNil
  <1>4. Len(results) \in Nat /\ Len(results') = Len(results) + 1
    BY <1>3, LogGrows
  <1>5. Full(sm.window) => Len(results) >= sm.window.size
    BY <1>1, <1>2, <1>4 DEF IInv, CountersMatchResults, WindowHoldsLatest, Full
  <1>6. Full(sm.window) => Full(sm'.window)
    BY <1>1, <1>2, <1>3, <1>4, <1>5
       DEF IInv, CountersMatchResults, WindowHoldsLatest, Full
  <1>. QED
    BY <1>1, <1>2, <1>6, PercentAssumption

\* With a full window a failure never raises the availability and a success
\* never lowers it.
LEMMA AvailabilityMoves ==
    ASSUME IInv, NEW success \in BOOLEAN, Check(success),
           sm.trigger = TriggerAvailability, Full(sm.window)
    PROVE  /\ ~success => Percent(sm'.window.sum, sm'.window.size)
                             <= Percent(sm.window.sum, sm.window.size)
           /\ success => Percent(sm'.window.sum, sm'.window.size)
                             >= Percent(sm.window.sum, sm.window.size)
  <1>. DEFINE W == cfg.WindowSize
              p == sm.window.sum
              q == sm'.window.sum
  <1>1. HasWindow(sm) /\ W \in Nat \ {0}
    BY AvailabilityHasWindow
  <1>2. /\ sm'.window \in WindowType /\ sm'.window.size = sm.window.size
        /\ q = p - One(Full(sm.window) /\ sm.window.buf[sm.window.head])
                + One(success)
    BY <1>1, WindowStep
  <1>3. sm.window.size = W /\ p \in 0..W /\ q \in 0..W
    BY <1>2 DEF IInv, TypeOK, WindowType
  <1>4. One(Full(sm.window) /\ sm.window.buf[sm.window.head]) \in 0..1
    BY DEF One
  <1>5. (~success => q <= p) /\ (success => q >= p)
    <2>1. (~success => One(success) = 0) /\ (success => One(success) = 1)
      BY DEF One
    <2>. HIDE DEF p, q
    <2>. QED
      BY <1>2, <1>3, <1>4, <2>1
  <1>6. cfg \in Configs /\ W \in 1..cfg.WindowSize
    BY <1>1 DEF IInv, TypeOK
  <1>7. \A s \in 0..W : \A r \in 0..s : Percent(r, W) <= Percent(s, W)
    BY <1>6, PercentAssumption
  <1>. QED
    BY <1>1, <1>2, <1>3, <1>5, <1>7

\* The counter that goes out with an event: a recovery has 0 failures in a
\* row, whichever trigger caused it, and an alert of the consecutive trigger
\* exactly the threshold.
THEOREM PayloadCorrect == Spec => []EventPayload
  <1>1. Init => EventPayload
    BY DEF Init, EventPayload, None, RecoveryHealthy, AlertUnhealthy
  <1>2. IInv /\ EventPayload /\ [Next]_vars => EventPayload'
    <2>. SUFFICES ASSUME IInv, EventPayload, [Next]_vars PROVE EventPayload'
      OBVIOUS
    <2>1. ASSUME NEW success \in BOOLEAN, Check(success)
          PROVE  EventPayload'
      <3>1. /\ IInv' /\ TypeOK
            /\ sm'.trigger = sm.trigger
            /\ sm'.failureThreshold = sm.failureThreshold
            /\ sm'.minAvailability = sm.minAvailability
            /\ sm'.consecutive = IF success THEN 0 ELSE sm.consecutive + 1
        BY <2>1, CheckIInv, CheckFields DEF IInv
      <3>2. /\ event' = RecoveryHealthy =>
                  sm.state = Unhealthy /\ sm'.state = Healthy
            /\ event' = AlertUnhealthy =>
                  sm.state = Healthy /\ sm'.state = Unhealthy
        BY <2>1, VerdictStep DEF None, RecoveryHealthy, AlertUnhealthy
      <3>3. /\ sm.state = Unhealthy <=> CountersDown(sm)
            /\ sm'.state = Unhealthy <=> CountersDown(sm')
        BY <3>1 DEF IInv, StateIsVerdict, Healthy, Unhealthy
      <3>4. sm.consecutive \in Nat /\ sm.failureThreshold \in Nat \ {0}
        BY <3>1 DEF TypeOK
      <3>5. ASSUME event' = RecoveryHealthy PROVE success
        <4>1. CASE sm.trigger = TriggerAvailability
          <5>1. CountersDown(sm) /\ ~CountersDown(sm')
            BY <3>2, <3>3, <3>5 DEF Healthy, Unhealthy
          <5>2. Full(sm.window)
            BY <4>1, <5>1 DEF CountersDown
          <5>3. Full(sm'.window)
            BY <2>1, <4>1, <5>2, FullStays
          <5>4. /\ Percent(sm.window.sum, sm.window.size) < sm.minAvailability
                /\ ~(Percent(sm'.window.sum, sm'.window.size) < sm.minAvailability)
            BY <3>1, <4>1, <5>1, <5>3 DEF CountersDown
          <5>5. /\ Percent(sm.window.sum, sm.window.size) \in Int
                /\ Percent(sm'.window.sum, sm'.window.size) \in Int
                /\ sm.minAvailability \in Int
            BY <2>1, <3>1, <4>1, FullStays DEF TypeOK
          <5>. QED
            BY <2>1, <4>1, <5>2, <5>4, <5>5, AvailabilityMoves
        <4>2. CASE sm.trigger # TriggerAvailability
          BY <3>1, <3>2, <3>3, <3>4, <3>5, <4>2 DEF CountersDown, Healthy, Unhealthy
        <4>. QED
          BY <4>1, <4>2
      <3>6. ASSUME event' = AlertUnhealthy, sm'.trigger = TriggerConsecutive
            PROVE  sm'.consecutive = sm'.failureThreshold
        BY <3>1, <3>2, <3>3, <3>4, <3>6
           DEF CountersDown, TriggerConsecutive, TriggerAvailability, Healthy, Unhealthy
      <3>. QED
        BY <3>1, <3>5, <3>6 DEF EventPayload
    <2>2. CASE UNCHANGED vars
      BY <2>2 DEF vars, EventPayload
    <2>. QED
      BY <2>1, <2>2 DEF Next
  <1>. QED
    BY <1>1, <1>2, Invariance, PTL DEF Spec

\* Only the check that fills the window can succeed and still raise an alert.
THEOREM AlertCause == Spec => []AlertOnFailureOrFill
  <1>1. Init => AlertOnFailureOrFill
    BY DEF Init, AlertOnFailureOrFill, None, AlertUnhealthy
  <1>2. IInv /\ AlertOnFailureOrFill /\ [Next]_vars => AlertOnFailureOrFill'
    <2>. SUFFICES ASSUME IInv, AlertOnFailureOrFill, [Next]_vars
                  PROVE  AlertOnFailureOrFill'
      OBVIOUS
    <2>1. ASSUME NEW success \in BOOLEAN, Check(success), event' = AlertUnhealthy,
                 success
          PROVE  sm'.trigger = TriggerAvailability
                   /\ Len(results') = sm'.window.size
      <3>1. /\ IInv' /\ TypeOK
            /\ sm'.trigger = sm.trigger
            /\ sm'.failureThreshold = sm.failureThreshold
            /\ sm'.minAvailability = sm.minAvailability
            /\ sm'.consecutive = 0
        BY <2>1, CheckIInv, CheckFields DEF IInv
      <3>2. ~CountersDown(sm) /\ CountersDown(sm')
        <4>1. sm.state = Healthy /\ sm'.state = Unhealthy
          BY <2>1, VerdictStep DEF None, RecoveryHealthy, AlertUnhealthy
        <4>. QED
          BY <3>1, <4>1 DEF IInv, StateIsVerdict, Healthy, Unhealthy
      <3>3. sm'.trigger = TriggerAvailability
        BY <3>1, <3>2 DEF CountersDown, TypeOK
      <3>4. /\ Full(sm'.window)
            /\ Percent(sm'.window.sum, sm'.window.size) < sm.minAvailability
        BY <3>1, <3>2, <3>3 DEF CountersDown
      <3>5. ~Full(sm.window)
        <4>. SUFFICES ASSUME Full(sm.window) PROVE FALSE
          OBVIOUS
        <4>1. /\ Percent(sm.window.sum, sm.window.size) \in Int
              /\ Percent(sm'.window.sum, sm'.window.size) \in Int
              /\ sm.minAvailability \in Int
          BY <2>1, <3>1, <3>3, FullStays DEF TypeOK
        <4>2. ~(Percent(sm.window.sum, sm.window.size) < sm.minAvailability)
          BY <3>1, <3>2, <3>3 DEF CountersDown
        <4>3. Percent(sm'.window.sum, sm'.window.size)
                >= Percent(sm.window.sum, sm.window.size)
          BY <2>1, <3>1, <3>3, AvailabilityMoves
        <4>. QED
          BY <3>4, <4>1, <4>2, <4>3
      <3>6. /\ HasWindow(sm) /\ sm'.window.size = sm.window.size
            /\ sm.window.size \in Nat /\ HasWindow(sm')
        BY <2>1, <3>1, <3>3, AvailabilityHasWindow, WindowStep
           DEF TypeOK, WindowType, HasWindow, IsNil
      <3>7. Len(results) \in Nat /\ Len(results') = Len(results) + 1
        BY <2>1, <3>1, LogGrows
      <3>8. Len(results) < sm.window.size
        BY <3>5, <3>6, <3>7 DEF IInv, CountersMatchResults, WindowHoldsLatest, Full
      <3>9. Len(results') >= sm'.window.size
        BY <3>1, <3>4, <3>6, <3>7
           DEF IInv, CountersMatchResults, WindowHoldsLatest, Full
      <3>. QED
        BY <3>3, <3>6, <3>7, <3>8, <3>9
    <2>2. ASSUME NEW success \in BOOLEAN, Check(success)
          PROVE  AlertOnFailureOrFill'
      <3>1. results'[Len(results')] = success
        BY <2>2, LogGrows DEF IInv
      <3>. QED
        BY <2>1, <2>2, <3>1 DEF AlertOnFailureOrFill
    <2>3. CASE UNCHANGED vars
      BY <2>3 DEF vars, AlertOnFailureOrFill
    <2>. QED
      BY <2>2, <2>3 DEF Next
  <1>. QED
    BY <1>1, <1>2, Invariance, PTL DEF Spec

-----------------------------------------------------------------------------
(* Refinement: the verdict of the counters is the verdict on the log.      *)

\* The counters decide as the policy does on the whole log.
LEMMA CountersJudgeLog ==
    ASSUME IInv
    PROVE  sm.state = Policy!Verdict(cfg, results)
  <1>. DEFINE n == Len(results)
  <1>1. /\ n \in Nat /\ sm.consecutive \in Nat
        /\ sm.failureThreshold \in Nat \ {0} /\ results \in Seq(BOOLEAN)
        /\ cfg \in Configs /\ sm.trigger \in Trigger
    BY DEF IInv, TypeOK
  <1>2. /\ sm.failureThreshold = IF cfg.FailureThreshold < 1 THEN 1
                                                           ELSE cfg.FailureThreshold
        /\ sm.trigger = cfg.Trigger /\ sm.minAvailability = cfg.MinAvailability
    BY DEF IInv, ParametersKept
  <1>3. CASE sm.trigger = TriggerAvailability
    <2>1. /\ HasWindow(sm) /\ cfg.WindowSize \in Nat \ {0}
          /\ sm.window.size = cfg.WindowSize
      BY <1>3, AvailabilityHasWindow DEF IInv, TypeOK, WindowType
    <2>2. /\ sm.window.len = IF n < cfg.WindowSize THEN n ELSE cfg.WindowSize
          /\ sm.window.sum = Ones(results, n - sm.window.len + 1, n)
      BY <2>1 DEF IInv, CountersMatchResults, WindowHoldsLatest,
                  SumCountsSuccesses, InWindow, Ones
    <2>3. Full(sm.window) <=> n >= cfg.WindowSize
      BY <1>1, <2>1, <2>2 DEF Full
    <2>4. Full(sm.window) =>
            sm.window.sum = Policy!Successes(results, cfg.WindowSize)
      <3>1. Policy!Successes(results, cfg.WindowSize)
              = Ones(results, n - cfg.WindowSize + 1, n)
        BY DEF Policy!Successes, Policy!Last, Ones, Policy!Cardinality, Cardinality
      <3>2. Full(sm.window) => sm.window.len = cfg.WindowSize
        BY <2>1 DEF Full
      <3>. QED
        BY <2>2, <3>1, <3>2
    <2>5. CountersDown(sm) <=> Policy!BelowMinimum(cfg, results)
      BY <1>2, <1>3, <2>1, <2>3, <2>4 DEF CountersDown, Policy!BelowMinimum
    <2>6. Policy!Down(cfg, results) <=> Policy!BelowMinimum(cfg, results)
      BY <1>2, <1>3 DEF Policy!Down, TriggerAvailability
    <2>. QED
      BY <2>5, <2>6 DEF IInv, StateIsVerdict, Policy!Verdict, Healthy, Unhealthy
  <1>4. CASE sm.trigger = TriggerConsecutive
    <2>1. /\ sm.consecutive <= n
          /\ \A i \in (n - sm.consecutive + 1)..n : ~results[i]
          /\ sm.consecutive < n => results[n - sm.consecutive]
      BY DEF IInv, CountersMatchResults, TrailingFailures
    <2>2. CountersDown(sm) <=> sm.consecutive >= sm.failureThreshold
      BY <1>4 DEF CountersDown, TriggerConsecutive, TriggerAvailability
    <2>3. Policy!FailedInARow(cfg, results) <=>
            /\ n >= sm.failureThreshold
            /\ \A i \in (n - sm.failureThreshold + 1)..n : ~results[i]
      BY <1>2 DEF Policy!FailedInARow, Policy!Last
    <2>4. ASSUME sm.consecutive >= sm.failureThreshold
          PROVE  Policy!FailedInARow(cfg, results)
      BY <1>1, <2>1, <2>3, <2>4
    <2>5. ASSUME ~(sm.consecutive >= sm.failureThreshold)
          PROVE  ~Policy!FailedInARow(cfg, results)
      <3>1. n >= sm.failureThreshold =>
              /\ results[n - sm.consecutive]
              /\ n - sm.consecutive \in (n - sm.failureThreshold + 1)..n
        BY <1>1, <2>1, <2>5
      <3>. QED
        BY <2>3, <3>1
    <2>6. Policy!Down(cfg, results) <=> Policy!FailedInARow(cfg, results)
      BY <1>2, <1>4 DEF Policy!Down, TriggerConsecutive
    <2>. QED
      BY <2>2, <2>4, <2>5, <2>6
         DEF IInv, StateIsVerdict, Policy!Verdict, Healthy, Unhealthy
  <1>. QED
    BY <1>1, <1>3, <1>4 DEF Trigger

\* The state machine implements the alert policy: its circular buffer and
\* counters decide, at every check, exactly as the policy does on the log.
THEOREM Refinement == Spec => ImplementsPolicy
  <1>1. Init => Policy!Init
    BY DEF Init, Policy!Init, NewWithConfig, Healthy, None
  <1>a. IInv => sm.state = Policy!Verdict(cfg, results)
    BY CountersJudgeLog
  <1>b. IInv' => (sm.state = Policy!Verdict(cfg, results))'
    BY <1>a, PTL
  <1>2. IInv /\ [Next]_vars => [Policy!Next]_(Policy!vars)
    <2>. SUFFICES ASSUME IInv, [Next]_vars PROVE [Policy!Next]_(Policy!vars)
      OBVIOUS
    <2>1. ASSUME NEW success \in BOOLEAN, Check(success)
          PROVE  Policy!Check(success)
      <3>1. IInv'
        BY <2>1, CheckIInv
      <3>2. sm'.state = Policy!Verdict(cfg', results')
        BY <3>1, <1>b
      <3>3. event' = Policy!Edge(sm.state, sm'.state)
        BY <2>1, VerdictStep DEF Policy!Edge, Healthy, Unhealthy, None,
             AlertUnhealthy, RecoveryHealthy
      <3>. QED
        BY <2>1, <3>2, <3>3 DEF Check, Policy!Check
    <2>2. CASE UNCHANGED vars
      BY <2>2 DEF vars, Policy!vars
    <2>. QED
      BY <2>1, <2>2 DEF Next, Policy!Next
  <1>. QED
    BY <1>1, <1>2, Invariance, PTL DEF Spec, ImplementsPolicy, Policy!Spec

=============================================================================
