---------------------------- MODULE Fleet_proofs ----------------------------
(***************************************************************************)
(* Proofs about Fleet, for any number of units and any configuration of    *)
(* them, any capacity of the history and any number of checks.             *)
(***************************************************************************)
EXTENDS Fleet, FiniteSetTheorems, TLAPS

-----------------------------------------------------------------------------
(* The ring.                                                               *)

\* A position up to one turn too far wraps around once.
LEMMA Wrap ==
    ASSUME NEW c \in Nat \ {0}, NEW x \in 0..(2 * c - 1)
    PROVE  x % c = IF x < c THEN x ELSE x - c
  BY SMT

\* The capacity of a ring is the length of its buffer.
LEMMA Capacity ==
    ASSUME NEW Sample, NEW r \in RingType(Sample)
    PROVE  capOf(r) = historyCap
  <1>1. DOMAIN r.buf = 0..(historyCap - 1)
    BY DEF RingType
  <1>2. Cardinality(0..(historyCap - 1)) = historyCap
    BY FS_Interval, UnitsAssumption
  <1>3. capOf(r) = Cardinality(DOMAIN r.buf)
    BY Zenon DEF capOf
  <1> QED BY <1>1, <1>2, <1>3, Zenon

\* Where the oldest element of a ring is.
start(r) == IF r.head >= r.len THEN r.head - r.len ELSE r.head - r.len + historyCap

\* Where the element at position i of the slice is.
position(r, i) ==
    IF start(r) + i - 1 < historyCap THEN start(r) + i - 1
                                     ELSE start(r) + i - 1 - historyCap

\* slice reads the buffer from start on, around its end.
LEMMA SliceElements ==
    ASSUME NEW Sample, NEW r \in RingType(Sample)
    PROVE  /\ slice(r) = [i \in 1..r.len |-> r.buf[position(r, i)]]
           /\ \A i \in 1..r.len : position(r, i) \in 0..(historyCap - 1)
  <1> DEFINE c == historyCap
  <1>1. c \in Nat \ {0} /\ capOf(r) = c
    BY Capacity, UnitsAssumption
  <1>2. r.head \in 0..(c - 1) /\ r.len \in 0..c
    BY DEF RingType
  <1> HIDE DEF c
  <1>3. r.head - r.len + c \in 0..(2 * c - 1)
    BY <1>1, <1>2
  <1>4. (r.head - r.len + c) % c = start(r)
    BY <1>1, <1>2, <1>3, Wrap DEF start, c
  <1>5. start(r) \in 0..(c - 1)
    BY <1>1, <1>2 DEF start, c
  <1>6. ASSUME NEW i \in 1..r.len
        PROVE  (start(r) + i - 1) % c = position(r, i) /\ position(r, i) \in 0..(c - 1)
    <2> DEFINE x == start(r) + i - 1
    <2>1. x \in 0..(2 * c - 1)
      BY <1>1, <1>2, <1>5
    <2>2. position(r, i) = IF x < c THEN x ELSE x - c
      BY <1>1, <1>2, <1>5 DEF position, c
    <2> HIDE DEF x
    <2>3. x % c = IF x < c THEN x ELSE x - c
      BY <1>1, <2>1, Wrap
    <2>4. x % c = position(r, i) /\ position(r, i) \in 0..(c - 1)
      BY <1>1, <2>1, <2>2, <2>3
    <2> QED BY <2>4 DEF x
  <1>7. slice(r) = [i \in 1..r.len |-> r.buf[(start(r) + i - 1) % c]]
    BY <1>1, <1>4 DEF slice
  <1> QED BY <1>6, <1>7 DEF c

\* What add leaves behind is a ring again, with one more element or, when it
\* was full, as many as before.
LEMMA AddRing ==
    ASSUME NEW Sample, NEW r \in RingType(Sample), NEW v \in Sample
    PROVE  /\ add(r, v) \in RingType(Sample)
           /\ add(r, v).buf = [r.buf EXCEPT ![r.head] = v]
           /\ add(r, v).head = IF r.head + 1 = historyCap THEN 0 ELSE r.head + 1
           /\ add(r, v).len = IF r.len < historyCap THEN r.len + 1 ELSE r.len
  <1>1. capOf(r) = historyCap /\ historyCap \in Nat \ {0}
    BY Capacity, UnitsAssumption
  <1>2. r.head \in 0..(historyCap - 1) /\ r.len \in 0..historyCap
    BY DEF RingType
  <1>3. (r.head + 1) % historyCap = IF r.head + 1 = historyCap THEN 0 ELSE r.head + 1
    BY <1>1, <1>2, Wrap
  <1>4. /\ add(r, v).buf = [r.buf EXCEPT ![r.head] = v]
        /\ add(r, v).head = (r.head + 1) % historyCap
        /\ add(r, v).len = IF r.len < historyCap THEN r.len + 1 ELSE r.len
    BY <1>1 DEF RingType, add
  <1>5. add(r, v).buf \in [0..(historyCap - 1) -> Sample]
    BY <1>2, <1>4 DEF RingType
  <1>6. add(r, v).head \in 0..(historyCap - 1) /\ add(r, v).len \in 0..historyCap
    BY <1>1, <1>2, <1>3, <1>4
  <1>7. add(r, v) \in RingType(Sample)
    BY <1>5, <1>6 DEF RingType, add
  <1> QED BY <1>3, <1>4, <1>7

\* add appends its element to the slice and drops the oldest one when the
\* ring is full.
LEMMA AddSlice ==
    ASSUME NEW Sample, NEW r \in RingType(Sample), NEW v \in Sample
    PROVE  LET s == slice(r)
               t == slice(add(r, v))
               drop == IF r.len < historyCap THEN 0 ELSE 1
           IN  /\ s \in Seq(Sample) /\ t \in Seq(Sample)
               /\ Len(s) = r.len
               /\ Len(t) = r.len + 1 - drop
               /\ t[Len(t)] = v
               /\ \A i \in 1..(Len(t) - 1) : t[i] = s[i + drop]
  <1> DEFINE c == historyCap
             a == add(r, v)
             drop == IF r.len < c THEN 0 ELSE 1
  <1>1. c \in Nat \ {0} /\ r.head \in 0..(c - 1) /\ r.len \in 0..c
    BY UnitsAssumption DEF RingType
  <1>2. /\ a \in RingType(Sample)
        /\ a.buf = [r.buf EXCEPT ![r.head] = v]
        /\ a.head = IF r.head + 1 = c THEN 0 ELSE r.head + 1
        /\ a.len = r.len + 1 - drop
    BY <1>1, AddRing
  <1>3. /\ slice(r) = [i \in 1..r.len |-> r.buf[position(r, i)]]
        /\ \A i \in 1..r.len : position(r, i) \in 0..(c - 1)
        /\ slice(a) = [i \in 1..a.len |-> a.buf[position(a, i)]]
        /\ \A i \in 1..a.len : position(a, i) \in 0..(c - 1)
    BY <1>2, SliceElements
  <1>4. r.buf \in [0..(c - 1) -> Sample] /\ a.buf \in [0..(c - 1) -> Sample]
    BY <1>2 DEF RingType
  <1>5. position(a, a.len) = r.head
    BY <1>1, <1>2 DEF position, start
  <1>6. \A i \in 1..(a.len - 1) :
           position(a, i) = position(r, i + drop) /\ position(a, i) # r.head
    BY <1>1, <1>2 DEF position, start
  <1> HIDE DEF a, c
  <1>7. /\ slice(r) \in Seq(Sample) /\ Len(slice(r)) = r.len
        /\ slice(a) \in Seq(Sample) /\ Len(slice(a)) = a.len
    <2>1. r.len \in Nat /\ a.len \in Nat
      BY <1>1, <1>2
    <2>2. slice(r) \in [1..r.len -> Sample] /\ slice(a) \in [1..a.len -> Sample]
      BY <1>3, <1>4
    <2> QED BY <2>1, <2>2
  <1>8. slice(a)[a.len] = v
    BY <1>1, <1>2, <1>3, <1>4, <1>5
  <1>9. ASSUME NEW i \in 1..(a.len - 1)
        PROVE  slice(a)[i] = slice(r)[i + drop]
    <2>1. i + drop \in 1..r.len /\ i \in 1..a.len
      BY <1>1, <1>2
    <2>2. slice(a)[i] = a.buf[position(a, i)] /\ slice(r)[i + drop] = r.buf[position(r, i + drop)]
      BY <1>3, <2>1
    <2>3. a.buf[position(a, i)] = r.buf[position(a, i)]
      BY <1>2, <1>3, <1>4, <1>6, <2>1
    <2> QED BY <1>6, <2>2, <2>3
  <1> QED BY <1>2, <1>7, <1>8, <1>9 DEF a, c

\* A sample that is younger than all before it, added to a ring that holds
\* the latest of them, leaves a ring that holds the latest including it.
LEMMA AddLatest ==
    ASSUME NEW Sample, NEW r \in RingType(Sample), NEW v \in Sample,
           \A s \in Sample : s.Time \in Nat,
           NEW due, \A s \in due : s.Time \in Nat /\ s.Time < v.Time,
           Latest(slice(r), due)
    PROVE  Latest(slice(add(r, v)), due \cup {v})
  <1> DEFINE s == slice(r)
             t == slice(add(r, v))
             drop == IF r.len < historyCap THEN 0 ELSE 1
  <1>1. /\ s \in Seq(Sample) /\ t \in Seq(Sample)
        /\ Len(s) = r.len
        /\ Len(t) = r.len + 1 - drop
        /\ t[Len(t)] = v
        /\ \A i \in 1..(Len(t) - 1) : t[i] = s[i + drop]
    BY AddSlice
  <1>2. r.len \in 0..historyCap /\ historyCap \in Nat \ {0}
    BY UnitsAssumption DEF RingType
  <1>3. /\ \A j \in 1..Len(s) : s[j] \in due
        /\ \A j, k \in 1..Len(s) : j < k => s[j].Time < s[k].Time
        /\ \A x \in due :
              \/ \E j \in 1..Len(s) : s[j] = x
              \/ Len(s) = historyCap /\ \A j \in 1..Len(s) : x.Time < s[j].Time
    BY <1>1 DEF Latest
  <1>4. DOMAIN t = 1..Len(t) /\ v.Time \in Nat
    BY <1>1
  <1> HIDE DEF s, t
  <1>5. Len(t) <= historyCap /\ Len(t) \in Nat \ {0}
    BY <1>1, <1>2
  <1>6. ASSUME NEW j \in 1..Len(t)
        PROVE  t[j] \in due \cup {v}
    <2>1. CASE j = Len(t)
      BY <1>1, <2>1
    <2>2. CASE j # Len(t)
      BY <1>1, <1>2, <1>3, <2>2
    <2> QED BY <2>1, <2>2
  <1>7. ASSUME NEW j \in 1..Len(t), NEW k \in 1..Len(t), j < k
        PROVE  t[j].Time < t[k].Time
    <2>1. j + drop \in 1..Len(s) /\ t[j] = s[j + drop]
      BY <1>1, <1>2, <1>7
    <2>2. CASE k = Len(t)
      BY <1>1, <1>3, <2>1, <2>2
    <2>3. CASE k # Len(t)
      <3>1. k + drop \in 1..Len(s) /\ t[k] = s[k + drop]
        BY <1>1, <1>2, <2>3, SMTT(30)
      <3>2. j + drop < k + drop
        BY <1>7
      <3> QED BY <1>3, <2>1, <3>1, <3>2
    <2> QED BY <2>2, <2>3
  <1>8. ASSUME NEW x \in due \cup {v}
        PROVE  \/ \E j \in 1..Len(t) : t[j] = x
               \/ Len(t) = historyCap /\ \A j \in 1..Len(t) : x.Time < t[j].Time
    <2>1. CASE x = v
      BY <1>1, <1>5, <2>1
    <2>2. CASE x \in due /\ \E j \in 1..Len(s) : s[j] = x
      <3>1. PICK j \in 1..Len(s) : s[j] = x
        BY <2>2
      <3>2. CASE j > drop
        <4>1. j - drop \in 1..(Len(t) - 1) /\ (j - drop) + drop = j
          BY <1>1, <1>2, <3>2
        <4>2. t[j - drop] = s[j]
          BY <1>1, <4>1
        <4> QED BY <3>1, <4>1, <4>2, <1>5
      <3>3. CASE j = 1 /\ drop = 1
        <4>1. Len(t) = historyCap
          BY <1>1, <1>2, <3>3
        <4>2. ASSUME NEW k \in 1..Len(t) PROVE x.Time < t[k].Time
          <5>1. CASE k = Len(t)
            BY <1>1, <2>2, <5>1
          <5>2. CASE k # Len(t)
            <6>1. k + 1 \in 1..Len(s) /\ t[k] = s[k + 1]
              BY <1>1, <1>2, <3>3, <4>1, <5>2
            <6>2. s[1].Time < s[k + 1].Time
              BY <1>3, <3>3, <6>1
            <6> QED BY <3>1, <3>3, <6>1, <6>2
          <5> QED BY <5>1, <5>2
        <4> QED BY <4>1, <4>2
      <3> QED BY <3>2, <3>3
    <2>3. CASE /\ x \in due
               /\ Len(s) = historyCap /\ \A j \in 1..Len(s) : x.Time < s[j].Time
      <3>1. Len(t) = historyCap /\ drop = 1
        BY <1>1, <1>2, <2>3
      <3>2. ASSUME NEW k \in 1..Len(t) PROVE x.Time < t[k].Time
        <4>1. CASE k = Len(t)
          BY <1>1, <2>3, <4>1
        <4>2. CASE k # Len(t)
          <5>1. k + 1 \in 1..Len(s) /\ t[k] = s[k + 1]
            BY <1>1, <1>2, <3>1, <4>2
          <5> QED BY <2>3, <5>1
        <4> QED BY <4>1, <4>2
      <3> QED BY <3>1, <3>2
    <2> QED BY <1>3, <2>1, <2>2, <2>3
  <1>9. Latest(t, due \cup {v})
    BY <1>4, <1>5, <1>6, <1>7, <1>8 DEF Latest
  <1> QED BY <1>9 DEF t

\* A new ring is empty: it holds the latest of no samples.
LEMMA NewRing ==
    ASSUME NEW Sample, NEW zero \in Sample
    PROVE  /\ newRing(historyCap, zero) \in RingType(Sample)
           /\ Latest(slice(newRing(historyCap, zero)), {})
  <1> DEFINE r == newRing(historyCap, zero)
  <1>1. r \in RingType(Sample) /\ r.len = 0
    BY UnitsAssumption DEF newRing, RingType
  <1>2. slice(r) = <<>>
    BY <1>1, SliceElements
  <1> QED BY <1>1, <1>2, UnitsAssumption DEF Latest

-----------------------------------------------------------------------------
(* The registry.                                                           *)

CheckSamples == [Time : Nat, Success : BOOLEAN]
SpeedSamples == [Time : Nat, Mbps : Nat]
UnitHistories == [checks : RingType(CheckSamples), speeds : RingType(SpeedSamples)]

(* Every name in the order has a slot under its name and two rings, and    *)
(* there are no others.                                                    *)
RegistryInv(r) ==
    /\ r \in [order : Seq(DOMAIN r.units), units : {r.units}, history : {r.history}]
    /\ DOMAIN r.units = {r.order[i] : i \in DOMAIN r.order}
    /\ r.units = [name \in DOMAIN r.units |-> r.units[name]]
    /\ \A name \in DOMAIN r.units : r.units[name].Name = name
    /\ r.history \in [DOMAIN r.units -> UnitHistories]

\* set replaces the slot of its unit and nothing else.
LEMMA SetSlot ==
    ASSUME NEW r, RegistryInv(r), NEW status, status.Name \in DOMAIN r.units
    PROVE  /\ RegistryInv(set(r, status))
           /\ set(r, status).units = [r.units EXCEPT ![status.Name] = status]
           /\ set(r, status).history = r.history
  <1>1. set(r, status) = [r EXCEPT !.units[status.Name] = status]
    BY DEF set
  <1>2. /\ set(r, status).units = [r.units EXCEPT ![status.Name] = status]
        /\ set(r, status).history = r.history
        /\ set(r, status).order = r.order
    BY <1>1 DEF RegistryInv
  <1>3. DOMAIN set(r, status).units = DOMAIN r.units
    BY <1>2 DEF RegistryInv
  <1>4. /\ set(r, status).units =
             [n \in DOMAIN set(r, status).units |-> set(r, status).units[n]]
        /\ \A n \in DOMAIN r.units : set(r, status).units[n].Name = n
    BY <1>2, <1>3 DEF RegistryInv
  <1>5. set(r, status) \in [order : Seq(DOMAIN r.units), units : {set(r, status).units},
                            history : {set(r, status).history}]
    BY <1>1, <1>2 DEF RegistryInv
  <1> QED BY <1>2, <1>3, <1>4, <1>5 DEF RegistryInv

\* recordCheck adds a sample to one ring of its unit and changes nothing else.
LEMMA RecordCheckRing ==
    ASSUME NEW r, RegistryInv(r), NEW name \in DOMAIN r.units, NEW t \in Nat,
           NEW success \in BOOLEAN
    PROVE  LET q == recordCheck(r, name, t, success)
           IN  /\ RegistryInv(q)
               /\ q.units = r.units
               /\ q.history[name].checks = add(r.history[name].checks,
                                               CheckSample(t, success))
               /\ q.history[name].speeds = r.history[name].speeds
               /\ \A other \in DOMAIN r.units :
                     other # name => q.history[other] = r.history[other]
  <1> DEFINE q == recordCheck(r, name, t, success)
             ring == add(r.history[name].checks, CheckSample(t, success))
  <1>1. name \in DOMAIN r.history /\ r.history[name] \in UnitHistories
    BY DEF RegistryInv
  <1>2. ring \in RingType(CheckSamples)
    BY <1>1, AddRing DEF UnitHistories, CheckSample, CheckSamples
  <1>3. q = [r EXCEPT !.history[name].checks = ring]
    BY <1>1 DEF recordCheck
  <1> HIDE DEF q, ring
  <1>4. /\ q.units = r.units /\ q.order = r.order
        /\ q.history = [r.history EXCEPT ![name].checks = ring]
    BY <1>3 DEF RegistryInv
  <1>5. /\ q.history[name].checks = ring
        /\ q.history[name].speeds = r.history[name].speeds
        /\ q.history[name] \in UnitHistories
        /\ \A other \in DOMAIN r.units :
              other # name => q.history[other] = r.history[other]
    <2>1. /\ q.history[name] = [r.history[name] EXCEPT !.checks = ring]
          /\ \A other \in DOMAIN r.units :
                other # name => q.history[other] = r.history[other]
      BY <1>4 DEF RegistryInv
    <2> QED BY <1>1, <1>2, <2>1 DEF UnitHistories
  <1>6. q.history \in [DOMAIN r.units -> UnitHistories]
    BY <1>4, <1>5, ZenonT(30) DEF RegistryInv
  <1>7. q \in [order : Seq(DOMAIN q.units), units : {q.units}, history : {q.history}]
    BY <1>3, <1>4 DEF RegistryInv
  <1>8. RegistryInv(q)
    BY <1>4, <1>6, <1>7 DEF RegistryInv
  <1> QED BY <1>4, <1>5, <1>8 DEF q, ring

\* recordSpeed does the same to the other ring.
LEMMA RecordSpeedRing ==
    ASSUME NEW r, RegistryInv(r), NEW name \in DOMAIN r.units, NEW t \in Nat,
           NEW mbps \in Nat
    PROVE  LET q == recordSpeed(r, name, t, mbps)
           IN  /\ RegistryInv(q)
               /\ q.units = r.units
               /\ q.history[name].speeds = add(r.history[name].speeds,
                                               SpeedSample(t, mbps))
               /\ q.history[name].checks = r.history[name].checks
               /\ \A other \in DOMAIN r.units :
                     other # name => q.history[other] = r.history[other]
  <1> DEFINE q == recordSpeed(r, name, t, mbps)
             ring == add(r.history[name].speeds, SpeedSample(t, mbps))
  <1>1. name \in DOMAIN r.history /\ r.history[name] \in UnitHistories
    BY DEF RegistryInv
  <1>2. ring \in RingType(SpeedSamples)
    BY <1>1, AddRing DEF UnitHistories, SpeedSample, SpeedSamples
  <1>3. q = [r EXCEPT !.history[name].speeds = ring]
    BY <1>1 DEF recordSpeed
  <1> HIDE DEF q, ring
  <1>4. /\ q.units = r.units /\ q.order = r.order
        /\ q.history = [r.history EXCEPT ![name].speeds = ring]
    BY <1>3 DEF RegistryInv
  <1>5. /\ q.history[name].speeds = ring
        /\ q.history[name].checks = r.history[name].checks
        /\ q.history[name] \in UnitHistories
        /\ \A other \in DOMAIN r.units :
              other # name => q.history[other] = r.history[other]
    <2>1. /\ q.history[name] = [r.history[name] EXCEPT !.speeds = ring]
          /\ \A other \in DOMAIN r.units :
                other # name => q.history[other] = r.history[other]
      BY <1>4 DEF RegistryInv
    <2> QED BY <1>1, <1>2, <2>1 DEF UnitHistories
  <1>6. q.history \in [DOMAIN r.units -> UnitHistories]
    BY <1>4, <1>5 DEF RegistryInv
  <1>7. q \in [order : Seq(DOMAIN q.units), units : {q.units}, history : {q.history}]
    BY <1>3, <1>4 DEF RegistryInv
  <1>8. RegistryInv(q)
    BY <1>4, <1>6, <1>7 DEF RegistryInv
  <1> QED BY <1>4, <1>5, <1>8 DEF q, ring

\* Register makes a slot and two empty rings for a name that has none, and
\* leaves those of other names alone.
LEMMA RegisterName ==
    ASSUME NEW r, RegistryInv(r), NEW name
    PROVE  LET q == Register(r, name)
           IN  /\ RegistryInv(q)
               /\ DOMAIN q.units = DOMAIN r.units \cup {name}
               /\ \A n \in DOMAIN r.units : /\ q.units[n] = r.units[n]
                                            /\ q.history[n] = r.history[n]
               /\ name \notin DOMAIN r.units => q.history[name] = newUnitHistory
  <1> DEFINE q == Register(r, name)
  <1>1. CASE name \in DOMAIN r.units
    BY <1>1 DEF Register
  <1>2. CASE name \notin DOMAIN r.units
    <2> DEFINE slot == [Name |-> name, State |-> Healthy, HasWindow |-> FALSE,
                        Availability |-> 0, Consecutive |-> 0, LastSuccess |-> ZeroTime]
    <2>1. q = [order |-> Append(r.order, name), units |-> Put(r.units, name, slot),
               history |-> Put(r.history, name, newUnitHistory)]
      BY <1>2 DEF Register
    <2>2. slot.Name = name
      OBVIOUS
    <2> HIDE DEF q, slot
    <2>3. /\ q.order = Append(r.order, name)
          /\ q.units = Put(r.units, name, slot)
          /\ q.history = Put(r.history, name, newUnitHistory)
      BY <2>1
    <2>4. newUnitHistory \in UnitHistories
      <3>1. CheckSample(ZeroTime, FALSE) \in CheckSamples /\ SpeedSample(ZeroTime, 0) \in SpeedSamples
        BY DEF CheckSample, SpeedSample, ZeroTime, CheckSamples, SpeedSamples
      <3> QED BY <3>1, NewRing DEF newUnitHistory, UnitHistories
    <2>5. DOMAIN r.history = DOMAIN r.units
      BY DEF RegistryInv
    <2>6. /\ DOMAIN q.units = DOMAIN r.units \cup {name}
          /\ q.units = [n \in DOMAIN q.units |-> q.units[n]]
          /\ q.units[name] = slot
          /\ \A n \in DOMAIN r.units : q.units[n] = r.units[n]
      BY <1>2, <2>3 DEF Put
    <2>7. /\ q.history \in [DOMAIN q.units -> UnitHistories]
          /\ q.history[name] = newUnitHistory
          /\ \A n \in DOMAIN r.units : q.history[n] = r.history[n]
      BY <1>2, <2>3, <2>4, <2>5, <2>6 DEF Put, RegistryInv
    <2>8. /\ r.order \in Seq(DOMAIN r.units)
          /\ q.order \in Seq(DOMAIN q.units)
      BY <2>3, <2>6 DEF RegistryInv
    <2>9. DOMAIN q.units = {q.order[i] : i \in DOMAIN q.order}
      <3>1. /\ DOMAIN q.order = DOMAIN r.order \cup {Len(r.order) + 1}
            /\ q.order[Len(r.order) + 1] = name
            /\ \A i \in DOMAIN r.order : q.order[i] = r.order[i]
        BY <2>3, <2>8
      <3>2. DOMAIN r.units = {r.order[i] : i \in DOMAIN r.order}
        BY DEF RegistryInv
      <3> QED BY <2>6, <3>1, <3>2
    <2>10. q \in [order : Seq(DOMAIN q.units), units : {q.units}, history : {q.history}]
      BY <2>1, <2>3, <2>8
    <2>11. \A n \in DOMAIN q.units : q.units[n].Name = n
      BY <2>2, <2>6 DEF RegistryInv
    <2>12. RegistryInv(q)
      BY <2>6, <2>7, <2>9, <2>10, <2>11 DEF RegistryInv
    <2> QED BY <2>6, <2>7, <2>12 DEF q
  <1> QED BY <1>1, <1>2

\* An empty registry.
LEMMA NewRegistryInv == RegistryInv(NewRegistry) /\ DOMAIN NewRegistry.units = {}
  BY DEF NewRegistry, RegistryInv

-----------------------------------------------------------------------------
(* What Observe returns.                                                   *)

(* m has the fields of a StateMachine, one of the two states and a count.  *)
IsMachine(m) ==
    m \in [failureThreshold : {m.failureThreshold}, trigger : {m.trigger},
           minAvailability : {m.minAvailability}, state : State,
           consecutive : Nat, window : {m.window}, lastSuccess : {m.lastSuccess}]

\* An event is returned exactly when the state changes, and names the change.
LEMMA ObserveEvent ==
    ASSUME NEW m, IsMachine(m), NEW success \in BOOLEAN, NEW t
    PROVE  LET r == Observe(m, success, t)
           IN  /\ IsMachine(r.sm)
               /\ \/ r.event = None /\ r.sm.state = m.state
                  \/ r.event = AlertUnhealthy /\ m.state = Healthy /\ r.sm.state = Unhealthy
                  \/ r.event = RecoveryHealthy /\ m.state = Unhealthy /\ r.sm.state = Healthy
  <1> DEFINE c == count(m, success, t)
  <1>1. IsMachine(c) /\ c.state = m.state
    <2>1. /\ c.consecutive = IF success THEN 0 ELSE m.consecutive + 1
          /\ c.state = m.state
      BY DEF IsMachine, count
    <2>2. c.consecutive \in Nat /\ c.state \in State
      BY <2>1 DEF IsMachine
    <2> QED BY <2>1, <2>2 DEF IsMachine, count
  <1> HIDE DEF c
  <1>2. ASSUME NEW s \in State, NEW e
        PROVE  /\ IsMachine(Enter(c, s, e).sm)
               /\ Enter(c, s, e).sm.state = s /\ Enter(c, s, e).event = e
    BY <1>1 DEF IsMachine, Enter
  <1>3. c.state \in State /\ Healthy \in State /\ Unhealthy \in State
    BY <1>1 DEF IsMachine, State
  <1>4. \/ Observe(m, success, t) = Enter(c, c.state, None)
        \/ c.state = Healthy /\ Observe(m, success, t) = Enter(c, Unhealthy, AlertUnhealthy)
        \/ c.state = Unhealthy /\ Observe(m, success, t) = Enter(c, Healthy, RecoveryHealthy)
    BY DEF Observe, transitionAvailability, transitionConsecutive, c
  <1> QED BY <1>1, <1>2, <1>3, <1>4

-----------------------------------------------------------------------------
(* The inductive invariant of each unit by itself.                         *)

Result == [success : BOOLEAN, mbps : Nat \cup {NoSpeed}]
Results == [success : BOOLEAN, mbps : Nat \cup {NoSpeed}, ev : Event]
Alerts == [State : State, ConsecutiveFailures : Nat]

(* The steps of a check after its probe.                                   *)
Recording == {"update", "record", "speed"}
Announcing == {"snapshot", "dispatch"}
PC == {"idle", "probe", "stopped"} \cup Recording \cup Announcing

TypeInv ==
    /\ built \in 0..Len(UnitSeq)
    /\ ctxDone \in BOOLEAN
    /\ pc \in [Units -> PC]
    /\ log \in [Units -> Seq(Result)]
    /\ check \in [Units -> Results]
    /\ alerts \in [Units -> Seq(Alerts)]
    /\ sm = [u \in Units |-> sm[u]]
    /\ shown = [u \in Units |-> shown[u]]

(* The units built so far are registered, and no unit runs before all are. *)
BuildInv ==
    /\ RegistryInv(registry)
    /\ \A i \in 1..built : NameOf[UnitSeq[i]] \in DOMAIN registry.units
    /\ ~Running => \A u \in Units : pc[u] = "idle" /\ log[u] = <<>>

(* The state that the alerts of a unit have announced.                     *)
Announced(u) == IF alerts[u] = <<>> THEN Healthy ELSE alerts[u][Len(alerts[u])].State

Pending(u) == check[u].ev # None /\ pc[u] \in Recording \cup Announcing

(* The check under way is the last of the log, and its event names the     *)
(* state the machine has entered; that state is announced at the end of    *)
(* the check.                                                              *)
UnitInv(u) ==
    /\ IsMachine(sm[u])
    /\ pc[u] \in Recording \cup Announcing => log[u] # <<>>
    /\ pc[u] \in Recording =>
          log[u][Len(log[u])] = [success |-> check[u].success, mbps |-> check[u].mbps]
    /\ pc[u] = "speed" => check[u].mbps # NoSpeed
    /\ pc[u] \in Announcing => check[u].ev # None
    /\ Pending(u) => sm[u].state = IF check[u].ev = AlertUnhealthy THEN Unhealthy
                                                                  ELSE Healthy
    /\ \A k \in 1..Len(alerts[u]) :
          alerts[u][k].State = IF k % 2 = 1 THEN Unhealthy ELSE Healthy
    /\ (Announced(u) = sm[u].state) <=> ~Pending(u)

Base == TypeInv /\ BuildInv /\ \A u \in Units : UnitInv(u)

\* Once the daemon runs every unit has its slot.
LEMMA AllRegistered ==
    ASSUME TypeInv, BuildInv, Running, NEW u \in Units
    PROVE  NameOf[u] \in DOMAIN registry.units
  <1>1. UnitSeq \in Seq(Units)
    BY UnitsAssumption
  <1>2. PICK i \in DOMAIN UnitSeq : u = UnitSeq[i]
    BY DEF Units
  <1>3. i \in 1..built
    BY <1>1, <1>2 DEF Running
  <1> QED BY <1>2, <1>3 DEF BuildInv

\* A unit that is not idle belongs to a daemon that runs.
LEMMA ActiveRuns ==
    ASSUME TypeInv, BuildInv, NEW u \in Units, pc[u] # "idle"
    PROVE  Running /\ NameOf[u] \in DOMAIN registry.units
  BY AllRegistered DEF BuildInv

\* The initial states satisfy the invariant.
LEMMA BaseInit == Init => Base
  <1> SUFFICES ASSUME Init PROVE Base
    OBVIOUS
  <1>1. Len(UnitSeq) \in Nat
    BY UnitsAssumption
  <1>2. TypeInv
    <2>1. NoCheck \in Results
      BY DEF NoCheck, Results, Event
    <2>2. built \in 0..Len(UnitSeq) /\ pc \in [Units -> PC]
      BY <1>1 DEF Init, PC
    <2>6. ctxDone \in BOOLEAN
      BY DEF Init
    <2>3. log \in [Units -> Seq(Result)] /\ alerts \in [Units -> Seq(Alerts)]
      BY DEF Init
    <2>4. sm = [u \in Units |-> sm[u]] /\ shown = [u \in Units |-> shown[u]]
      BY DEF Init
    <2>5. check \in [Units -> Results]
      BY <2>1 DEF Init
    <2> QED BY <2>2, <2>3, <2>4, <2>5, <2>6 DEF TypeInv
  <1>3. BuildInv
    BY <1>1, NewRegistryInv DEF Init, BuildInv
  <1>4. ASSUME NEW u \in Units PROVE UnitInv(u)
    <2>1. IsMachine(sm[u]) /\ sm[u].state = Healthy
      BY DEF Init, NewWithConfig, IsMachine, State
    <2> QED BY <2>1 DEF Init, UnitInv, Announced, Pending, NoCheck, Recording, Announcing
  <1> QED BY <1>2, <1>3, <1>4 DEF Base

(* The fields of a unit that UnitInv speaks of are unchanged.              *)
Untouched(u) ==
    /\ sm'[u] = sm[u] /\ pc'[u] = pc[u] /\ check'[u] = check[u]
    /\ log'[u] = log[u] /\ alerts'[u] = alerts[u]

\* A unit whose fields are unchanged keeps its invariant.
LEMMA UntouchedInv ==
    ASSUME NEW u \in Units, UnitInv(u), Untouched(u)
    PROVE  UnitInv(u)'
  BY DEF UnitInv, Untouched, Announced, Pending

\* buildRoles registers the next unit.
LEMMA BuildBase == Base /\ Build => Base'
  <1> SUFFICES ASSUME Base, Build PROVE Base'
    OBVIOUS
  <1>1. built \in 0..Len(UnitSeq) /\ Len(UnitSeq) \in Nat
    BY UnitsAssumption DEF Base, TypeInv
  <1> DEFINE name == NameOf[UnitSeq[built + 1]]
  <1>2. /\ RegistryInv(registry')
        /\ DOMAIN registry'.units = DOMAIN registry.units \cup {name}
    BY RegisterName DEF Build, Base, BuildInv
  <1>3. built' = built + 1 /\ ~Running
    BY <1>1 DEF Build, Running
  <1>4. ASSUME NEW i \in 1..built' PROVE NameOf[UnitSeq[i]] \in DOMAIN registry'.units
    <2>1. i \in 1..built \/ i = built + 1
      BY <1>1, <1>3
    <2> QED BY <1>2, <2>1 DEF Base, BuildInv
  <1>5. TypeInv'
    BY <1>1, <1>3 DEF Build, Base, TypeInv
  <1>6. BuildInv'
    BY <1>2, <1>3, <1>4 DEF Build, Base, BuildInv, Running
  <1>7. ASSUME NEW u \in Units PROVE UnitInv(u)'
    BY UntouchedInv DEF Base, Build, Untouched
  <1> QED BY <1>5, <1>6, <1>7 DEF Base

\* The two cases of a role's select.
LEMMA SelectBase ==
    ASSUME Base, NEW u \in Units, Tick(u) \/ Stop(u)
    PROVE  Base'
  <1>1. PICK there \in {"probe", "stopped"} : pc' = [pc EXCEPT ![u] = there]
    BY DEF Tick, Stop
  <1>2. /\ UNCHANGED <<built, registry, sm, check, ctxDone, log, alerts, shown>>
        /\ Running /\ pc[u] = "idle"
    BY DEF Tick, Stop
  <1>3. TypeInv'
    BY <1>1, <1>2 DEF Base, TypeInv, PC
  <1>4. BuildInv'
    BY <1>1, <1>2 DEF Base, BuildInv, Running
  <1>5. ASSUME NEW v \in Units PROVE UnitInv(v)'
    <2>1. CASE v = u
      BY <1>1, <1>2, <2>1 DEF Base, TypeInv, UnitInv, Announced, Pending, Recording, Announcing
    <2>2. CASE v # u
      BY <1>1, <1>2, <2>2, UntouchedInv DEF Base, TypeInv, Untouched
    <2> QED BY <2>1, <2>2
  <1> QED BY <1>3, <1>4, <1>5 DEF Base

\* What a probe comes to is a result.
LEMMA OutcomesAreResults ==
    ASSUME NEW u \in Units, NEW o \in Outcomes(u)
    PROVE  o \in Result /\ o = [success |-> o.success, mbps |-> o.mbps]
  <1>1. CASE o \in ProbeOutcomes
    BY <1>1 DEF ProbeOutcomes, Result
  <1>2. CASE o = [success |-> FALSE, mbps |-> NoSpeed]
    BY <1>2 DEF Result
  <1>3. CASE \E m \in Speeds : o = [success |-> ~(m < ThresholdMbps), mbps |-> m]
    <2>1. PICK m \in Speeds : o = [success |-> ~(m < ThresholdMbps), mbps |-> m]
      BY <1>3
    <2>2. m \in Nat /\ (~(m < ThresholdMbps)) \in BOOLEAN
      BY UnitsAssumption
    <2> QED BY <2>1, <2>2 DEF Result
  <1> QED BY <1>1, <1>2, <1>3 DEF Outcomes, SpeedOutcomes

\* After the probe the log ends with its result, and the event says whether
\* the machine has entered a state that is not announced yet.
LEMMA ProbeBase ==
    ASSUME Base, NEW u \in Units, Probe(u)
    PROVE  Base'
  <1>1. PICK o \in Outcomes(u) :
           LET r == Observe(sm[u], o.success, Len(log[u]) + 1)
           IN  /\ sm' = [sm EXCEPT ![u] = r.sm]
               /\ check' = [check EXCEPT ![u] = [success |-> o.success,
                                                 mbps |-> o.mbps, ev |-> r.event]]
               /\ log' = [log EXCEPT ![u] = Append(@, o)]
    BY DEF Probe
  <1> DEFINE r == Observe(sm[u], o.success, Len(log[u]) + 1)
  <1>2. o \in Result /\ o = [success |-> o.success, mbps |-> o.mbps] /\ o.success \in BOOLEAN
    BY OutcomesAreResults DEF Result
  <1>3. /\ IsMachine(r.sm)
        /\ \/ r.event = None /\ r.sm.state = sm[u].state
           \/ r.event = AlertUnhealthy /\ sm[u].state = Healthy /\ r.sm.state = Unhealthy
           \/ r.event = RecoveryHealthy /\ sm[u].state = Unhealthy /\ r.sm.state = Healthy
    <2>1. IsMachine(sm[u])
      BY DEF Base, UnitInv
    <2> QED BY <1>2, <2>1, ObserveEvent
  <1>4. r.event \in Event
    BY <1>3 DEF Event
  <1>5. /\ sm' = [sm EXCEPT ![u] = r.sm]
        /\ check' = [check EXCEPT ![u] = [success |-> o.success,
                                          mbps |-> o.mbps, ev |-> r.event]]
        /\ log' = [log EXCEPT ![u] = Append(@, o)]
    BY <1>1
  <1> HIDE DEF r
  <1>6. /\ pc[u] = "probe"
        /\ pc' = [pc EXCEPT ![u] = "update"]
        /\ UNCHANGED <<built, registry, ctxDone, alerts, shown>>
    BY DEF Probe
  <1>10. /\ log[u] \in Seq(Result) /\ Append(log[u], o) \in Seq(Result)
         /\ Append(log[u], o) # <<>> /\ Append(log[u], o)[Len(Append(log[u], o))] = o
    <2>1. log[u] \in Seq(Result)
      BY DEF Base, TypeInv
    <2> QED BY <1>2, <2>1
  <1>7. TypeInv'
    <2>1. log' \in [Units -> Seq(Result)]
      BY <1>5, <1>10 DEF Base, TypeInv
    <2>4. sm' = [v \in Units |-> sm'[v]]
      BY <1>5 DEF Base, TypeInv
    <2>2. check' \in [Units -> Results]
      BY <1>2, <1>4, <1>5 DEF Base, TypeInv, Results, Result
    <2>3. pc' \in [Units -> PC]
      BY <1>6 DEF Base, TypeInv, PC, Recording
    <2> QED BY <1>6, <2>1, <2>2, <2>3, <2>4 DEF Base, TypeInv
  <1>8. BuildInv'
    BY <1>6, ActiveRuns DEF Base, BuildInv, Running
  <1>9. ASSUME NEW v \in Units PROVE UnitInv(v)'
    <2>1. CASE v = u
      <3>1. /\ sm'[u] = r.sm /\ pc'[u] = "update" /\ alerts'[u] = alerts[u]
            /\ check'[u] = [success |-> o.success, mbps |-> o.mbps, ev |-> r.event]
            /\ log'[u] = Append(log[u], o)
        BY <1>5, <1>6 DEF Base, TypeInv
      <3>2. log'[u] # <<>> /\ log'[u][Len(log'[u])] = o
        BY <1>10, <3>1
      <3>3. Announced(u) = sm[u].state
        BY <1>6 DEF Base, UnitInv, Pending, Recording, Announcing
      <3>4. Announced(u)' = Announced(u)
        BY <3>1 DEF Announced
      <3>5. Pending(u)' <=> r.event # None
        BY <3>1 DEF Pending, Recording
      <3>6. /\ Pending(u)' => sm'[u].state = IF check'[u].ev = AlertUnhealthy
                                             THEN Unhealthy ELSE Healthy
            /\ (Announced(u)' = sm'[u].state) <=> ~Pending(u)'
        BY <1>3, <3>1, <3>3, <3>4, <3>5
           DEF None, AlertUnhealthy, RecoveryHealthy, Healthy, Unhealthy
      <3>7. \A k \in 1..Len(alerts'[u]) :
               alerts'[u][k].State = IF k % 2 = 1 THEN Unhealthy ELSE Healthy
        <4>1. \A k \in 1..Len(alerts[u]) :
                 alerts[u][k].State = IF k % 2 = 1 THEN Unhealthy ELSE Healthy
          BY DEF Base, UnitInv
        <4> QED BY <3>1, <4>1
      <3>8. UnitInv(u)'
        BY <1>2, <1>3, <3>1, <3>2, <3>6, <3>7 DEF UnitInv, Recording, Announcing
      <3> QED BY <2>1, <3>8
    <2>2. CASE v # u
      BY <1>5, <1>6, <2>2, UntouchedInv DEF Base, TypeInv, Untouched
    <2> QED BY <2>1, <2>2
  <1> QED BY <1>7, <1>8, <1>9 DEF Base

\* A unit that goes on to the next step of its check, and touches nothing but
\* the registry and what it logs, keeps the invariant.
LEMMA AdvanceBase ==
    ASSUME Base, NEW u \in Units, NEW there,
           pc' = [pc EXCEPT ![u] = there],
           pc[u] \in Recording \cup Announcing,
           \/ there \in Recording /\ pc[u] \in Recording
              /\ (there = "speed" => check[u].mbps # NoSpeed)
           \/ there \in Announcing /\ check[u].ev # None
           \/ there = "idle" /\ check[u].ev = None,
           UNCHANGED <<built, sm, check, ctxDone, log, alerts>>,
           shown' = [v \in Units |-> shown'[v]],
           RegistryInv(registry'),
           DOMAIN registry'.units = DOMAIN registry.units
    PROVE  Base'
  <1>1. TypeInv'
    <2>1. there \in PC
      BY DEF PC
    <2> QED BY <2>1 DEF Base, TypeInv
  <1>2. Running /\ Running'
    BY ActiveRuns DEF Base, Running, Recording, Announcing
  <1>3. BuildInv'
    BY <1>2 DEF Base, BuildInv
  <1>4. pc'[u] = there
    BY DEF Base, TypeInv
  <1>5. ASSUME NEW v \in Units PROVE UnitInv(v)'
    <2>1. CASE v = u
      <3>1. Pending(u)' <=> Pending(u)
        BY <1>4 DEF Pending, Recording, Announcing
      <3>2. Announced(u)' = Announced(u)
        BY DEF Announced
      <3>3. UnitInv(u)
        BY DEF Base
      <3>4. there \in Recording => there \notin Announcing
        BY DEF Recording, Announcing
      <3>5. UnitInv(u)'
        BY <1>4, <3>1, <3>2, <3>3, <3>4 DEF UnitInv, Recording, Announcing
      <3> QED BY <2>1, <3>5
    <2>2. CASE v # u
      BY <2>2, UntouchedInv DEF Base, TypeInv, Untouched
    <2> QED BY <2>1, <2>2
  <1> QED BY <1>1, <1>3, <1>5 DEF Base

\* Handle.Update.
LEMMA UpdateBase ==
    ASSUME Base, NEW u \in Units, Update(u)
    PROVE  Base'
  <1>1. NameOf[u] \in DOMAIN registry.units
    BY ActiveRuns DEF Base, Update
  <1>2. StatusOf(NameOf[u], sm[u]).Name = NameOf[u]
    BY DEF StatusOf
  <1>3. /\ RegistryInv(registry')
        /\ registry'.units = [registry.units EXCEPT ![NameOf[u]] = StatusOf(NameOf[u], sm[u])]
    BY <1>1, <1>2, SetSlot DEF Base, BuildInv, Update
  <1>4. DOMAIN registry'.units = DOMAIN registry.units
    BY <1>3
  <1>5. shown' = [v \in Units |-> shown'[v]]
    BY DEF Base, TypeInv, Update
  <1> QED BY <1>3, <1>4, <1>5, AdvanceBase DEF Update, Recording

\* Handle.RecordCheck.
LEMMA RecordCheckBase ==
    ASSUME Base, NEW u \in Units, RecordCheck(u)
    PROVE  Base'
  <1>1. /\ NameOf[u] \in DOMAIN registry.units
        /\ Len(log[u]) \in Nat /\ check[u].success \in BOOLEAN
    BY ActiveRuns DEF Base, RecordCheck, TypeInv, Results
  <1>2. RegistryInv(registry') /\ registry'.units = registry.units
    BY <1>1, RecordCheckRing DEF Base, BuildInv, RecordCheck
  <1>5. shown' = [v \in Units |-> shown'[v]]
    BY DEF Base, TypeInv, RecordCheck
  <1> QED BY <1>2, <1>5, AdvanceBase DEF RecordCheck, Recorded, Recording, Announcing

\* Handle.RecordSpeed.
LEMMA RecordSpeedBase ==
    ASSUME Base, NEW u \in Units, RecordSpeed(u)
    PROVE  Base'
  <1>1. /\ NameOf[u] \in DOMAIN registry.units
        /\ Len(log[u]) \in Nat /\ check[u].mbps \in Nat
    <2>1. pc[u] = "speed" /\ UnitInv(u) /\ check[u] \in Results
      BY DEF Base, RecordSpeed, TypeInv
    <2>2. check[u].mbps \in Nat
      BY <2>1 DEF UnitInv, Results
    <2> QED BY <2>1, <2>2, ActiveRuns DEF Base, TypeInv
  <1>2. RegistryInv(registry') /\ registry'.units = registry.units
    BY <1>1, RecordSpeedRing DEF Base, BuildInv, RecordSpeed
  <1>5. shown' = [v \in Units |-> shown'[v]]
    BY DEF Base, TypeInv, RecordSpeed
  <1> QED BY <1>2, <1>5, AdvanceBase DEF RecordSpeed, Recorded, Recording, Announcing

\* Registry.LogSnapshot.
LEMMA LogSnapshotBase ==
    ASSUME Base, NEW u \in Units, LogSnapshot(u)
    PROVE  Base'
  <1>1. shown' = [v \in Units |-> shown'[v]]
    <2>1. PICK state : shown' = [shown EXCEPT ![u] = state]
      BY DEF LogSnapshot
    <2> QED BY <2>1 DEF Base, TypeInv
  <1>2. check[u].ev # None
    BY DEF Base, UnitInv, LogSnapshot, Announcing
  <1>3. RegistryInv(registry') /\ registry' = registry
    BY DEF Base, BuildInv, LogSnapshot
  <1> QED BY <1>1, <1>2, <1>3, AdvanceBase DEF LogSnapshot, Announcing

\* The parity of the next number.
LEMMA Parity == \A n \in Nat : n % 2 \in {0, 1} /\ (n + 1) % 2 = 1 - (n % 2)
  OBVIOUS

\* An alert announces the state that was pending; it differs from the one
\* before, so the alerts go on alternating.
LEMMA DispatchBase ==
    ASSUME Base, NEW u \in Units, dispatchEvent(u)
    PROVE  Base'
  <1> DEFINE a == alerts[u]
             new == alertOf(check[u].ev, sm[u].consecutive)
  <1>1. /\ pc[u] = "dispatch" /\ pc' = [pc EXCEPT ![u] = "idle"]
        /\ alerts' = [alerts EXCEPT ![u] = Append(a, new)]
        /\ UNCHANGED <<built, registry, sm, check, ctxDone, log, shown>>
    BY DEF dispatchEvent
  <1>2. UnitInv(u) /\ check[u].ev \in Event /\ check[u].ev # None /\ Pending(u)
    BY <1>1 DEF Base, UnitInv, TypeInv, Results, Pending, Announcing
  <1>3. sm[u].consecutive \in Nat /\ sm[u].state \in State
    BY <1>2 DEF UnitInv, IsMachine
  <1>4. new \in Alerts /\ new.State = sm[u].state
    BY <1>2, <1>3 DEF alertOf, Alerts, UnitInv, Event, None, AlertUnhealthy, RecoveryHealthy,
                      State, Healthy, Unhealthy
  <1>5. a \in Seq(Alerts)
    BY DEF Base, TypeInv
  <1> HIDE DEF new, a
  <1>6. /\ Append(a, new) \in Seq(Alerts) /\ Append(a, new) # <<>>
        /\ Len(Append(a, new)) = Len(a) + 1 /\ Len(a) \in Nat
        /\ Append(a, new)[Len(a) + 1] = new
        /\ \A k \in 1..Len(a) : Append(a, new)[k] = a[k]
    BY <1>4, <1>5
  <1>7. TypeInv'
    <2>1. alerts' \in [Units -> Seq(Alerts)]
      BY <1>1, <1>6 DEF Base, TypeInv
    <2>2. pc' \in [Units -> PC]
      BY <1>1 DEF Base, TypeInv, PC
    <2> QED BY <1>1, <2>1, <2>2 DEF Base, TypeInv
  <1>8. BuildInv'
    BY <1>1, ActiveRuns DEF Base, BuildInv, Running
  <1>9. ASSUME NEW v \in Units PROVE UnitInv(v)'
    <2>1. CASE v = u
      <3>1. pc'[u] = "idle" /\ alerts'[u] = Append(a, new)
        BY <1>1 DEF Base, TypeInv
      <3>2. \A k \in 1..Len(a) : a[k].State = IF k % 2 = 1 THEN Unhealthy ELSE Healthy
        BY <1>2 DEF UnitInv, a
      <3>3. sm[u].state # IF a = <<>> THEN Healthy ELSE a[Len(a)].State
        BY <1>2 DEF UnitInv, Announced, a
      <3>4. new.State = IF (Len(a) + 1) % 2 = 1 THEN Unhealthy ELSE Healthy
        <4>1. CASE a = <<>>
          <5>1. Len(a) = 0 /\ (Len(a) + 1) % 2 = 1
            BY <4>1
          <5> QED BY <1>3, <1>4, <3>3, <4>1, <5>1 DEF State, Healthy, Unhealthy
        <4>2. CASE a # <<>>
          <5>1. Len(a) \in 1..Len(a)
            BY <1>5, <4>2
          <5>2. a[Len(a)].State = IF Len(a) % 2 = 1 THEN Unhealthy ELSE Healthy
            BY <3>2, <5>1
          <5>3. Len(a) % 2 \in {0, 1} /\ (Len(a) + 1) % 2 = 1 - (Len(a) % 2)
            BY <1>6, Parity
          <5> QED BY <1>3, <1>4, <3>3, <4>2, <5>2, <5>3 DEF State, Healthy, Unhealthy
        <4> QED BY <4>1, <4>2
      <3>5. \A k \in 1..Len(alerts'[u]) :
               alerts'[u][k].State = IF k % 2 = 1 THEN Unhealthy ELSE Healthy
        <4> SUFFICES ASSUME NEW k \in 1..(Len(a) + 1)
                     PROVE  Append(a, new)[k].State = IF k % 2 = 1 THEN Unhealthy ELSE Healthy
          BY <1>6, <3>1
        <4>1. CASE k = Len(a) + 1
          BY <1>6, <3>4, <4>1
        <4>2. CASE k \in 1..Len(a)
          BY <1>6, <3>2, <4>2
        <4> QED BY <1>6, <4>1, <4>2
      <3>6. Announced(u)' = sm[u].state
        BY <1>4, <1>6, <3>1 DEF Announced
      <3>7. ~Pending(u)'
        BY <3>1 DEF Pending, Recording, Announcing
      <3>8. UnitInv(u)'
        BY <1>1, <1>2, <3>1, <3>5, <3>6, <3>7 DEF UnitInv, Recording, Announcing
      <3> QED BY <2>1, <3>8
    <2>2. CASE v # u
      BY <1>1, <2>2, UntouchedInv DEF Base, TypeInv, Untouched
    <2> QED BY <2>1, <2>2
  <1> QED BY <1>7, <1>8, <1>9 DEF Base

\* Steps that change no unit.
LEMMA IdleBase == Base /\ (Cancel \/ Terminated \/ UNCHANGED vars) => Base'
  <1> SUFFICES ASSUME Base, Cancel \/ UNCHANGED vars PROVE Base'
    BY DEF Terminated
  <1>1. UNCHANGED <<built, registry, sm, pc, check, log, alerts, shown>> /\ ctxDone' \in BOOLEAN
    BY DEF Cancel, vars, Base, TypeInv
  <1>2. TypeInv' /\ BuildInv'
    BY <1>1 DEF Base, TypeInv, BuildInv, Running
  <1>3. ASSUME NEW u \in Units PROVE UnitInv(u)'
    BY <1>1, UntouchedInv DEF Base, Untouched
  <1> QED BY <1>2, <1>3 DEF Base

\* Every step keeps the invariant.
LEMMA BaseStep == Base /\ [Next]_vars => Base'
  BY BuildBase, SelectBase, ProbeBase, UpdateBase, RecordCheckBase, RecordSpeedBase,
     LogSnapshotBase, DispatchBase, IdleBase DEF Next

(* The invariant holds in every behaviour of the fleet.                    *)
THEOREM Invariance == Spec => []Base
  BY BaseInit, BaseStep, PTL DEF Spec

(* Every variable of the fleet keeps its type, and both rings of every     *)
(* name are indexed within their buffers, whatever the order of the        *)
(* checks, even when units share a name (history.go add, slice).           *)
THEOREM TypeCorrect == Spec => []TypeOK
  <1>1. Base => TypeOK
    <2> SUFFICES ASSUME Base PROVE TypeOK
      OBVIOUS
    <2>1. /\ DOMAIN registry.units = {registry.order[i] : i \in DOMAIN registry.order}
          /\ DOMAIN registry.history = DOMAIN registry.units
          /\ \A name \in DOMAIN registry.history :
                registry.history[name] \in UnitHistories
      BY DEF Base, BuildInv, RegistryInv
    <2>2. built \in 0..Len(UnitSeq) /\ ctxDone \in BOOLEAN
      BY DEF Base, TypeInv
    <2>3. pc \in [Units -> {"idle", "probe", "update", "record", "speed",
                            "snapshot", "dispatch", "stopped"}]
      BY DEF Base, TypeInv, PC, Recording, Announcing
    <2> QED BY <2>1, <2>2, <2>3 DEF TypeOK, UnitHistories, CheckSamples, SpeedSamples
  <1> QED BY <1>1, Invariance, PTL

(* For any number of units that interleave in any way, the alerts of each  *)
(* alternate and the last one names the state its machine is in, unless    *)
(* that change is still on its way (roles.go dispatchEvent).               *)
THEOREM AlertsCorrect == Spec => []AlertsFollowState
  <1>1. Base => AlertsFollowState
    <2> SUFFICES ASSUME Base, NEW u \in Units
                 PROVE  LET a == alerts[u]
                            pending == check[u].ev # None /\
                                Before(u, {"update", "record", "speed", "snapshot", "dispatch"})
                            announced == IF a = <<>> THEN Healthy ELSE a[Len(a)].State
                        IN  /\ \A k \in DOMAIN a :
                                  a[k].State = IF k % 2 = 1 THEN Unhealthy ELSE Healthy
                            /\ (announced = sm[u].state) <=> ~pending
      BY DEF AlertsFollowState
    <2>1. UnitInv(u) /\ DOMAIN alerts[u] = 1..Len(alerts[u])
      BY DEF Base, TypeInv
    <2>2. Pending(u) <=> check[u].ev # None /\
             Before(u, {"update", "record", "speed", "snapshot", "dispatch"})
      BY DEF Pending, Before, Recording, Announcing
    <2> QED BY <2>1, <2>2 DEF UnitInv, Announced
  <1> QED BY <1>1, Invariance, PTL

-----------------------------------------------------------------------------
(* The units and the registry they share.  The registry keeps one slot and *)
(* one history per name, so what follows is about units with names of      *)
(* their own.  config.go does not see to that: two targets with the same   *)
(* address have the same name, and then the slot is no unit's.             *)
DistinctNames == \A u, v \in Units : NameOf[u] = NameOf[v] => u = v

(* The samples of the first n results of a log.                            *)
ChecksOf(l, n) == {CheckSample(k, l[k].success) : k \in 1..n}
SpeedsOf(l, n) ==
    {SpeedSample(k, l[k].mbps) : k \in {m \in 1..n : l[m].mbps # NoSpeed}}

\* They are those of Checked and Measured.
LEMMA RecordedSamples ==
    ASSUME TypeInv, NEW u \in Units
    PROVE  /\ Len(log[u]) \in Nat
           /\ Checked(u) = ChecksOf(log[u], IF pc[u] \in {"update", "record"}
                                            THEN Len(log[u]) - 1 ELSE Len(log[u]))
           /\ Measured(u) = SpeedsOf(log[u], IF pc[u] \in Recording
                                             THEN Len(log[u]) - 1 ELSE Len(log[u]))
  <1>1. Len(log[u]) \in Nat
    BY DEF TypeInv
  <1>2. Len(log[u]) - One(Before(u, {"update", "record"})) =
          IF pc[u] \in {"update", "record"} THEN Len(log[u]) - 1 ELSE Len(log[u])
    BY <1>1 DEF One, Before
  <1>3. Len(log[u]) - One(Before(u, {"update", "record", "speed"})) =
          IF pc[u] \in Recording THEN Len(log[u]) - 1 ELSE Len(log[u])
    BY <1>1 DEF One, Before, Recording
  <1> QED BY <1>1, <1>2, <1>3 DEF Checked, Measured, ChecksOf, SpeedsOf

\* Logs that agree on their first n results have the same samples of them.
LEMMA SameSamples ==
    ASSUME NEW n \in Int, NEW l, NEW k, \A i \in 1..n : l[i] = k[i]
    PROVE  ChecksOf(l, n) = ChecksOf(k, n) /\ SpeedsOf(l, n) = SpeedsOf(k, n)
  BY DEF ChecksOf, SpeedsOf

\* The samples with one more result, and when they were taken.
LEMMA MoreSamples ==
    ASSUME NEW n \in Nat, NEW l
    PROVE  /\ ChecksOf(l, n + 1) = ChecksOf(l, n) \cup {CheckSample(n + 1, l[n + 1].success)}
           /\ l[n + 1].mbps = NoSpeed => SpeedsOf(l, n + 1) = SpeedsOf(l, n)
           /\ l[n + 1].mbps # NoSpeed =>
                 SpeedsOf(l, n + 1) = SpeedsOf(l, n) \cup {SpeedSample(n + 1, l[n + 1].mbps)}
           /\ \A s \in ChecksOf(l, n) \cup SpeedsOf(l, n) : s.Time \in Nat /\ s.Time < n + 1
  <1>1. 1..(n + 1) = (1..n) \cup {n + 1}
    OBVIOUS
  <1>2. ChecksOf(l, n + 1) = ChecksOf(l, n) \cup {CheckSample(n + 1, l[n + 1].success)}
    BY <1>1 DEF ChecksOf
  <1>3. ASSUME l[n + 1].mbps = NoSpeed PROVE SpeedsOf(l, n + 1) = SpeedsOf(l, n)
    <2>1. {m \in 1..(n + 1) : l[m].mbps # NoSpeed} = {m \in 1..n : l[m].mbps # NoSpeed}
      BY <1>1, <1>3
    <2> QED BY <2>1 DEF SpeedsOf
  <1>4. ASSUME l[n + 1].mbps # NoSpeed
        PROVE  SpeedsOf(l, n + 1) = SpeedsOf(l, n) \cup {SpeedSample(n + 1, l[n + 1].mbps)}
    <2>1. {m \in 1..(n + 1) : l[m].mbps # NoSpeed} =
            {m \in 1..n : l[m].mbps # NoSpeed} \cup {n + 1}
      BY <1>1, <1>4
    <2> QED BY <2>1 DEF SpeedsOf
  <1>5. \A s \in ChecksOf(l, n) \cup SpeedsOf(l, n) : s.Time \in Nat /\ s.Time < n + 1
    BY DEF ChecksOf, SpeedsOf, CheckSample, SpeedSample
  <1> QED BY <1>2, <1>3, <1>4, <1>5

SlotInv(u) ==
    log[u] # <<>> /\ pc[u] # "update" =>
        registry.units[NameOf[u]] = StatusOf(NameOf[u], sm[u])

HistoryInv(u) ==
    NameOf[u] \in DOMAIN registry.units =>
        /\ Latest(slice(registry.history[NameOf[u]].checks), Checked(u))
        /\ Latest(slice(registry.history[NameOf[u]].speeds), Measured(u))

ShownInv(u) == pc[u] = "dispatch" => shown[u] = sm[u].state

Shared == \A u \in Units : SlotInv(u) /\ HistoryInv(u) /\ ShownInv(u)

(* The slot and the history of a unit are unchanged, and what it logged.   *)
SlotUntouched(u) ==
    /\ Untouched(u) /\ shown'[u] = shown[u]
    /\ NameOf[u] \in DOMAIN registry.units <=> NameOf[u] \in DOMAIN registry'.units
    /\ registry'.units[NameOf[u]] = registry.units[NameOf[u]]
    /\ registry'.history[NameOf[u]] = registry.history[NameOf[u]]

\* A unit keeps them when neither it nor its slot is touched.
LEMMA SlotUntouchedShared ==
    ASSUME NEW u \in Units, SlotInv(u), HistoryInv(u), ShownInv(u), SlotUntouched(u)
    PROVE  SlotInv(u)' /\ HistoryInv(u)' /\ ShownInv(u)'
  BY DEF SlotInv, HistoryInv, ShownInv, SlotUntouched, Untouched, Checked, Measured, Before

\* Before the first unit is built there is nothing to keep.
LEMMA SharedInit == Init => Shared
  <1> SUFFICES ASSUME Init, NEW u \in Units PROVE SlotInv(u) /\ HistoryInv(u) /\ ShownInv(u)
    BY DEF Shared
  <1>1. log[u] = <<>> /\ pc[u] = "idle" /\ registry = NewRegistry
    BY DEF Init
  <1> QED BY <1>1, NewRegistryInv DEF SlotInv, HistoryInv, ShownInv

\* A unit that is built gets an empty history, and has logged nothing yet.
LEMMA BuildShared ==
    ASSUME Base, Shared, Build
    PROVE  Shared'
  <1> DEFINE name == NameOf[UnitSeq[built + 1]]
  <1>1. /\ DOMAIN registry'.units = DOMAIN registry.units \cup {name}
        /\ \A n \in DOMAIN registry.units : /\ registry'.units[n] = registry.units[n]
                                            /\ registry'.history[n] = registry.history[n]
        /\ name \notin DOMAIN registry.units => registry'.history[name] = newUnitHistory
    BY RegisterName DEF Build, Base, BuildInv
  <1>2. ~Running
    BY UnitsAssumption DEF Build, Running, Base, TypeInv
  <1> SUFFICES ASSUME NEW u \in Units PROVE SlotInv(u)' /\ HistoryInv(u)' /\ ShownInv(u)'
    BY DEF Shared
  <1>3. log[u] = <<>> /\ pc[u] = "idle" /\ log'[u] = <<>> /\ pc'[u] = "idle"
    BY <1>2 DEF Build, Base, BuildInv
  <1>4. HistoryInv(u)'
    <2>1. CASE NameOf[u] \in DOMAIN registry.units
      BY <1>1, <2>1, SlotUntouchedShared DEF Shared, SlotUntouched, Untouched, Build
    <2>2. CASE NameOf[u] \notin DOMAIN registry.units /\ NameOf[u] = name
      <3>1. Checked(u)' = {} /\ Measured(u)' = {}
        <4>1. TypeInv'
          BY BuildBase DEF Base
        <4>2. 1..Len(log'[u]) = {}
          BY <1>3
        <4> QED BY <1>3, <4>2 DEF Checked, Measured, Before, One
      <3>2. CheckSample(ZeroTime, FALSE) \in CheckSamples /\ SpeedSample(ZeroTime, 0) \in SpeedSamples
        BY DEF CheckSample, SpeedSample, ZeroTime, CheckSamples, SpeedSamples
      <3>3. /\ Latest(slice(newUnitHistory.checks), {})
            /\ Latest(slice(newUnitHistory.speeds), {})
        BY <3>2, NewRing DEF newUnitHistory
      <3> QED BY <1>1, <2>2, <3>1, <3>3 DEF HistoryInv
    <2>3. CASE NameOf[u] \notin DOMAIN registry.units /\ NameOf[u] # name
      BY <1>1, <2>3 DEF HistoryInv
    <2> QED BY <2>1, <2>2, <2>3
  <1> QED BY <1>3, <1>4 DEF SlotInv, ShownInv

\* Steps that touch neither the registry nor what a snapshot showed, and
\* leave what is recorded of each unit as it was.
LEMMA SelectShared ==
    ASSUME Base, Shared, NEW u \in Units, Tick(u) \/ Stop(u) \/ dispatchEvent(u)
    PROVE  Shared'
  <1>1. /\ UNCHANGED <<built, registry, sm, check, ctxDone, log, shown>>
        /\ \A v \in Units : v # u => pc'[v] = pc[v]
        /\ pc[u] \in {"idle", "dispatch"} /\ pc'[u] \in {"probe", "stopped", "idle"}
    BY DEF Tick, Stop, dispatchEvent, Base, TypeInv
  <1> SUFFICES ASSUME NEW v \in Units PROVE SlotInv(v)' /\ HistoryInv(v)' /\ ShownInv(v)'
    BY DEF Shared
  <1>2. SlotInv(v) /\ HistoryInv(v) /\ ShownInv(v)
    BY DEF Shared
  <1>3. Checked(v)' = Checked(v) /\ Measured(v)' = Measured(v)
    BY <1>1 DEF Checked, Measured, Before, One
  <1>4. SlotInv(v)' /\ ShownInv(v)'
    BY <1>1, <1>2 DEF SlotInv, ShownInv
  <1> QED BY <1>1, <1>2, <1>3, <1>4 DEF HistoryInv

\* Until RecordCheck the result of the probe is not among the recorded ones.
LEMMA ProbeShared ==
    ASSUME Base, Shared, NEW u \in Units, Probe(u)
    PROVE  Shared'
  <1>1. /\ UNCHANGED <<built, registry, ctxDone, alerts, shown>>
        /\ \A v \in Units : v # u => /\ pc'[v] = pc[v] /\ sm'[v] = sm[v]
                                     /\ log'[v] = log[v] /\ check'[v] = check[v]
        /\ pc[u] = "probe" /\ pc'[u] = "update"
    BY DEF Probe, Base, TypeInv
  <1>2. PICK o \in Outcomes(u) : log'[u] = Append(log[u], o)
    BY DEF Probe, Base, TypeInv
  <1>3. log[u] \in Seq(Result) /\ o \in Result
    BY OutcomesAreResults DEF Base, TypeInv
  <1>4. Base'
    BY ProbeBase
  <1>5. /\ Len(log'[u]) = Len(log[u]) + 1
        /\ \A i \in 1..Len(log[u]) : log'[u][i] = log[u][i]
        /\ Len(log[u]) \in Nat
    BY <1>2, <1>3
  <1>6. /\ Checked(u) = ChecksOf(log[u], Len(log[u]))
        /\ Measured(u) = SpeedsOf(log[u], Len(log[u]))
    BY <1>1, RecordedSamples DEF Base, Recording
  <1>7. /\ Checked(u)' = ChecksOf(log'[u], Len(log[u]))
        /\ Measured(u)' = SpeedsOf(log'[u], Len(log[u]))
    <2>1. Before(u, {"update", "record"})' /\ Before(u, {"update", "record", "speed"})'
      BY <1>1 DEF Before
    <2>2. /\ Len(log'[u]) - One(Before(u, {"update", "record"})') = Len(log[u])
          /\ Len(log'[u]) - One(Before(u, {"update", "record", "speed"})') = Len(log[u])
      BY <1>5, <2>1 DEF One
    <2> QED BY <2>2 DEF Checked, Measured, ChecksOf, SpeedsOf
  <1>8. Checked(u)' = Checked(u) /\ Measured(u)' = Measured(u)
    BY <1>5, <1>6, <1>7, SameSamples
  <1> SUFFICES ASSUME NEW v \in Units PROVE SlotInv(v)' /\ HistoryInv(v)' /\ ShownInv(v)'
    BY DEF Shared
  <1>9. CASE v = u
    BY <1>1, <1>8, <1>9 DEF Shared, SlotInv, HistoryInv, ShownInv
  <1>10. CASE v # u
    BY <1>1, <1>10, SlotUntouchedShared DEF Shared, SlotUntouched, Untouched
  <1> QED BY <1>9, <1>10

\* Update writes the unit's own slot.
LEMMA UpdateShared ==
    ASSUME DistinctNames, Base, Shared, NEW u \in Units, Update(u)
    PROVE  Shared'
  <1>1. NameOf[u] \in DOMAIN registry.units
    BY ActiveRuns DEF Base, Update
  <1>2. StatusOf(NameOf[u], sm[u]).Name = NameOf[u]
    BY DEF StatusOf
  <1>3. /\ registry'.units = [registry.units EXCEPT ![NameOf[u]] = StatusOf(NameOf[u], sm[u])]
        /\ registry'.history = registry.history
    BY <1>1, <1>2, SetSlot DEF Base, BuildInv, Update
  <1>4. /\ UNCHANGED <<sm, check, log, alerts, shown>>
        /\ \A v \in Units : v # u => pc'[v] = pc[v]
        /\ pc[u] = "update" /\ pc'[u] = "record"
    BY DEF Update, Base, TypeInv
  <1> SUFFICES ASSUME NEW v \in Units PROVE SlotInv(v)' /\ HistoryInv(v)' /\ ShownInv(v)'
    BY DEF Shared
  <1>5. CASE v = u
    <2>1. Checked(u)' = Checked(u) /\ Measured(u)' = Measured(u)
      BY <1>4 DEF Checked, Measured, Before, One
    <2>2. registry'.units[NameOf[u]] = StatusOf(NameOf[u], sm[u])
      BY <1>1, <1>3
    <2>3. HistoryInv(u)'
      BY <1>1, <1>3, <2>1 DEF Shared, HistoryInv
    <2> QED BY <1>4, <1>5, <2>2, <2>3 DEF SlotInv, ShownInv
  <1>6. CASE v # u
    <2>1. NameOf[v] # NameOf[u] /\ NameOf[v] \in DOMAIN registry.units
      BY <1>4, <1>6, ActiveRuns, AllRegistered DEF DistinctNames, Base
    <2> QED BY <1>3, <1>4, <1>6, <2>1, SlotUntouchedShared DEF Shared, SlotUntouched, Untouched
  <1> QED BY <1>5, <1>6

\* A sample added to the history of a unit touches no other unit.
LEMMA OthersShared ==
    ASSUME DistinctNames, Base, Shared, NEW u \in Units, pc[u] # "idle",
           UNCHANGED <<sm, check, log, alerts, shown>>,
           \A v \in Units : v # u => pc'[v] = pc[v],
           registry'.units = registry.units,
           \A name \in DOMAIN registry.units :
              name # NameOf[u] => registry'.history[name] = registry.history[name],
           NEW v \in Units, v # u
    PROVE  SlotInv(v)' /\ HistoryInv(v)' /\ ShownInv(v)'
  <1>1. NameOf[v] # NameOf[u] /\ NameOf[v] \in DOMAIN registry.units
    BY ActiveRuns, AllRegistered DEF DistinctNames, Base
  <1> QED BY <1>1, SlotUntouchedShared DEF Shared, SlotUntouched, Untouched

\* RecordCheck adds the last result of the log to the recorded ones.
LEMMA RecordCheckShared ==
    ASSUME DistinctNames, Base, Shared, NEW u \in Units, RecordCheck(u)
    PROVE  Shared'
  <1> DEFINE l == log[u]
             n == Len(l) - 1
             name == NameOf[u]
             v == CheckSample(Len(l), check[u].success)
  <1>1. pc[u] = "record" /\ UnitInv(u) /\ l \in Seq(Result) /\ check[u] \in Results
    BY DEF RecordCheck, Base, TypeInv
  <1>2. /\ name \in DOMAIN registry.units /\ n \in Nat /\ n + 1 = Len(l)
        /\ l[Len(l)].success = check[u].success /\ l[Len(l)].mbps = check[u].mbps
        /\ check[u].success \in BOOLEAN
    BY <1>1, ActiveRuns DEF Base, UnitInv, Recording, Results
  <1>3. /\ registry'.units = registry.units
        /\ registry'.history[name].checks = add(registry.history[name].checks, v)
        /\ registry'.history[name].speeds = registry.history[name].speeds
        /\ \A other \in DOMAIN registry.units :
              other # name => registry'.history[other] = registry.history[other]
    <2>1. RegistryInv(registry) /\ Len(l) \in Nat
      BY <1>2 DEF Base, BuildInv
    <2> QED BY <1>2, <2>1, RecordCheckRing DEF RecordCheck
  <1>4. /\ UNCHANGED <<sm, check, log, alerts, shown>>
        /\ \A w \in Units : w # u => pc'[w] = pc[w]
        /\ pc'[u] = IF check[u].mbps = NoSpeed THEN Recorded(u) ELSE "speed"
    BY DEF RecordCheck, Base, TypeInv
  <1>5. Base'
    BY RecordCheckBase
  <1>6. SlotInv(u)' /\ ShownInv(u)'
    BY <1>1, <1>2, <1>3, <1>4 DEF Shared, SlotInv, ShownInv, Recorded, UnitInv, Recording
  <1>7. Checked(u) = ChecksOf(l, n) /\ Measured(u) = SpeedsOf(l, n)
    BY <1>1, <1>2, RecordedSamples DEF Base, Recording
  <1>8. Checked(u)' = ChecksOf(l, n) \cup {v}
    <2>1. ~Before(u, {"update", "record"})'
      BY <1>4 DEF Before, Recorded
    <2>2. Len(l) - One(Before(u, {"update", "record"})') = Len(l)
      BY <1>2, <2>1 DEF One
    <2>3. Checked(u)' = ChecksOf(l, Len(l))
      BY <1>4, <2>2 DEF Checked, ChecksOf
    <2> HIDE DEF l, n
    <2> QED BY <1>2, <2>3, MoreSamples
  <1>9. Measured(u)' = SpeedsOf(l, n)
    <2>1. CASE check[u].mbps = NoSpeed
      <3>1. ~Before(u, {"update", "record", "speed"})'
        BY <1>4, <2>1 DEF Before, Recorded
      <3>2. Len(l) - One(Before(u, {"update", "record", "speed"})') = Len(l)
        BY <1>2, <3>1 DEF One
      <3>3. Measured(u)' = SpeedsOf(l, Len(l))
        BY <1>4, <3>2 DEF Measured, SpeedsOf
      <3> HIDE DEF l, n
      <3> QED BY <1>2, <2>1, <3>3, MoreSamples
    <2>2. CASE check[u].mbps # NoSpeed
      <3>1. Before(u, {"update", "record", "speed"})'
        BY <1>4, <2>2 DEF Before
      <3>2. Len(l) - One(Before(u, {"update", "record", "speed"})') = n
        BY <1>2, <3>1 DEF One
      <3> QED BY <1>4, <3>2 DEF Measured, SpeedsOf
    <2> QED BY <2>1, <2>2
  <1>10. HistoryInv(u)'
    <2> DEFINE ring == registry.history[name].checks
    <2>1. ring \in RingType(CheckSamples)
      BY <1>2 DEF Base, BuildInv, RegistryInv, UnitHistories
    <2>2. v \in CheckSamples /\ v.Time = n + 1 /\ \A s \in CheckSamples : s.Time \in Nat
      BY <1>2 DEF CheckSample, CheckSamples
    <2>3. Latest(slice(ring), ChecksOf(l, n))
      BY <1>2, <1>7 DEF Shared, HistoryInv
    <2>4. \A s \in ChecksOf(l, n) : s.Time \in Nat /\ s.Time < v.Time
      <3> HIDE DEF l, n, v
      <3> QED BY <1>2, <2>2, MoreSamples
    <2> HIDE DEF ring, v, l, n
    <2>5. Latest(slice(add(ring, v)), ChecksOf(l, n) \cup {v})
      BY <2>1, <2>2, <2>3, <2>4, AddLatest
    <2>6. Latest(slice(registry.history[name].speeds), SpeedsOf(l, n))
      BY <1>2, <1>7 DEF Shared, HistoryInv
    <2> QED BY <1>3, <1>8, <1>9, <2>5, <2>6 DEF HistoryInv, ring
  <1>11. ASSUME NEW w \in Units, w # u PROVE SlotInv(w)' /\ HistoryInv(w)' /\ ShownInv(w)'
    BY <1>1, <1>3, <1>4, <1>11, OthersShared
  <1> QED BY <1>6, <1>10, <1>11 DEF Shared

\* RecordSpeed adds its measurement.
LEMMA RecordSpeedShared ==
    ASSUME DistinctNames, Base, Shared, NEW u \in Units, RecordSpeed(u)
    PROVE  Shared'
  <1> DEFINE l == log[u]
             n == Len(l) - 1
             name == NameOf[u]
             v == SpeedSample(Len(l), check[u].mbps)
  <1>1. pc[u] = "speed" /\ UnitInv(u) /\ l \in Seq(Result) /\ check[u] \in Results
    BY DEF RecordSpeed, Base, TypeInv
  <1>2. /\ name \in DOMAIN registry.units /\ n \in Nat /\ n + 1 = Len(l)
        /\ l[Len(l)].mbps = check[u].mbps /\ l[Len(l)].mbps # NoSpeed
        /\ check[u].mbps \in Nat
    <2>1. name \in DOMAIN registry.units
      BY <1>1, ActiveRuns DEF Base
    <2>2. n \in Nat /\ n + 1 = Len(l) /\ l[Len(l)].mbps = check[u].mbps
      BY <1>1 DEF UnitInv, Recording
    <2>3. check[u].mbps # NoSpeed /\ check[u].mbps \in Nat \cup {NoSpeed}
      BY <1>1 DEF UnitInv, Results
    <2> QED BY <2>1, <2>2, <2>3
  <1>3. /\ registry'.units = registry.units
        /\ registry'.history[name].speeds = add(registry.history[name].speeds, v)
        /\ registry'.history[name].checks = registry.history[name].checks
        /\ \A other \in DOMAIN registry.units :
              other # name => registry'.history[other] = registry.history[other]
    <2>1. RegistryInv(registry) /\ Len(l) \in Nat
      BY <1>2 DEF Base, BuildInv
    <2>2. registry' = recordSpeed(registry, name, Len(l), check[u].mbps)
      BY DEF RecordSpeed
    <2>3. check[u].mbps \in Nat /\ name \in DOMAIN registry.units
      BY <1>2
    <2> DEFINE q == recordSpeed(registry, name, Len(l), check[u].mbps)
    <2> HIDE DEF l, name
    <2>4. /\ q.units = registry.units
          /\ q.history[name].speeds = add(registry.history[name].speeds,
                                           SpeedSample(Len(l), check[u].mbps))
          /\ q.history[name].checks = registry.history[name].checks
          /\ \A other \in DOMAIN registry.units :
                other # name => q.history[other] = registry.history[other]
      BY <2>1, <2>3, RecordSpeedRing
    <2> QED BY <2>2, <2>4
  <1>4. /\ UNCHANGED <<sm, check, log, alerts, shown>>
        /\ \A w \in Units : w # u => pc'[w] = pc[w]
        /\ pc'[u] = Recorded(u)
    BY DEF RecordSpeed, Base, TypeInv
  <1>6. SlotInv(u)' /\ ShownInv(u)'
    BY <1>1, <1>2, <1>3, <1>4 DEF Shared, SlotInv, ShownInv, Recorded, UnitInv, Recording
  <1>7. Checked(u) = ChecksOf(l, Len(l)) /\ Measured(u) = SpeedsOf(l, n)
    BY <1>1, <1>2, RecordedSamples DEF Base, Recording
  <1>8. Checked(u)' = ChecksOf(l, Len(l)) /\ Measured(u)' = SpeedsOf(l, Len(l))
    <2>1. ~Before(u, {"update", "record"})' /\ ~Before(u, {"update", "record", "speed"})'
      BY <1>4 DEF Before, Recorded
    <2>2. /\ Len(l) - One(Before(u, {"update", "record"})') = Len(l)
          /\ Len(l) - One(Before(u, {"update", "record", "speed"})') = Len(l)
      BY <1>2, <2>1 DEF One
    <2> QED BY <1>4, <2>2 DEF Checked, ChecksOf, Measured, SpeedsOf
  <1>9. SpeedsOf(l, Len(l)) = SpeedsOf(l, n) \cup {v}
    <2>1. v = SpeedSample(n + 1, l[n + 1].mbps) /\ l[n + 1].mbps # NoSpeed
      BY <1>2
    <2> HIDE DEF l, n, v
    <2>2. SpeedsOf(l, n + 1) = SpeedsOf(l, n) \cup {SpeedSample(n + 1, l[n + 1].mbps)}
      BY <1>2, <2>1, MoreSamples
    <2> QED BY <1>2, <2>1, <2>2
  <1>10. HistoryInv(u)'
    <2> DEFINE ring == registry.history[name].speeds
    <2>1. ring \in RingType(SpeedSamples)
      BY <1>2 DEF Base, BuildInv, RegistryInv, UnitHistories
    <2>2. v \in SpeedSamples /\ v.Time = n + 1 /\ \A s \in SpeedSamples : s.Time \in Nat
      BY <1>2 DEF SpeedSample, SpeedSamples
    <2>3. Latest(slice(ring), SpeedsOf(l, n))
      BY <1>2, <1>7 DEF Shared, HistoryInv
    <2>4. \A s \in SpeedsOf(l, n) : s.Time \in Nat /\ s.Time < v.Time
      <3> HIDE DEF l, n, v
      <3> QED BY <1>2, <2>2, MoreSamples
    <2>6. Latest(slice(registry.history[name].checks), ChecksOf(l, Len(l)))
      BY <1>2, <1>7 DEF Shared, HistoryInv
    <2> HIDE DEF ring, v, l, n
    <2>5. Latest(slice(add(ring, v)), SpeedsOf(l, n) \cup {v})
      BY <2>1, <2>2, <2>3, <2>4, AddLatest
    <2> QED BY <1>3, <1>8, <1>9, <2>5, <2>6 DEF HistoryInv, ring
  <1>11. ASSUME NEW w \in Units, w # u PROVE SlotInv(w)' /\ HistoryInv(w)' /\ ShownInv(w)'
    BY <1>1, <1>3, <1>4, <1>11, OthersShared
  <1> QED BY <1>6, <1>10, <1>11 DEF Shared

\* The line of a snapshot that has the name of a unit is the unit's slot.
LEMMA SnapshotLine ==
    ASSUME Base, NEW u \in Units, NameOf[u] \in DOMAIN registry.units
    PROVE  LET line == Snapshot(registry)
               i == CHOOSE j \in DOMAIN line : line[j].Name = NameOf[u]
           IN  line[i] = registry.units[NameOf[u]]
  <1> DEFINE line == Snapshot(registry)
             i == CHOOSE j \in DOMAIN line : line[j].Name = NameOf[u]
             order == registry.order
  <1>1. RegistryInv(registry)
    BY DEF Base, BuildInv
  <1>2. /\ order \in Seq(DOMAIN registry.units)
        /\ DOMAIN registry.units = {order[j] : j \in DOMAIN order}
        /\ \A name \in DOMAIN registry.units : registry.units[name].Name = name
    BY <1>1 DEF RegistryInv
  <1> HIDE DEF order
  <1>3. /\ DOMAIN line = DOMAIN order
        /\ \A j \in DOMAIN order : /\ order[j] \in DOMAIN registry.units
                                   /\ line[j] = registry.units[order[j]]
                                   /\ line[j].Name = order[j]
    BY <1>2 DEF Snapshot, order
  <1>4. PICK j \in DOMAIN order : order[j] = NameOf[u]
    BY <1>2
  <1> HIDE DEF line
  <1>5. i \in DOMAIN line /\ line[i].Name = NameOf[u]
    BY <1>3, <1>4
  <1> QED BY <1>3, <1>5 DEF line

\* The snapshot shows the state that Update has published.
LEMMA LogSnapshotShared ==
    ASSUME Base, Shared, NEW u \in Units, LogSnapshot(u)
    PROVE  Shared'
  <1>1. /\ UNCHANGED <<registry, sm, check, log, alerts>>
        /\ \A w \in Units : w # u => pc'[w] = pc[w] /\ shown'[w] = shown[w]
        /\ pc[u] = "snapshot" /\ pc'[u] = "dispatch"
    BY DEF LogSnapshot, Base, TypeInv
  <1>2. NameOf[u] \in DOMAIN registry.units /\ log[u] # <<>>
    BY <1>1, ActiveRuns DEF Base, UnitInv, Announcing
  <1>3. shown'[u] = registry.units[NameOf[u]].State
    BY <1>2, SnapshotLine DEF LogSnapshot, Base, TypeInv
  <1>4. registry.units[NameOf[u]] = StatusOf(NameOf[u], sm[u])
    BY <1>1, <1>2 DEF Shared, SlotInv
  <1>5. shown'[u] = sm[u].state
    BY <1>3, <1>4 DEF StatusOf
  <1> SUFFICES ASSUME NEW v \in Units PROVE SlotInv(v)' /\ HistoryInv(v)' /\ ShownInv(v)'
    BY DEF Shared
  <1>6. CASE v = u
    <2>1. Checked(u)' = Checked(u) /\ Measured(u)' = Measured(u)
      BY <1>1 DEF Checked, Measured, Before, One
    <2> QED BY <1>1, <1>5, <1>6, <2>1 DEF Shared, SlotInv, HistoryInv, ShownInv
  <1>7. CASE v # u
    BY <1>1, <1>7, SlotUntouchedShared DEF Shared, SlotUntouched, Untouched
  <1> QED BY <1>6, <1>7

\* Steps that change no unit and not the registry.
LEMMA IdleShared ==
    ASSUME Base, Shared, Cancel \/ Terminated \/ UNCHANGED vars
    PROVE  Shared'
  <1>1. UNCHANGED <<registry, sm, pc, check, log, alerts, shown>>
    BY DEF Cancel, Terminated, vars
  <1> QED BY <1>1, SlotUntouchedShared DEF Shared, SlotUntouched, Untouched

\* Every step keeps what holds of the shared registry.
LEMMA SharedStep ==
    ASSUME DistinctNames, Base, Shared, [Next]_vars
    PROVE  Shared'
  BY BuildShared, SelectShared, ProbeShared, UpdateShared, RecordCheckShared,
     RecordSpeedShared, LogSnapshotShared, IdleShared DEF Next

(* Units with names of their own keep the shared registry consistent.      *)
THEOREM SharedInvariance ==
    ASSUME DistinctNames
    PROVE  Spec => []Shared
  <1>1. Base /\ Shared /\ [Next]_vars => Shared'
    BY SharedStep
  <1> QED BY <1>1, SharedInit, Invariance, PTL DEF Spec

(* However the units interleave, the slot of a unit that is not about to   *)
(* update it is the status of its machine (registry.go set,                *)
(* Handle.Update).                                                         *)
THEOREM SlotsCorrect ==
    ASSUME DistinctNames
    PROVE  Spec => []SlotFollowsMachine
  <1>1. Shared => SlotFollowsMachine
    BY DEF Shared, SlotInv, SlotFollowsMachine, Before
  <1> QED BY <1>1, SharedInvariance, PTL

(* A snapshot line logged for a change shows the unit in its new state,    *)
(* whatever other units do between its Update and its LogSnapshot          *)
(* (registry.go LogSnapshot).                                              *)
THEOREM SnapshotsCorrect ==
    ASSUME DistinctNames
    PROVE  Spec => []SnapshotShowsChange
  <1>1. Shared => SnapshotShowsChange
    BY DEF Shared, ShownInv, SnapshotShowsChange
  <1> QED BY <1>1, SharedInvariance, PTL

(* A summary taken at any moment lists the latest results and measurements *)
(* of every unit, in order and without gaps, for every capacity of the     *)
(* rings and however often they have wrapped around (registry.go Summary,  *)
(* history.go add, slice).                                                 *)
THEOREM SummariesCorrect ==
    ASSUME DistinctNames
    PROVE  Spec => []SummaryTellsTheLog
  <1>1. Base /\ Shared => SummaryTellsTheLog
    <2> DEFINE fs == Summary(registry)
    <2> SUFFICES ASSUME Base, Shared, NEW u \in Units, NEW i \in DOMAIN fs,
                        fs[i].Status.Name = NameOf[u]
                 PROVE  /\ Latest(fs[i].Checks, Checked(u))
                        /\ Latest(fs[i].Speeds, Measured(u))
      BY DEF SummaryTellsTheLog, toWireSummary
    <2> DEFINE name == registry.order[i]
    <2>1. RegistryInv(registry)
      BY DEF Base, BuildInv
    <2>2. i \in DOMAIN registry.order
      BY <2>1 DEF Summary, RegistryInv
    <2>3. name \in DOMAIN registry.units /\ registry.units[name].Name = name
      BY <2>1, <2>2 DEF RegistryInv
    <2>4. fs[i] = UnitSummary(registry, name)
      BY <2>1, <2>2 DEF Summary, RegistryInv
    <2>5. /\ fs[i].Status = registry.units[name]
          /\ fs[i].Checks = slice(registry.history[name].checks)
          /\ fs[i].Speeds = slice(registry.history[name].speeds)
      BY <2>4 DEF UnitSummary
    <2>6. name = NameOf[u]
      BY <2>3, <2>5
    <2> QED BY <2>3, <2>5, <2>6 DEF Shared, HistoryInv
  <1> QED BY <1>1, Invariance, SharedInvariance, PTL

-----------------------------------------------------------------------------
(* Each unit by itself: AlertMachine.                                      *)

(* The results that unit u observed.                                       *)
Observed(u) == [k \in 1..Len(log[u]) |-> log[u][k].success]

Machine(u) ==
    INSTANCE AlertMachine
      WITH Configs <- {ConfigOf[u]}, cfg <- ConfigOf[u], sm <- sm[u],
           event <- check[u].ev, results <- Observed(u)

(* A probe is under way only while the bound on the checks is not reached. *)
WithinBound == \A u \in Units : pc[u] = "probe" => Len(log[u]) < MaxChecks

LEMMA WithinBoundStep == Base /\ WithinBound /\ [Next]_vars => WithinBound'
  <1> SUFFICES ASSUME Base, WithinBound, [Next]_vars, NEW u \in Units, pc'[u] = "probe"
               PROVE  Len(log'[u]) < MaxChecks
    BY DEF WithinBound
  <1>1. pc \in [Units -> PC] /\ log \in [Units -> Seq(Result)]
    BY DEF Base, TypeInv
  <1>2. CASE Build \/ Cancel \/ Terminated \/ UNCHANGED vars
    BY <1>2 DEF WithinBound, Build, Cancel, Terminated, vars
  <1>3. ASSUME NEW v \in Units, Tick(v)
        PROVE  Len(log'[u]) < MaxChecks
    BY <1>1, <1>3 DEF WithinBound, Tick
  <1>4. ASSUME NEW v \in Units, Probe(v)
        PROVE  Len(log'[u]) < MaxChecks
    <2>1. pc' = [pc EXCEPT ![v] = "update"]
      BY <1>4 DEF Probe
    <2>2. u # v /\ pc[u] = "probe"
      BY <1>1, <2>1
    <2>3. log'[u] = log[u]
      BY <1>1, <1>4, <2>2 DEF Probe
    <2> QED BY <2>2, <2>3 DEF WithinBound
  <1>5. ASSUME NEW v \in Units,
               Stop(v) \/ Update(v) \/ RecordCheck(v) \/ RecordSpeed(v)
                 \/ LogSnapshot(v) \/ dispatchEvent(v)
        PROVE  Len(log'[u]) < MaxChecks
    <2>1. log' = log
      BY <1>5 DEF Stop, Update, RecordCheck, RecordSpeed, LogSnapshot, dispatchEvent
    <2>2. PICK there : there # "probe" /\ pc' = [pc EXCEPT ![v] = there]
      BY <1>5 DEF Stop, Update, RecordCheck, RecordSpeed, LogSnapshot, dispatchEvent, Recorded
    <2>3. pc[u] = "probe"
      BY <1>1, <2>2
    <2> QED BY <2>1, <2>3 DEF WithinBound
  <1> QED BY <1>2, <1>3, <1>4, <1>5 DEF Next

\* The instance reads StateMachine and Window as Fleet does.
LEMMA SameNew ==
    ASSUME NEW u, NEW c
    PROVE  Machine(u)!NewWithConfig(c) = NewWithConfig(c) /\ Machine(u)!None = None
  BY DEF NewWithConfig, Machine!NewWithConfig, newWindow, Machine!newWindow, Healthy,
         Machine!Healthy, ZeroTime, Machine!ZeroTime, None, Machine!None

LEMMA SameObserve ==
    ASSUME NEW u, NEW m, NEW success, NEW t
    PROVE  Machine(u)!Observe(m, success, t) = Observe(m, success, t)
  <1>1. \A n : Machine(u)!HasWindow(n) = HasWindow(n)
    BY DEF HasWindow, Machine!HasWindow, IsNil, Machine!IsNil
  <1>2. \A w : /\ Machine(u)!Full(w) = Full(w)
               /\ Machine(u)!Availability(w) = Availability(w)
    BY DEF Full, Machine!Full, Availability, Machine!Availability
  <1>3. Machine(u)!count(m, success, t) = count(m, success, t)
    BY DEF count, Machine!count, HasWindow, Machine!HasWindow, IsNil, Machine!IsNil,
           Add, Machine!Add, Full, Machine!Full, One, Machine!One
  <1>4. \A n, s, e : Machine(u)!Enter(n, s, e) = Enter(n, s, e)
    BY DEF Enter, Machine!Enter
  <1> DEFINE c == count(m, success, t)
  <1>5. Machine(u)!transitionAvailability(c) = transitionAvailability(c)
    BY <1>1, <1>2, <1>4
       DEF transitionAvailability, Machine!transitionAvailability, Healthy, Machine!Healthy,
           Unhealthy, Machine!Unhealthy, None, Machine!None, AlertUnhealthy,
           Machine!AlertUnhealthy, RecoveryHealthy, Machine!RecoveryHealthy
  <1>6. Machine(u)!transitionConsecutive(c, success) = transitionConsecutive(c, success)
    BY <1>4
       DEF transitionConsecutive, Machine!transitionConsecutive, Healthy, Machine!Healthy,
           Unhealthy, Machine!Unhealthy, None, Machine!None, AlertUnhealthy,
           Machine!AlertUnhealthy, RecoveryHealthy, Machine!RecoveryHealthy
  <1> QED BY <1>3, <1>5, <1>6
             DEF Observe, Machine!Observe, TriggerAvailability, Machine!TriggerAvailability

\* A probe adds its result to those observed.
LEMMA ObservedAppend ==
    ASSUME NEW s \in Seq(Result), NEW o \in Result
    PROVE  LET r == [k \in 1..Len(s) |-> s[k].success]
               t == Append(s, o)
           IN  /\ Len(r) = Len(s)
               /\ [k \in 1..Len(t) |-> t[k].success] = Append(r, o.success)
  <1> DEFINE r == [k \in 1..Len(s) |-> s[k].success]
             t == Append(s, o)
             q == [k \in 1..Len(t) |-> t[k].success]
  <1>1. Len(s) \in Nat /\ Len(t) = Len(s) + 1
    OBVIOUS
  <1>2. \A k \in 1..Len(s) : s[k] \in Result /\ t[k] = s[k]
    OBVIOUS
  <1>3. t[Len(s) + 1] = o
    OBVIOUS
  <1> HIDE DEF t
  <1>4. r \in Seq(BOOLEAN) /\ Len(r) = Len(s) /\ o.success \in BOOLEAN
    BY <1>1, <1>2 DEF Result
  <1>5. q \in Seq(BOOLEAN) /\ Len(q) = Len(r) + 1
    BY <1>1, <1>2, <1>3, <1>4 DEF Result
  <1>6. \A k \in 1..Len(r) : q[k] = r[k]
    BY <1>1, <1>2, <1>4
  <1>7. q[Len(r) + 1] = o.success
    BY <1>1, <1>3, <1>4
  <1> HIDE DEF q, r
  <1>8. q = Append(r, o.success)
    BY <1>4, <1>5, <1>6, <1>7
  <1> QED BY <1>4, <1>8 DEF q, r, t

\* A step of the daemon is a check of the unit's machine or leaves it alone.
LEMMA MachineStep ==
    ASSUME NEW u \in Units, Base, WithinBound, [Next]_vars
    PROVE  [Machine(u)!Next]_(Machine(u)!vars)
  <1>1. /\ log \in [Units -> Seq(Result)] /\ check \in [Units -> Results]
        /\ sm = [v \in Units |-> sm[v]]
    BY DEF Base, TypeInv
  <1>2. ASSUME sm'[u] = sm[u], check'[u] = check[u], log'[u] = log[u]
        PROVE  UNCHANGED Machine(u)!vars
    BY <1>2 DEF Machine!vars, Observed
  <1>3. ASSUME UNCHANGED <<sm, check, log>>
        PROVE  UNCHANGED Machine(u)!vars
    BY <1>2, <1>3
  <1>4. CASE Build \/ Cancel \/ Terminated \/ UNCHANGED vars
    BY <1>3, <1>4 DEF Build, Cancel, Terminated, vars
  <1>5. ASSUME NEW v \in Units,
               Tick(v) \/ Stop(v) \/ Update(v) \/ RecordCheck(v) \/ RecordSpeed(v)
                 \/ LogSnapshot(v) \/ dispatchEvent(v)
        PROVE  UNCHANGED Machine(u)!vars
    BY <1>3, <1>5
       DEF Tick, Stop, Update, RecordCheck, RecordSpeed, LogSnapshot, dispatchEvent
  <1>6. ASSUME NEW v \in Units, Probe(v), v # u
        PROVE  UNCHANGED Machine(u)!vars
    BY <1>1, <1>2, <1>6 DEF Probe
  <1>7. ASSUME Probe(u)
        PROVE  Machine(u)!Next
    <2>1. PICK o \in Outcomes(u) :
             LET r == Observe(sm[u], o.success, Len(log[u]) + 1)
             IN  /\ sm' = [sm EXCEPT ![u] = r.sm]
                 /\ check' = [check EXCEPT ![u] = [success |-> o.success,
                                                   mbps |-> o.mbps, ev |-> r.event]]
                 /\ log' = [log EXCEPT ![u] = Append(@, o)]
      BY <1>7 DEF Probe
    <2> DEFINE r == Observe(sm[u], o.success, Len(log[u]) + 1)
    <2>2. o \in Result /\ o.success \in BOOLEAN /\ log[u] \in Seq(Result)
      BY <1>1, OutcomesAreResults DEF Result
    <2>3. Len(log[u]) < MaxChecks
      BY <1>7 DEF WithinBound, Probe
    <2>4. sm'[u] = r.sm /\ check'[u].ev = r.event /\ log'[u] = Append(log[u], o)
      BY <1>1, <2>1
    <2>5. Len(Observed(u)) = Len(log[u]) /\ Observed(u)' = Append(Observed(u), o.success)
      BY <2>2, <2>4, ObservedAppend DEF Observed
    <2>6. Machine(u)!Observe(sm[u], o.success, Len(Observed(u)) + 1) = r
      BY <2>5, SameObserve
    <2>7. Machine(u)!Check(o.success)
      BY <2>3, <2>4, <2>5, <2>6 DEF Machine!Check
    <2> QED BY <2>2, <2>7 DEF Machine!Next
  <1> QED BY <1>4, <1>5, <1>6, <1>7 DEF Next

\* However the goroutines of the daemon interleave around the registry, each
\* unit's machine goes through a behaviour of AlertMachine: what is proved
\* there of one machine and its log holds of every unit of the fleet
\* (internal/roles: a machine belongs to one goroutine).
THEOREM UnitsAreMachines ==
    ASSUME NEW u \in Units
    PROVE  Spec => Machine(u)!Spec
  <1>1. Init => Machine(u)!Init
    <2> SUFFICES ASSUME Init PROVE Machine(u)!Init
      OBVIOUS
    <2>1. sm[u] = NewWithConfig(ConfigOf[u]) /\ check[u] = NoCheck /\ log[u] = <<>>
      BY DEF Init
    <2>2. Observed(u) = <<>> /\ check[u].ev = None
      BY <2>1 DEF Observed, NoCheck
    <2>3. sm[u] = Machine(u)!NewWithConfig(ConfigOf[u]) /\ check[u].ev = Machine(u)!None
      BY <2>1, <2>2, SameNew
    <2> QED BY <2>2, <2>3 DEF Machine!Init
  <1>2. Base /\ WithinBound /\ [Next]_vars => [Machine(u)!Next]_(Machine(u)!vars)
    BY MachineStep
  <1>3. Init => WithinBound
    BY DEF Init, WithinBound
  <1> QED BY <1>1, <1>2, <1>3, WithinBoundStep, Invariance, PTL DEF Spec, Machine!Spec

=============================================================================
