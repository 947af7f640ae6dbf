------------------------- MODULE PingExchange_proofs ------------------------
(***************************************************************************)
(* Proofs about PingExchange, for any number of monitors and probes and    *)
(* any number of crashes: a probe succeeds only by the answer to its own   *)
(* ping, and no answer of a pong server is rejected.                       *)
(*                                                                         *)
(* The server's invariant (PongServer_proofs) holds here too: it was shown *)
(* for whatever lines clients send, and a crash leaves every connection    *)
(* closed.  What is added ties each probe to its connection.               *)
(***************************************************************************)
EXTENDS PingExchange, PongServer_proofs

(* What monitors send.                                                     *)
Pings == {Request(ToString(id), TypePing, t) : id \in Nat, t \in Nat}

ProbeTypes ==
    /\ probe \in [Monitors -> [pc : {"idle", "dial", "write", "read"},
                               count : Nat, id : Nat]]
    /\ outcome \in [Conns -> {"none", "dial", "write", "read", "ok"}]

(* A probe under way has a connection of its own, on which it sent nothing *)
(* or its ping.                                                            *)
ProbeInv(m) ==
    /\ ~At(m, "idle") => Of(m) \in Conns
    /\ At(m, "dial") => conn[Of(m)].client = "none"
    /\ At(m, "write") => conn[Of(m)].client = "open" /\ conn[Of(m)].sent = <<>>
    /\ At(m, "read") =>
          /\ conn[Of(m)].client = "open"
          /\ conn[Of(m)].sent =
                <<Request(ToString(probe[m].id), TypePing, probe[m].count)>>

(* Nobody reads the responses before ReadPong, so that what the client has *)
(* not read is all that was written, unless the connection was reset.      *)
Unread(c) ==
    /\ c.out \in {c.written, <<>>}
    /\ c.open => c.out = c.written

(* A connection is up at the client's end only for the probe under way,    *)
(* and one of a later probe was not made; a probe that found the target    *)
(* healthy had sent one line and got its response.                         *)
ProbedConn(m, k) ==
    LET c == conn[<<m, k>>]
    IN  /\ Unread(c)
        /\ c.client = "open" => ~At(m, "idle") /\ k = probe[m].count
        /\ k > probe[m].count => c.client = "none"
        /\ outcome[<<m, k>>] = "ok" =>
              c.client = "closed" /\ Len(c.sent) = 1 /\ Len(c.written) >= 1

ExchangeInv ==
    /\ ConnsInv(Pings)
    /\ ProbeTypes
    /\ \A m \in Monitors : ProbeInv(m)
    /\ \A m \in Monitors, k \in Nat : <<m, k>> \in Conns => ProbedConn(m, k)

-----------------------------------------------------------------------------
(* What a pong server answers to a ping.                                   *)
LEMMA PingAnswered ==
    ASSUME NEW id, NEW t
    PROVE  LET ping == Request(id, TypePing, t)
           IN  /\ Answer(ping) = NewPong(ping)
               /\ Judge(NewPong(ping), id) = "ok"
  <1> DEFINE ping == Request(id, TypePing, t)
  <1>1. /\ ping.json = TRUE /\ ping.Version = Version /\ ping.Type = TypePing
        /\ ping.ID = id
    BY DEF Request, Line
  <1>2. Oversized.json = FALSE
    BY DEF Oversized, Line
  <1>3. ping # Oversized
    BY <1>1, <1>2
  <1>4. NewPong(ping).json = TRUE /\ NewPong(ping).Type = TypePong /\ NewPong(ping).ID = id
    BY <1>1 DEF NewPong, Response
  <1> HIDE DEF ping
  <1>5. DecodeRequest(ping).req = ping /\ DecodeRequest(ping).err = "nil"
    BY <1>1 DEF DecodeRequest
  <1>6. Dispatch(Handlers, ping) = Handle(ping)
    BY <1>1, <1>5, PongServerAssumption DEF Dispatch
  <1>7. Handle(ping) = NewPong(ping)
    BY <1>1 DEF Handle
  <1>8. Answer(ping) = NewPong(ping)
    BY <1>3, <1>6, <1>7 DEF Answer
  <1>9. Judge(NewPong(ping), id) = "ok"
    BY <1>4 DEF Judge
  <1> QED BY <1>8, <1>9 DEF ping

(* What the server does to a connection: it reads what the client sent and *)
(* may write more.                                                         *)
Served(c, d) ==
    /\ d.client = c.client /\ d.sent = c.sent
    /\ Len(d.written) >= Len(c.written)
    /\ Unread(c) => Unread(d)

LEMMA ServedSame == ASSUME NEW L, NEW c \in ConnSet(L) PROVE Served(c, c)
  BY Fields DEF Served

LEMMA ServedKept ==
    ASSUME NEW L, NEW c \in ConnSet(L), NEW d \in ConnSet(L),
           d.client = c.client, d.sent = c.sent, d.written = c.written,
           \/ d.out = c.out /\ d.open = c.open
           \/ d.out \in {c.out, <<>>} /\ ~d.open
    PROVE  Served(c, d)
  <1>1. Len(c.written) \in Nat
    BY Fields
  <1>2. Unread(c) => Unread(d)
    BY DEF Unread
  <1> QED BY <1>1, <1>2 DEF Served

LEMMA BecomeServed ==
    ASSUME NEW L, ConnsInv(L), NEW i \in Conns, NEW cs, Become(i, cs),
           \A d \in cs : Served(conn[i], d)
    PROVE  \A j \in Conns : Served(conn[j], conn'[j])
  <1>1. PICK d \in cs : conn' = [conn EXCEPT ![i] = d]
    BY DEF Become
  <1> QED BY <1>1, ServedSame DEF ConnsInv

LEMMA CloseServed ==
    ASSUME NEW L, NEW c \in ConnSet(L), NEW e \in ConnSet(L), NEW d \in Close(e),
           e.client = c.client, e.sent = c.sent, e.written = c.written, e.out = c.out
    PROVE  Served(c, d)
  <1>1. /\ d \in ConnSet(L) /\ d.open = FALSE /\ d.client = e.client
        /\ d.sent = e.sent /\ d.written = e.written /\ d.out \in {e.out, <<>>}
    BY CloseFields
  <1> QED BY <1>1, ServedKept

LEMMA WriteServed ==
    ASSUME NEW L, NEW c \in ConnSet(L), c.open
    PROVE  Served(c, [c EXCEPT !.out = Append(@, c.reply),
                               !.written = Append(@, c.reply),
                               !.pc = IF @ = "reject" THEN "leave" ELSE "read"])
  <1> DEFINE p == IF c.pc = "reject" THEN "leave" ELSE "read"
             d == [c EXCEPT !.out = Append(@, c.reply),
                            !.written = Append(@, c.reply), !.pc = p]
  <1>1. /\ d.written = Append(c.written, c.reply) /\ d.out = Append(c.out, c.reply)
        /\ d.client = c.client /\ d.sent = c.sent /\ d.open = c.open
    BY DEF ConnSet
  <1>2. c.written \in Seq(Replies(L)) /\ c.reply \in Replies(L)
    BY Fields
  <1> HIDE DEF d
  <1>3. Len(d.written) >= Len(c.written)
    BY <1>1, <1>2
  <1>4. Unread(c) => Unread(d)
    BY <1>1 DEF Unread
  <1>5. Served(c, d)
    BY <1>1, <1>3, <1>4 DEF Served
  <1> QED BY <1>5 DEF d

LEMMA ServerServes ==
    ASSUME NEW L, ConnsInv(L), Server
    PROVE  \A j \in Conns : Served(conn[j], conn'[j])
  <1>1. CASE conn' = conn
    BY <1>1, ServedSame DEF ConnsInv
  <1>2. CASE CloseListener
    <2> SUFFICES ASSUME NEW j \in Conns PROVE Served(conn[j], conn'[j])
      OBVIOUS
    <2> DEFINE c == conn[j]
               d == [c EXCEPT !.open = FALSE, !.sock = <<>>]
    <2>1. c \in ConnSet(L) /\ conn'[j] \in {c, d}
      BY <1>2 DEF ConnsInv, CloseListener
    <2>2. <<>> \in Seq(L)
      BY EmptySeq
    <2>3. /\ d \in ConnSet(L) /\ d.client = c.client /\ d.sent = c.sent
          /\ d.written = c.written /\ d.out = c.out /\ d.open = FALSE
      BY <2>1, <2>2 DEF ConnSet
    <2> HIDE DEF c, d
    <2>4. Served(c, d)
      BY <2>1, <2>3, ServedKept
    <2> QED BY <2>1, <2>4, ServedSame DEF c
  <1>3. ASSUME NEW i \in Conns, Accept(i) \/ Handler(i) \/ ShutClose(i) \/ Stopped(i)
        PROVE  \A j \in Conns : Served(conn[j], conn'[j])
    <2> DEFINE c == conn[i]
    <2>1. ConnInv(L, c) /\ c \in ConnSet(L)
      BY DEF ConnsInv
    <2>2. CASE Accept(i)
      <3> DEFINE d == [c EXCEPT !.pc = "read", !.closer = "wait"]
      <3>1. Become(i, {d})
        BY <2>2 DEF Accept
      <3>2. /\ d \in ConnSet(L) /\ d.client = c.client /\ d.sent = c.sent
            /\ d.written = c.written /\ d.out = c.out /\ d.open = c.open
        BY <2>1 DEF ConnSet
      <3> HIDE DEF d
      <3>3. Served(c, d)
        BY <2>1, <3>2, ServedKept
      <3> QED BY <3>1, <3>3, BecomeServed
    <2>3. CASE Stopped(i)
      <3> DEFINE d == [c EXCEPT !.closer = "done"]
      <3>1. Become(i, {d})
        BY <2>3 DEF Stopped
      <3>2. /\ d \in ConnSet(L) /\ d.client = c.client /\ d.sent = c.sent
            /\ d.written = c.written /\ d.out = c.out /\ d.open = c.open
        BY <2>1 DEF ConnSet
      <3> HIDE DEF d
      <3>3. Served(c, d)
        BY <2>1, <3>2, ServedKept
      <3> QED BY <3>1, <3>3, BecomeServed
    <2>4. CASE ShutClose(i)
      <3> DEFINE e == [c EXCEPT !.closer = "done"]
      <3>1. Become(i, Close(e))
        BY <2>4 DEF ShutClose
      <3>2. /\ e \in ConnSet(L) /\ e.client = c.client /\ e.sent = c.sent
            /\ e.written = c.written /\ e.out = c.out
        BY <2>1 DEF ConnSet
      <3> HIDE DEF e
      <3>3. \A d \in Close(e) : Served(c, d)
        BY <2>1, <3>2, CloseServed
      <3> QED BY <3>1, <3>3, BecomeServed
    <2>5. CASE Fill(i)
      <3> DEFINE new(n) == [c EXCEPT !.buf = SubSeq(c.sock, 1, n),
                                     !.sock = SubSeq(@, n + 1, Len(@))]
                 ns == {m \in 1..Len(c.sock) : \A k \in 1..(m - 1) : c.sock[k] # Oversized}
      <3>1. NeedsData(c) /\ c.open /\ Become(i, {new(n) : n \in ns})
        BY <2>5 DEF Fill
      <3>2. ASSUME NEW n \in ns
            PROVE  Served(c, new(n))
        <4> DEFINE d == new(n)
        <4>1. d \in ConnSet(L)
          BY <2>1, <3>1, FillInv DEF ConnInv
        <4>2. /\ d.client = c.client /\ d.sent = c.sent
              /\ d.written = c.written /\ d.out = c.out /\ d.open = c.open
          BY <2>1 DEF ConnSet
        <4> HIDE DEF d
        <4>3. Served(c, d)
          BY <2>1, <4>1, <4>2, ServedKept
        <4> QED BY <4>3 DEF d
      <3> HIDE DEF new, ns
      <3> QED BY <3>1, <3>2, BecomeServed
    <2>6. CASE TakeLine(i)
      <3> DEFINE d == [c EXCEPT !.buf = Tail(@), !.reply = Answer(Head(c.buf)),
                                !.pc = IF Head(c.buf) = Oversized THEN "reject"
                                                                  ELSE "write"]
      <3>1. c.pc = "read" /\ c.buf # <<>> /\ Become(i, {d})
        BY <2>6 DEF TakeLine
      <3>2. d \in ConnSet(L)
        BY <2>1, <3>1, TakeInv DEF ConnInv
      <3>3. /\ d.client = c.client /\ d.sent = c.sent
            /\ d.written = c.written /\ d.out = c.out /\ d.open = c.open
        BY <2>1 DEF ConnSet
      <3> HIDE DEF d
      <3>4. Served(c, d)
        BY <2>1, <3>2, <3>3, ServedKept
      <3> QED BY <3>1, <3>4, BecomeServed
    <2>7. CASE Write(i)
      <3> DEFINE d == [c EXCEPT !.out = Append(@, c.reply),
                                !.written = Append(@, c.reply),
                                !.pc = IF @ = "reject" THEN "leave" ELSE "read"]
      <3>1. c.open /\ Become(i, {d})
        BY <2>7 DEF Write
      <3>2. Served(c, d)
        BY <2>1, <3>1, WriteServed
      <3> HIDE DEF d
      <3> QED BY <3>1, <3>2, BecomeServed
    <2>8. CASE ReadFails(i) \/ WriteFails(i) \/ Leave(i)
      <3> DEFINE e == [c EXCEPT !.pc = "done"]
      <3>1. Become(i, Close(e))
        BY <2>8 DEF ReadFails, WriteFails, Leave, Return
      <3>2. /\ e \in ConnSet(L) /\ e.client = c.client /\ e.sent = c.sent
            /\ e.written = c.written /\ e.out = c.out
        BY <2>1 DEF ConnSet
      <3> HIDE DEF e
      <3>3. \A d \in Close(e) : Served(c, d)
        BY <2>1, <3>2, CloseServed
      <3> QED BY <3>1, <3>3, BecomeServed
    <2> QED BY <1>3, <2>2, <2>3, <2>4, <2>5, <2>6, <2>7, <2>8 DEF Handler
  <1> QED BY <1>1, <1>2, <1>3 DEF Server, Bind, AcceptFails, Cancel

-----------------------------------------------------------------------------
(* Steps that only serve connections keep the invariant.                   *)
LEMMA ServedInv ==
    ASSUME ExchangeInv, ConnsInv(Pings)', UNCHANGED <<probe, outcome>>,
           \A j \in Conns : Served(conn[j], conn'[j])
    PROVE  ExchangeInv'
  <1> USE DEF Served, At, Of
  <1>1. ProbeTypes'
    BY DEF ExchangeInv, ProbeTypes
  <1>2. ASSUME NEW m \in Monitors
        PROVE  ProbeInv(m)'
    BY DEF ExchangeInv, ProbeInv
  <1>3. ASSUME NEW m \in Monitors, NEW k \in Nat, <<m, k>> \in Conns
        PROVE  ProbedConn(m, k)'
    <2>1. ProbedConn(m, k) /\ Served(conn[<<m, k>>], conn'[<<m, k>>])
      BY <1>3 DEF ExchangeInv
    <2>2. /\ Len(conn[<<m, k>>].written) \in Nat
          /\ Len(conn'[<<m, k>>].written) \in Nat
      <3>1. conn[<<m, k>>] \in ConnSet(Pings) /\ conn'[<<m, k>>] \in ConnSet(Pings)
        BY <1>3 DEF ExchangeInv, ConnsInv
      <3> QED BY <3>1, Fields
    <2> QED BY <2>1, <2>2 DEF ProbedConn
  <1> QED BY <1>1, <1>2, <1>3 DEF ExchangeInv

LEMMA CrashInv ==
    ASSUME ExchangeInv, Crash
    PROVE  ExchangeInv'
  <1>1. ASSUME NEW i \in Conns
        PROVE  ConnInv(Pings, conn'[i]) /\ Served(conn[i], conn'[i])
    <2> DEFINE c == conn[i]
               d == [c EXCEPT !.open = FALSE, !.sock = <<>>, !.buf = <<>>,
                              !.pc = "done", !.closer = "done"]
    <2>1. ConnInv(Pings, c) /\ c \in ConnSet(Pings)
      BY DEF ExchangeInv, ConnsInv
    <2>2. conn'[i] = IF c.client = "none" THEN c ELSE d
      BY DEF Crash
    <2>3. <<>> \in Seq(Pings)
      BY EmptySeq
    <2>4. d \in ConnSet(Pings)
      BY <2>1, <2>3 DEF ConnSet
    <2>5. /\ d.client = c.client /\ d.sent = c.sent /\ d.written = c.written
          /\ d.out = c.out /\ d.open = FALSE /\ d.sock = <<>> /\ d.pc = "done"
      BY <2>1 DEF ConnSet
    <2> HIDE DEF d, c
    <2>6. c.client # "none" => ConnInv(Pings, d)
      BY <2>1, <2>4, <2>5, EndInv
    <2>7. Served(c, d) /\ Served(c, c)
      BY <2>1, <2>4, <2>5, ServedKept, ServedSame
    <2> QED BY <2>1, <2>2, <2>6, <2>7 DEF c
  <1>2. conn' \in [Conns -> ConnSet(Pings)]
    <2>1. \A i \in Conns : conn'[i] \in ConnSet(Pings)
      BY <1>1 DEF ConnInv
    <2>2. conn' = [i \in Conns |-> conn'[i]]
      BY DEF Crash
    <2> QED BY <2>1, <2>2
  <1>3. ConnsInv(Pings)'
    BY <1>1, <1>2 DEF ConnsInv
  <1>4. UNCHANGED <<probe, outcome>>
    BY DEF Crash
  <1> QED BY <1>1, <1>3, <1>4, ServedInv

-----------------------------------------------------------------------------
(* The steps of a monitor touch its own probe and connection only.         *)

LEMMA HangupFields ==
    ASSUME NEW L, ConnsInv(L), NEW i \in Conns, Hangup(i)
    PROVE  /\ \A j \in Conns : j # i => conn'[j] = conn[j]
           /\ conn'[i].client = "closed" /\ conn'[i].sent = conn[i].sent
           /\ conn'[i].written = conn[i].written /\ conn'[i].out = conn[i].out
           /\ conn'[i].open = conn[i].open
  <1>1. PICK s : conn' = [conn EXCEPT ![i] = [conn[i] EXCEPT !.client = "closed",
                                                            !.sock = s]]
    BY DEF Hangup, Become
  <1>2. conn \in [Conns -> ConnSet(L)] /\ conn[i] \in ConnSet(L)
    BY DEF ConnsInv
  <1> QED BY <1>1, <1>2 DEF ConnSet

LEMMA FinishInv ==
    ASSUME ExchangeInv, NEW m \in Monitors, ~At(m, "idle"),
           NEW err \in {"dial", "write", "read", "ok"}, Finish(m, err),
           err = "ok" => /\ conn[Of(m)].client = "open" /\ Len(conn[Of(m)].sent) = 1
                         /\ Len(conn[Of(m)].written) >= 1
    PROVE  ExchangeInv'
  <1> DEFINE i == Of(m)
  <1>1. i \in Conns /\ ConnsInv(Pings) /\ ProbeTypes
    BY DEF ExchangeInv, ProbeInv
  <1>2. /\ probe[m].count \in Nat /\ i = <<m, probe[m].count>>
        /\ probe' = [probe EXCEPT ![m].pc = "idle"]
        /\ outcome' = [outcome EXCEPT ![i] = err]
    BY <1>1 DEF Finish, Goto, Of, ProbeTypes
  <1>3. ConnsInv(Pings)'
    <2>1. CASE Hangup(i)
      BY <1>1, <2>1, HangupStep
    <2>2. CASE UNCHANGED vars
      BY <1>1, <2>2 DEF vars, ConnsInv
    <2> QED BY <2>1, <2>2 DEF Finish
  <1>4. /\ \A j \in Conns : j # i => conn'[j] = conn[j]
        /\ conn'[i].client # "open" /\ conn'[i].sent = conn[i].sent
        /\ conn[i].client = "open" => conn'[i].client = "closed"
        /\ conn[i].client = "none" => conn'[i].client = "none"
        /\ conn'[i].written = conn[i].written /\ conn'[i].out = conn[i].out
        /\ conn'[i].open = conn[i].open
    <2>1. CASE conn[i].client = "open"
      <3>1. Hangup(i)
        BY <2>1 DEF Finish
      <3>2. /\ \A j \in Conns : j # i => conn'[j] = conn[j]
            /\ conn'[i].client = "closed" /\ conn'[i].sent = conn[i].sent
            /\ conn'[i].written = conn[i].written /\ conn'[i].out = conn[i].out
            /\ conn'[i].open = conn[i].open
        <4> HIDE DEF i
        <4> QED BY <1>1, <3>1, HangupFields
      <3> HIDE DEF i
      <3> QED BY <2>1, <3>2
    <2>2. CASE conn[i].client # "open"
      BY <2>2 DEF Finish, vars
    <2> QED BY <2>1, <2>2
  <1>5. /\ \A n \in Monitors : probe'[n].count = probe[n].count /\ probe'[n].id = probe[n].id
        /\ \A n \in Monitors : n # m => probe'[n] = probe[n]
        /\ probe'[m].pc = "idle"
    BY <1>1, <1>2 DEF ProbeTypes
  <1>6. ProbeTypes'
    BY <1>1, <1>2 DEF ProbeTypes
  <1>7. ASSUME NEW n \in Monitors
        PROVE  ProbeInv(n)'
    <2>1. CASE n = m
      BY <1>5, <2>1 DEF ProbeInv, At
    <2>2. CASE n # m
      <3>1. ProbeInv(n) /\ Of(n)' = Of(n) /\ Of(n) # i /\ probe'[n] = probe[n]
        BY <1>2, <1>5, <2>2 DEF ExchangeInv, Of
      <3>2. \A w : At(n, w)' = At(n, w)
        BY <3>1 DEF At
      <3> HIDE DEF i
      <3> QED BY <1>4, <3>1, <3>2 DEF ProbeInv, At
    <2> QED BY <2>1, <2>2
  <1>8. ASSUME NEW n \in Monitors, NEW k \in Nat, <<n, k>> \in Conns
        PROVE  ProbedConn(n, k)'
    <2>1. ProbedConn(n, k)
      BY <1>8 DEF ExchangeInv
    <2>2. CASE <<n, k>> = i
      <3>1. n = m /\ k = probe[m].count /\ outcome'[i] = err
        BY <1>1, <1>2, <2>2 DEF ProbeTypes
      <3>2. Unread(conn'[i])
        BY <1>4, <2>1, <2>2 DEF ProbedConn, Unread
      <3>3. ~(k > probe'[n].count)
        BY <1>2, <1>5, <3>1
      <3> HIDE DEF i
      <3> QED BY <1>4, <2>2, <3>1, <3>2, <3>3 DEF ProbedConn, i
    <2>3. CASE <<n, k>> # i
      <3>1. conn'[<<n, k>>] = conn[<<n, k>>] /\ outcome'[<<n, k>>] = outcome[<<n, k>>]
        BY <1>1, <1>2, <1>4, <1>8, <2>3 DEF ProbeTypes
      <3>2. n = m => k # probe[m].count
        BY <1>2, <2>3
      <3> QED BY <1>5, <2>1, <3>1, <3>2 DEF ProbedConn, At
    <2> QED BY <2>2, <2>3
  <1> QED BY <1>3, <1>6, <1>7, <1>8 DEF ExchangeInv

LEMMA TickInv ==
    ASSUME ExchangeInv, NEW m \in Monitors, Tick(m)
    PROVE  ExchangeInv'
  <1> DEFINE n == probe[m].count + 1
  <1>1. /\ ConnsInv(Pings) /\ ProbeTypes /\ At(m, "idle") /\ <<m, n>> \in Conns
        /\ probe' = [probe EXCEPT ![m].pc = "dial", ![m].count = @ + 1]
        /\ conn' = conn /\ outcome' = outcome
    BY DEF ExchangeInv, Tick, vars
  <1>2. probe[m].count \in Nat /\ n \in Nat
    BY <1>1 DEF ProbeTypes
  <1>3. /\ \A w \in Monitors : w # m => probe'[w] = probe[w]
        /\ probe'[m].pc = "dial" /\ probe'[m].count = n
    BY <1>1 DEF ProbeTypes
  <1>4. conn[<<m, n>>].client = "none"
    <2>1. n > probe[m].count
      BY <1>2
    <2> QED BY <1>1, <1>2, <2>1 DEF ExchangeInv, ProbedConn
  <1>5. ProbeTypes'
    BY <1>1, <1>2 DEF ProbeTypes
  <1> HIDE DEF n
  <1>6. ASSUME NEW w \in Monitors
        PROVE  ProbeInv(w)'
    <2>1. CASE w = m
      BY <1>1, <1>3, <1>4, <2>1 DEF ProbeInv, At, Of
    <2>2. CASE w # m
      BY <1>1, <1>3, <2>2, ZenonT(30) DEF ExchangeInv, ProbeInv, At, Of
    <2> QED BY <2>1, <2>2
  <1>7. ASSUME NEW w \in Monitors, NEW k \in Nat, <<w, k>> \in Conns
        PROVE  ProbedConn(w, k)'
    <2>1. ProbedConn(w, k)
      BY <1>7 DEF ExchangeInv
    <2>2. w = m /\ k > n => k > probe[m].count
      BY <1>2 DEF n
    <2> QED BY <1>1, <1>3, <2>1, <2>2 DEF ProbedConn, At
  <1>8. ConnsInv(Pings)'
    BY <1>1 DEF ConnsInv
  <1> QED BY <1>5, <1>6, <1>7, <1>8 DEF ExchangeInv

LEMMA DialContextInv ==
    ASSUME ExchangeInv, NEW m \in Monitors, DialContext(m)
    PROVE  ExchangeInv'
  <1> DEFINE i == Of(m)
             d == [conn[i] EXCEPT !.client = "open", !.open = TRUE]
  <1>1. /\ ConnsInv(Pings) /\ ProbeTypes /\ At(m, "dial") /\ i \in Conns
        /\ probe' = [probe EXCEPT ![m].pc = "write", ![m].id = @ + 1]
        /\ Dial(i) /\ outcome' = outcome
    BY DEF ExchangeInv, ProbeInv, DialContext, At
  <1>2. probe[m].count \in Nat /\ i = <<m, probe[m].count>>
    BY <1>1 DEF ProbeTypes, Of
  <1>3. ConnsInv(Pings)'
    <2> HIDE DEF i
    <2> QED BY <1>1, DialStep
  <1>4. conn' = [conn EXCEPT ![i] = d]
    BY <1>1 DEF Dial, Become
  <1> HIDE DEF i
  <1>5. /\ \A j \in Conns : j # i => conn'[j] = conn[j]
        /\ conn'[i].client = "open" /\ conn'[i].sent = <<>> /\ Unread(conn'[i])
    <2>1. ConnInv(Pings, conn[i]) /\ conn[i] \in ConnSet(Pings) /\ conn[i].client = "none"
      BY <1>1 DEF ConnsInv, Dial
    <2>2. conn[i].sent = <<>> /\ conn[i].out = <<>> /\ conn[i].written = <<>>
      BY <2>1, NotMade
    <2>3. /\ d.client = "open" /\ d.sent = conn[i].sent /\ d.out = conn[i].out
          /\ d.written = conn[i].written
      BY <2>1 DEF ConnSet
    <2>4. conn'[i] = d /\ \A j \in Conns : j # i => conn'[j] = conn[j]
      BY <1>1, <1>4 DEF ConnsInv
    <2> HIDE DEF d
    <2> QED BY <2>2, <2>3, <2>4 DEF Unread
  <1>6. /\ \A w \in Monitors : probe'[w].count = probe[w].count
        /\ \A w \in Monitors : w # m => probe'[w] = probe[w]
        /\ probe'[m].pc = "write"
    BY <1>1 DEF ProbeTypes
  <1>7. ProbeTypes'
    BY <1>1 DEF ProbeTypes
  <1>8. ASSUME NEW w \in Monitors
        PROVE  ProbeInv(w)'
    <2>1. CASE w = m
      <3>1. Of(w)' = i
        BY <1>2, <1>6, <2>1 DEF Of
      <3> QED BY <1>1, <1>5, <1>6, <2>1, <3>1 DEF ProbeInv, At
    <2>2. CASE w # m
      <3>1. ProbeInv(w) /\ Of(w)' = Of(w) /\ Of(w) # i /\ probe'[w] = probe[w]
        BY <1>2, <1>6, <2>2 DEF ExchangeInv, Of
      <3> QED BY <1>5, <3>1 DEF ProbeInv, At
    <2> QED BY <2>1, <2>2
  <1>9. ASSUME NEW w \in Monitors, NEW k \in Nat, <<w, k>> \in Conns
        PROVE  ProbedConn(w, k)'
    <2>1. ProbedConn(w, k)
      BY <1>9 DEF ExchangeInv
    <2>2. CASE <<w, k>> = i
      <3>1. w = m /\ k = probe[m].count
        BY <1>2, <2>2
      <3>2. outcome[<<w, k>>] # "ok"
        BY <1>1, <2>1, <2>2 DEF ProbedConn, Dial
      <3>3. ~(k > probe'[w].count)
        BY <1>2, <1>6, <3>1
      <3> QED BY <1>1, <1>5, <1>6, <2>2, <3>1, <3>2, <3>3 DEF ProbedConn, At
    <2>3. CASE <<w, k>> # i
      <3>1. conn'[<<w, k>>] = conn[<<w, k>>]
        BY <1>5, <1>9, <2>3
      <3>2. w = m => k # probe[m].count
        BY <1>2, <2>3
      <3> QED BY <1>1, <1>6, <2>1, <3>1, <3>2 DEF ProbedConn, At
    <2> QED BY <2>2, <2>3
  <1> QED BY <1>3, <1>7, <1>8, <1>9 DEF ExchangeInv

LEMMA WritePingInv ==
    ASSUME ExchangeInv, NEW m \in Monitors, WritePing(m)
    PROVE  ExchangeInv'
  <1> DEFINE i == Of(m)
             ping == Request(ToString(probe[m].id), TypePing, probe[m].count)
             s == IF conn[i].open THEN Append(conn[i].sock, ping) ELSE conn[i].sock
             d == [conn[i] EXCEPT !.sent = Append(@, ping), !.sock = s]
  <1>1. /\ ConnsInv(Pings) /\ ProbeTypes /\ At(m, "write") /\ i \in Conns
        /\ probe' = [probe EXCEPT ![m].pc = "read"]
        /\ Send(i, ping) /\ outcome' = outcome /\ conn[i].sent = <<>>
    BY DEF ExchangeInv, ProbeInv, WritePing, At, Goto
  <1>2. probe[m].count \in Nat /\ probe[m].id \in Nat /\ i = <<m, probe[m].count>>
    BY <1>1 DEF ProbeTypes, Of
  <1>3. ping \in Pings
    BY <1>2 DEF Pings
  <1>4. conn' = [conn EXCEPT ![i] = d] /\ conn[i].client = "open"
    BY <1>1 DEF Send, Become
  <1> HIDE DEF i, ping, s
  <1>5. ConnsInv(Pings)'
    BY <1>1, <1>3, SendStep
  <1>6. /\ \A j \in Conns : j # i => conn'[j] = conn[j]
        /\ conn'[i].client = "open" /\ conn'[i].sent = <<ping>>
        /\ conn'[i].out = conn[i].out /\ conn'[i].written = conn[i].written
        /\ conn'[i].open = conn[i].open
    <2>1. conn[i] \in ConnSet(Pings)
      BY <1>1 DEF ConnsInv
    <2>2. /\ d.client = "open" /\ d.sent = Append(conn[i].sent, ping)
          /\ d.out = conn[i].out /\ d.written = conn[i].written
          /\ d.open = conn[i].open
      BY <1>4, <2>1 DEF ConnSet
    <2>3. conn'[i] = d /\ \A j \in Conns : j # i => conn'[j] = conn[j]
      BY <1>1, <1>4 DEF ConnsInv
    <2> HIDE DEF d
    <2>4. Append(<<>>, ping) = <<ping>>
      OBVIOUS
    <2> QED BY <1>1, <2>2, <2>3, <2>4
  <1>7. /\ \A w \in Monitors : probe'[w].count = probe[w].count /\ probe'[w].id = probe[w].id
        /\ \A w \in Monitors : w # m => probe'[w] = probe[w]
        /\ probe'[m].pc = "read"
    BY <1>1 DEF ProbeTypes
  <1>8. ProbeTypes'
    BY <1>1 DEF ProbeTypes
  <1>9. ASSUME NEW w \in Monitors
        PROVE  ProbeInv(w)'
    <2>1. CASE w = m
      <3>1. Of(w)' = i
        BY <1>2, <1>7, <2>1 DEF Of
      <3> QED BY <1>1, <1>6, <1>7, <2>1, <3>1 DEF ProbeInv, At, ping
    <2>2. CASE w # m
      <3>1. ProbeInv(w) /\ Of(w)' = Of(w) /\ Of(w) # i /\ probe'[w] = probe[w]
        BY <1>2, <1>7, <2>2 DEF ExchangeInv, Of
      <3> QED BY <1>6, <3>1 DEF ProbeInv, At
    <2> QED BY <2>1, <2>2
  <1>10. ASSUME NEW w \in Monitors, NEW k \in Nat, <<w, k>> \in Conns
         PROVE  ProbedConn(w, k)'
    <2>1. ProbedConn(w, k)
      BY <1>10 DEF ExchangeInv
    <2>2. CASE <<w, k>> = i
      <3>1. w = m /\ k = probe[m].count
        BY <1>2, <2>2
      <3>2. outcome[<<w, k>>] # "ok"
        BY <1>4, <2>1, <2>2 DEF ProbedConn
      <3>3. ~(k > probe'[w].count)
        BY <1>2, <1>7, <3>1
      <3>4. Unread(conn'[i])
        BY <1>6, <2>1, <2>2 DEF ProbedConn, Unread
      <3> QED BY <1>1, <1>6, <1>7, <2>2, <3>1, <3>2, <3>3, <3>4 DEF ProbedConn, At
    <2>3. CASE <<w, k>> # i
      <3>1. conn'[<<w, k>>] = conn[<<w, k>>]
        BY <1>6, <1>10, <2>3
      <3>2. w = m => k # probe[m].count
        BY <1>2, <2>3
      <3> QED BY <1>1, <1>7, <2>1, <3>1, <3>2 DEF ProbedConn, At
    <2> QED BY <2>2, <2>3
  <1> QED BY <1>5, <1>8, <1>9, <1>10 DEF ExchangeInv

(* What a probe reads is the answer to its ping.                           *)
LEMMA ReadPongInv ==
    ASSUME ExchangeInv, NEW m \in Monitors, ReadPong(m)
    PROVE  ExchangeInv'
  <1> DEFINE i == Of(m)
             c == conn[i]
             id == ToString(probe[m].id)
             ping == Request(id, TypePing, probe[m].count)
  <1>1. /\ ~At(m, "idle") /\ i \in Conns /\ c.client = "open" /\ c.sent = <<ping>>
        /\ c.out # <<>> /\ Finish(m, Judge(Head(c.out), id))
    BY DEF ExchangeInv, ProbeInv, ReadPong, At
  <1>2. c \in ConnSet(Pings) /\ Answered(c)
    BY <1>1 DEF ExchangeInv, ConnsInv, ConnInv
  <1>3. c.out = c.written
    <2>1. probe[m].count \in Nat /\ <<m, probe[m].count>> \in Conns
      BY <1>1 DEF ExchangeInv, ProbeTypes, Of
    <2>2. Unread(c)
      BY <2>1 DEF ExchangeInv, ProbedConn, Of
    <2> QED BY <1>1, <2>2 DEF Unread
  <1>4. c.written \in Seq(Replies(Pings)) /\ Len(c.written) \in Nat
    BY <1>2, Fields
  <1> HIDE DEF i, c, ping, id
  <1>5. Len(c.written) >= 1 /\ Head(c.out) = c.written[1]
    BY <1>1, <1>3, <1>4
  <1>6. Len(c.sent) = 1 /\ c.sent[1] = ping
    BY <1>1
  <1>7. Head(c.out) = Answer(ping)
    BY <1>2, <1>4, <1>5, <1>6 DEF Answered
  <1>8. Judge(Head(c.out), id) = "ok"
    BY <1>7, PingAnswered DEF ping
  <1> QED BY <1>1, <1>5, <1>6, <1>8, FinishInv DEF i, c

LEMMA ExchangeInitInv == ProbeInit => ExchangeInv
  <1> SUFFICES ASSUME ProbeInit PROVE ExchangeInv
    OBVIOUS
  <1>1. ConnsInv(Pings)
    BY InitInv DEF ProbeInit
  <1>2. ProbeTypes
    BY DEF ProbeInit, ProbeTypes
  <1>3. \A m \in Monitors : ProbeInv(m)
    BY DEF ProbeInit, ProbeInv, At
  <1>4. ASSUME NEW m \in Monitors, NEW k \in Nat, <<m, k>> \in Conns
        PROVE  ProbedConn(m, k)
    <2>1. conn[<<m, k>>] = NoConn /\ outcome[<<m, k>>] = "none"
      BY <1>4 DEF ProbeInit, Init
    <2>2. NoConn.client = "none" /\ NoConn.out = <<>> /\ NoConn.written = <<>>
      BY DEF NoConn
    <2> QED BY <2>1, <2>2 DEF ProbedConn, Unread
  <1> QED BY <1>1, <1>2, <1>3, <1>4 DEF ExchangeInv

LEMMA ExchangeStepInv == ExchangeInv /\ [Exchange]_allVars => ExchangeInv'
  <1> SUFFICES ASSUME ExchangeInv, [Exchange]_allVars PROVE ExchangeInv'
    OBVIOUS
  <1>1. CASE Server /\ UNCHANGED <<probe, outcome, crashes>>
    <2>1. ConnsInv(Pings)
      BY DEF ExchangeInv
    <2>2. ConnsInv(Pings)' /\ \A j \in Conns : Served(conn[j], conn'[j])
      BY <1>1, <2>1, ServerInv, ServerServes
    <2> QED BY <1>1, <2>2, ServedInv
  <1>2. CASE Crash
    BY <1>2, CrashInv
  <1>3. ASSUME NEW m \in Monitors, Tick(m) \/ Probe(m)
        PROVE  ExchangeInv'
    <2>1. CASE Tick(m) \/ DialContext(m) \/ WritePing(m) \/ ReadPong(m)
      BY <2>1, TickInv, DialContextInv, WritePingInv, ReadPongInv
    <2>2. CASE DialFails(m) \/ WritePingFails(m) \/ ReadPongFails(m)
      <3>1. ~At(m, "idle")
        BY <2>2 DEF DialFails, WritePingFails, ReadPongFails, At
      <3> QED BY <2>2, <3>1, FinishInv DEF DialFails, WritePingFails, ReadPongFails
    <2> QED BY <1>3, <2>1, <2>2 DEF Probe
  <1>4. CASE UNCHANGED allVars
    BY <1>4 DEF allVars, vars, ExchangeInv, ConnsInv, ProbeTypes, ProbeInv, ProbedConn,
                Unread, At, Of
  <1> QED BY <1>1, <1>2, <1>3, <1>4 DEF Exchange

(* Every probe under way has its own connection, on which its ping is the  *)
(* only line.                                                              *)
THEOREM ExchangeInvariance == ExchangeSpec => []ExchangeInv
  BY ExchangeInitInv, ExchangeStepInv, PTL DEF ExchangeSpec

(* A probe succeeds only by the answer to its very ping, for any number of *)
(* monitors, probes and crashes of the server.                             *)
THEOREM SuccessCorrect == ExchangeSpec => []SuccessIsAnswered
  <1>1. ExchangeInv => SuccessIsAnswered
    <2> SUFFICES ASSUME ExchangeInv, NEW i \in Conns, outcome[i] = "ok"
                 PROVE  Len(conn[i].sent) = 1 /\ conn[i].written = <<NewPong(conn[i].sent[1])>>
      BY DEF SuccessIsAnswered
    <2> DEFINE c == conn[i]
    <2>1. PICK m \in Monitors, k \in Nat : i = <<m, k>>
      BY PingExchangeAssumption
    <2>2. Len(c.sent) = 1 /\ Len(c.written) >= 1
      BY <2>1 DEF ExchangeInv, ProbedConn
    <2>3. c \in ConnSet(Pings) /\ Answered(c)
      BY DEF ExchangeInv, ConnsInv, ConnInv
    <2>4. c.sent \in Seq(Pings) /\ c.written \in Seq(Replies(Pings))
      BY <2>3, Fields
    <2> HIDE DEF c
    <2>5. Len(c.written) = 1 /\ c.written[1] = Answer(c.sent[1])
      BY <2>2, <2>3, <2>4 DEF Answered
    <2>6. c.sent[1] \in Pings
      BY <2>2, <2>4
    <2>7. Answer(c.sent[1]) = NewPong(c.sent[1])
      BY <2>6, PingAnswered DEF Pings
    <2>8. c.written = <<c.written[1]>>
      BY <2>4, <2>5
    <2> QED BY <2>2, <2>5, <2>7, <2>8 DEF c
  <1> QED BY <1>1, ExchangeInvariance, PTL

(* No monitor rejects what a pong server answers.                          *)
THEOREM AnswersUnderstood == ExchangeSpec => []AnswersAccepted
  <1>1. ExchangeInv => AnswersAccepted
    BY DEF ExchangeInv, ProbeTypes, AnswersAccepted
  <1> QED BY <1>1, ExchangeInvariance, PTL

=============================================================================
