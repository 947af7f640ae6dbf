-------------------------- MODULE PongServer_proofs -------------------------
(***************************************************************************)
(* Proofs about PongServer, for any number of connections, any lines, any  *)
(* request types and send buffers of any size: over every connection the   *)
(* responses follow the requests, and no request is lost.                  *)
(*                                                                         *)
(* The invariant is one about a single connection: what the client sent is *)
(* cut into what was answered, the line that is being answered, what the   *)
(* reader has buffered and what is still with the kernel, in this order.   *)
(* The lemmas about the operations are stated for a record, so that they   *)
(* also serve PingExchange, where the same server meets other clients.     *)
(***************************************************************************)
EXTENDS PongServer, WellFoundedInduction, TLAPS

(* What a server can answer to lines of L; reply begins as a zero value.   *)
Replies(L) == {Answer(line) : line \in L} \cup {NoConn.reply}

ConnSet(L) ==
    [client : {"none", "open", "closed"}, open : BOOLEAN, sock : Seq(L),
     buf : Seq(L), out : Seq(Replies(L)),
     pc : {"none", "read", "write", "reject", "leave", "done"},
     reply : Replies(L), closer : {"none", "wait", "done"},
     sent : Seq(L), written : Seq(Replies(L))]

(* How many lines the handler has taken from its reader: the ones it has   *)
(* answered, and the one it is answering.                                  *)
Taken(c) == Len(c.written) + (IF Writing(c) THEN 1 ELSE 0)

(* What was written answers the lines that came first, and only the last   *)
(* response may be for a line that was too long: the handler then leaves.  *)
Answered(c) ==
    /\ Len(c.written) <= Len(c.sent)
    /\ \A k \in 1..Len(c.written) :
          /\ c.written[k] = Answer(c.sent[k])
          /\ c.sent[k] = Oversized =>
                k = Len(c.written) /\ c.pc \in {"leave", "done"}

(* The sequence t stands in s behind the first n elements.                 *)
Follows(s, n, t) ==
    /\ n + Len(t) <= Len(s)
    /\ \A k \in 1..Len(t) : t[k] = s[n + k]

(* The lines that follow are where the handler will find them, in order.   *)
(* A handler that has ended may have left some in its reader.              *)
Pending(c) ==
    /\ Taken(c) <= Len(c.sent)
    /\ Follows(c.sent, Taken(c), c.buf)
    /\ Follows(c.sent, Taken(c) + Len(c.buf), c.sock)
    /\ Writing(c) => c.reply = Answer(c.sent[Taken(c)])
    /\ c.pc = "write" => c.sent[Taken(c)] # Oversized

(* While both ends are up there are no others.                             *)
Complete(c) ==
    c.client = "open" /\ c.open =>
        Len(c.sent) = Taken(c) + Len(c.buf) + Len(c.sock)

(* A connection that was not made, not accepted, or is over.               *)
Phases(c) ==
    /\ c.client = "none" => /\ c.pc = "none" /\ c.closer = "none"
                            /\ c.sent = <<>> /\ c.out = <<>> /\ ~c.open
    /\ c.pc = "none" => c.buf = <<>> /\ c.written = <<>>
    /\ c.pc = "done" => ~c.open
    /\ ~c.open => c.sock = <<>>

ConnInv(L, c) ==
    /\ c \in ConnSet(L)
    /\ Phases(c)
    /\ Answered(c)
    /\ c.pc # "done" => Pending(c)
    /\ Complete(c)

ConnsInv(L) ==
    /\ conn \in [Conns -> ConnSet(L)]
    /\ \A i \in Conns : ConnInv(L, conn[i])

Inv == ConnsInv(Lines)

-----------------------------------------------------------------------------
(* Sequences that stand in others.                                         *)

LEMMA EmptySeq == ASSUME NEW S PROVE <<>> \in Seq(S)
  OBVIOUS

LEMMA FollowsNone ==
    ASSUME NEW S, NEW s \in Seq(S), NEW n \in Nat, n <= Len(s)
    PROVE  Follows(s, n, <<>>)
  BY DEF Follows

LEMMA FollowsGrown ==
    ASSUME NEW S, NEW s \in Seq(S), NEW n \in Nat, NEW t \in Seq(S), NEW x \in S,
           Follows(s, n, t)
    PROVE  Follows(Append(s, x), n, t)
  BY DEF Follows

LEMMA FollowsBoth ==
    ASSUME NEW S, NEW s \in Seq(S), NEW n \in Nat, NEW t \in Seq(S), NEW x \in S,
           Follows(s, n, t), Len(s) = n + Len(t)
    PROVE  Follows(Append(s, x), n, Append(t, x))
  BY DEF Follows

LEMMA FollowsTail ==
    ASSUME NEW S, NEW s \in Seq(S), NEW n \in Nat, NEW t \in Seq(S), t # <<>>,
           Follows(s, n, t)
    PROVE  /\ Head(t) = s[n + 1] /\ n + 1 <= Len(s)
           /\ Tail(t) \in Seq(S) /\ Len(Tail(t)) = Len(t) - 1
           /\ Follows(s, n + 1, Tail(t))
  BY DEF Follows

LEMMA FollowsSplit ==
    ASSUME NEW S, NEW s \in Seq(S), NEW n \in Nat, NEW t \in Seq(S),
           Follows(s, n, t), NEW m \in 1..Len(t)
    PROVE  /\ SubSeq(t, 1, m) \in Seq(S) /\ Len(SubSeq(t, 1, m)) = m
           /\ SubSeq(t, m + 1, Len(t)) \in Seq(S)
           /\ Len(SubSeq(t, m + 1, Len(t))) = Len(t) - m
           /\ Follows(s, n, SubSeq(t, 1, m))
           /\ Follows(s, n + m, SubSeq(t, m + 1, Len(t)))
  <1> DEFINE a == SubSeq(t, 1, m)
             b == SubSeq(t, m + 1, Len(t))
  <1>1. a \in Seq(S) /\ Len(a) = m /\ \A k \in 1..m : a[k] = t[k]
    OBVIOUS
  <1>2. b \in Seq(S) /\ Len(b) = Len(t) - m
    OBVIOUS
  <1>3. \A k \in 1..Len(b) : b[k] = t[m + k]
    OBVIOUS
  <1> HIDE DEF a, b
  <1>4. Follows(s, n, a)
    <2>1. n + m <= Len(s) /\ \A k \in 1..m : t[k] = s[n + k]
      <3>1. Len(s) \in Nat /\ Len(t) \in Nat /\ m \in Nat /\ m <= Len(t)
        OBVIOUS
      <3> QED BY <3>1 DEF Follows
    <2> QED BY <1>1, <2>1 DEF Follows
  <1>5. Follows(s, n + m, b)
    <2>1. Len(s) \in Nat /\ Len(t) \in Nat /\ m \in Nat /\ m <= Len(t)
      OBVIOUS
    <2>2. n + Len(t) <= Len(s) /\ \A k \in 1..Len(t) : t[k] = s[n + k]
      BY DEF Follows
    <2>3. (n + m) + Len(b) <= Len(s)
      BY <1>2, <2>1, <2>2
    <2>4. ASSUME NEW k \in 1..Len(b)
          PROVE  b[k] = s[(n + m) + k]
      <3>1. m + k \in 1..Len(t) /\ n + (m + k) = (n + m) + k
        BY <1>2, <2>1
      <3> QED BY <1>3, <2>2, <3>1
    <2> QED BY <2>3, <2>4 DEF Follows
  <1> QED BY <1>1, <1>2, <1>4, <1>5 DEF a, b

-----------------------------------------------------------------------------
(* The operations on a connection.                                         *)

(* The fields of a connection, and how much its handler has taken.         *)
LEMMA Fields ==
    ASSUME NEW L, NEW c \in ConnSet(L)
    PROVE  /\ c.client \in {"none", "open", "closed"} /\ c.open \in BOOLEAN
           /\ c.sock \in Seq(L) /\ c.buf \in Seq(L) /\ c.out \in Seq(Replies(L))
           /\ c.pc \in {"none", "read", "write", "reject", "leave", "done"}
           /\ c.reply \in Replies(L) /\ c.closer \in {"none", "wait", "done"}
           /\ c.sent \in Seq(L) /\ c.written \in Seq(Replies(L))
           /\ Taken(c) \in Nat /\ Taken(c) >= Len(c.written)
           /\ Writing(c) => Taken(c) = Len(c.written) + 1
           /\ ~Writing(c) => Taken(c) = Len(c.written)
  BY DEF ConnSet, Taken

(* Nothing was sent yet: the connection was not made, or just now.         *)
LEMMA NothingSent ==
    ASSUME NEW L, NEW c \in ConnSet(L),
           c.pc = "none", c.closer = "none", c.sent = <<>>, c.out = <<>>,
           c.sock = <<>>, c.buf = <<>>, c.written = <<>>, c.client = "none" => ~c.open
    PROVE  ConnInv(L, c)
  <1>1. Taken(c) = 0 /\ ~Writing(c)
    BY DEF Taken, Writing
  <1> QED BY <1>1 DEF ConnInv, Phases, Answered, Pending, Complete, Follows

LEMMA NoConnInv == ASSUME NEW L PROVE ConnInv(L, NoConn)
  <1>1. NoConn \in ConnSet(L)
    BY DEF ConnSet, Replies, NoConn
  <1>2. /\ NoConn.pc = "none" /\ NoConn.closer = "none" /\ NoConn.sent = <<>>
        /\ NoConn.sock = <<>> /\ NoConn.buf = <<>> /\ NoConn.written = <<>>
        /\ NoConn.out = <<>> /\ ~NoConn.open
    BY DEF NoConn
  <1> QED BY <1>1, <1>2, NothingSent

(* What a connection that was not made looks like.                         *)
LEMMA NotMade ==
    ASSUME NEW L, NEW c, ConnInv(L, c), c.client = "none"
    PROVE  /\ c.pc = "none" /\ c.closer = "none" /\ c.sent = <<>> /\ c.out = <<>>
           /\ c.sock = <<>> /\ c.buf = <<>> /\ c.written = <<>> /\ ~c.open
  BY DEF ConnInv, Phases

(* A handler has a connection.                                             *)
LEMMA Handled ==
    ASSUME NEW L, NEW c, ConnInv(L, c), c.pc # "none"
    PROVE  c.client # "none"
  BY NotMade

LEMMA DialInv ==
    ASSUME NEW L, NEW c, ConnInv(L, c), c.client = "none"
    PROVE  ConnInv(L, [c EXCEPT !.client = "open", !.open = TRUE])
  <1> DEFINE d == [c EXCEPT !.client = "open", !.open = TRUE]
  <1>1. c \in ConnSet(L)
    BY DEF ConnInv
  <1>2. d \in ConnSet(L)
    BY <1>1 DEF ConnSet
  <1>3. /\ d.client = "open" /\ d.sock = c.sock /\ d.buf = c.buf /\ d.out = c.out
        /\ d.pc = c.pc /\ d.closer = c.closer /\ d.sent = c.sent
        /\ d.written = c.written
    BY <1>1 DEF ConnSet
  <1> HIDE DEF d
  <1>4. ConnInv(L, d)
    BY <1>2, <1>3, NotMade, NothingSent
  <1> QED BY <1>4 DEF d

(* A line that is sent comes last, among what was sent and in the socket.  *)
LEMMA SendInv ==
    ASSUME NEW L, NEW c, ConnInv(L, c), c.client = "open", NEW line \in L
    PROVE  ConnInv(L, [c EXCEPT !.sent = Append(@, line),
                                !.sock = IF c.open THEN Append(@, line) ELSE @])
  <1> DEFINE d == [c EXCEPT !.sent = Append(@, line),
                            !.sock = IF c.open THEN Append(@, line) ELSE @]
  <1>1. c \in ConnSet(L)
    BY DEF ConnInv
  <1>2. /\ Append(c.sent, line) \in Seq(L)
        /\ (IF c.open THEN Append(c.sock, line) ELSE c.sock) \in Seq(L)
    BY <1>1, Fields
  <1>3. d \in ConnSet(L)
    BY <1>1, <1>2 DEF ConnSet
  <1>4. /\ d.sent = Append(c.sent, line)
        /\ d.sock = IF c.open THEN Append(c.sock, line) ELSE c.sock
        /\ d.client = c.client /\ d.open = c.open /\ d.buf = c.buf /\ d.pc = c.pc
        /\ d.reply = c.reply /\ d.written = c.written
    BY <1>1 DEF ConnSet
  <1> HIDE DEF d
  <1>5. Taken(d) = Taken(c) /\ Writing(d) = Writing(c)
    BY <1>4 DEF Taken, Writing
  <1>6. Phases(d)
    BY <1>1, <1>4 DEF ConnInv, Phases
  <1>7. Answered(d)
    BY <1>1, <1>4, Fields DEF ConnInv, Answered
  <1>8. ASSUME c.pc # "done"
        PROVE  Pending(d)
    <2>1. Pending(c)
      BY <1>8 DEF ConnInv
    <2>2. Follows(d.sent, Taken(d), d.buf)
      BY <1>1, <1>4, <1>5, <2>1, Fields, FollowsGrown DEF Pending
    <2>3. Follows(d.sent, Taken(d) + Len(d.buf), d.sock)
      <3>1. CASE c.open
        <4>1. Len(c.sent) = Taken(c) + Len(c.buf) + Len(c.sock)
          BY <3>1 DEF ConnInv, Complete
        <4> QED BY <1>1, <1>4, <1>5, <2>1, <3>1, <4>1, Fields, FollowsBoth, SMTT(30) DEF Pending
      <3>2. CASE ~c.open
        BY <1>1, <1>4, <1>5, <2>1, <3>2, Fields, FollowsGrown DEF Pending
      <3> QED BY <3>1, <3>2
    <2>4. Taken(c) \in 1..Len(c.sent) => d.sent[Taken(c)] = c.sent[Taken(c)]
      BY <1>1, <1>4, Fields
    <2>5. Taken(d) <= Len(d.sent) /\ (Writing(c) => Taken(c) \in 1..Len(c.sent))
      BY <1>1, <1>4, <1>5, <2>1, Fields DEF Pending
    <2> QED BY <1>4, <1>5, <2>1, <2>2, <2>3, <2>4, <2>5 DEF Pending, Writing
  <1>9. ASSUME c.open
        PROVE  Len(d.sent) = Taken(d) + Len(d.buf) + Len(d.sock)
    <2>1. Len(c.sent) = Taken(c) + Len(c.buf) + Len(c.sock)
      BY <1>9 DEF ConnInv, Complete
    <2>2. Len(d.sent) = Len(c.sent) + 1 /\ Len(d.sock) = Len(c.sock) + 1
      BY <1>1, <1>4, <1>9, Fields
    <2>3. Len(c.sent) \in Nat /\ Len(c.sock) \in Nat /\ Len(c.buf) \in Nat
          /\ Taken(c) \in Nat
      BY <1>1, Fields
    <2>4. Taken(d) + Len(d.buf) + Len(d.sock) = Taken(c) + Len(c.buf) + Len(c.sock) + 1
      BY <1>4, <1>5, <2>2, <2>3
    <2> QED BY <2>1, <2>2, <2>4
  <1> QED BY <1>3, <1>4, <1>6, <1>7, <1>8, <1>9 DEF ConnInv, Complete, d

(* An operation that touches neither what was sent and written nor the     *)
(* reader: it may close an end, and then drop what is in the socket, or    *)
(* start the handler.                                                      *)
LEMMA KeepInv ==
    ASSUME NEW L, NEW c, ConnInv(L, c), NEW d \in ConnSet(L),
           c.client # "none", d.client \in {c.client, "closed"},
           d.open \in {c.open, FALSE}, d.sock \in {c.sock, <<>>},
           d.sock = c.sock \/ ~d.open \/ d.client = "closed",
           ~d.open => d.sock = <<>>,
           d.pc = c.pc \/ (c.pc = "none" /\ d.pc = "read"),
           d.buf = c.buf, d.reply = c.reply, d.sent = c.sent, d.written = c.written
    PROVE  ConnInv(L, d)
  <1>1. c \in ConnSet(L)
    BY DEF ConnInv
  <1>a. Writing(d) = Writing(c)
    BY DEF Writing
  <1>2. Taken(d) = Taken(c) /\ Writing(d) = Writing(c)
    BY <1>a DEF Taken
  <1>3. Phases(d)
    BY <1>1, Fields DEF ConnInv, Phases
  <1>4. Answered(d)
    BY <1>1, Fields DEF ConnInv, Answered
  <1>5. ASSUME d.pc # "done"
        PROVE  Pending(d)
    <2>1. Pending(c)
      BY <1>5 DEF ConnInv
    <2>2. Taken(c) + Len(c.buf) \in Nat /\ Taken(c) + Len(c.buf) <= Len(c.sent)
      BY <1>1, <2>1, Fields DEF Pending, Follows
    <2>3. Follows(c.sent, Taken(c) + Len(c.buf), <<>>)
      BY <1>1, <2>2, Fields, FollowsNone
    <2> QED BY <1>2, <2>1, <2>3 DEF Pending
  <1>6. Complete(d)
    BY <1>2 DEF ConnInv, Complete
  <1> QED BY <1>3, <1>4, <1>5, <1>6 DEF ConnInv

(* The handler ends with its connection closed.                            *)
LEMMA EndInv ==
    ASSUME NEW L, NEW c, ConnInv(L, c), NEW d \in ConnSet(L),
           c.client # "none", d.client = c.client, d.pc = "done", d.open = FALSE,
           d.sock = <<>>, d.sent = c.sent, d.written = c.written
    PROVE  ConnInv(L, d)
  <1>1. c \in ConnSet(L)
    BY DEF ConnInv
  <1>2. Answered(d)
    BY <1>1, Fields DEF ConnInv, Answered
  <1> QED BY <1>2 DEF ConnInv, Phases, Complete

(* Fill moves lines from the socket to the empty reader.                   *)
LEMMA FillInv ==
    ASSUME NEW L, NEW c, ConnInv(L, c), NeedsData(c), c.open,
           NEW n \in 1..Len(c.sock)
    PROVE  ConnInv(L, [c EXCEPT !.buf = SubSeq(c.sock, 1, n),
                                !.sock = SubSeq(@, n + 1, Len(@))])
  <1> DEFINE d == [c EXCEPT !.buf = SubSeq(c.sock, 1, n),
                            !.sock = SubSeq(@, n + 1, Len(@))]
             a == SubSeq(c.sock, 1, n)
             b == SubSeq(c.sock, n + 1, Len(c.sock))
  <1>1. c \in ConnSet(L) /\ c.pc = "read" /\ c.buf = <<>> /\ Pending(c)
    BY DEF ConnInv, NeedsData
  <1>2. Taken(c) \in Nat /\ c.sent \in Seq(L) /\ c.sock \in Seq(L)
    BY <1>1, Fields
  <1>3. Follows(c.sent, Taken(c), c.sock)
    BY <1>1, <1>2 DEF Pending
  <1>4. /\ a \in Seq(L) /\ Len(a) = n /\ b \in Seq(L) /\ Len(b) = Len(c.sock) - n
        /\ Follows(c.sent, Taken(c), a) /\ Follows(c.sent, Taken(c) + n, b)
    BY <1>2, <1>3, FollowsSplit
  <1>5. d = [c EXCEPT !.buf = a, !.sock = b]
    OBVIOUS
  <1> HIDE DEF a, b, d
  <1>6. d \in ConnSet(L)
    BY <1>1, <1>4, <1>5 DEF ConnSet
  <1>7. /\ d.buf = a /\ d.sock = b
        /\ d.client = c.client /\ d.open = c.open /\ d.pc = c.pc
        /\ d.reply = c.reply /\ d.sent = c.sent /\ d.written = c.written
    BY <1>1, <1>5 DEF ConnSet
  <1>8. Taken(d) = Taken(c) /\ Writing(d) = Writing(c)
    BY <1>7 DEF Taken, Writing
  <1>9. c.client # "none"
    BY <1>1, Handled
  <1>10. Phases(d)
    BY <1>1, <1>7, <1>9 DEF Phases
  <1>11. Answered(d)
    BY <1>7 DEF ConnInv, Answered
  <1>12. Pending(d)
    BY <1>1, <1>4, <1>7, <1>8 DEF Pending
  <1>13. Complete(d)
    <2>1. c.client = "open" => Len(c.sent) = Taken(c) + Len(c.buf) + Len(c.sock)
      BY DEF ConnInv, Complete
    <2>2. Len(c.buf) = 0
      BY <1>1
    <2> QED BY <1>2, <1>4, <1>7, <1>8, <2>1, <2>2 DEF Complete
  <1> QED BY <1>6, <1>10, <1>11, <1>12, <1>13 DEF ConnInv, d

(* TakeLine takes the next line that was sent and settles the answer.      *)
LEMMA TakeInv ==
    ASSUME NEW L, NEW c, ConnInv(L, c), c.pc = "read", c.buf # <<>>
    PROVE  ConnInv(L, [c EXCEPT !.buf = Tail(@), !.reply = Answer(Head(c.buf)),
                                !.pc = IF Head(c.buf) = Oversized THEN "reject"
                                                                  ELSE "write"])
  <1> DEFINE p == IF Head(c.buf) = Oversized THEN "reject" ELSE "write"
             d == [c EXCEPT !.buf = Tail(@), !.reply = Answer(Head(c.buf)), !.pc = p]
  <1>1. c \in ConnSet(L) /\ Pending(c)
    BY DEF ConnInv
  <1>2. /\ Taken(c) \in Nat /\ c.sent \in Seq(L) /\ c.buf \in Seq(L)
        /\ c.sock \in Seq(L) /\ c.written \in Seq(Replies(L))
        /\ Taken(c) = Len(c.written)
    BY <1>1, Fields DEF Writing
  <1>3. /\ Head(c.buf) = c.sent[Taken(c) + 1] /\ Taken(c) + 1 <= Len(c.sent)
        /\ Tail(c.buf) \in Seq(L) /\ Len(Tail(c.buf)) = Len(c.buf) - 1
        /\ Follows(c.sent, Taken(c) + 1, Tail(c.buf))
    BY <1>1, <1>2, FollowsTail DEF Pending
  <1>4. Head(c.buf) \in L
    BY <1>2
  <1>5. p \in {"reject", "write"} /\ Answer(Head(c.buf)) \in Replies(L)
    BY <1>4 DEF Replies
  <1>6. d \in ConnSet(L)
    BY <1>1, <1>3, <1>5 DEF ConnSet
  <1>7. /\ d.buf = Tail(c.buf) /\ d.reply = Answer(Head(c.buf)) /\ d.pc = p
        /\ d.client = c.client /\ d.open = c.open /\ d.sock = c.sock
        /\ d.sent = c.sent /\ d.written = c.written
    BY <1>1 DEF ConnSet
  <1> HIDE DEF d
  <1>8. Writing(d) /\ Taken(d) = Taken(c) + 1
    BY <1>2, <1>5, <1>7 DEF Taken, Writing
  <1>a. Len(c.buf) \in Nat /\ Len(c.sock) \in Nat /\ Taken(c) \in Nat
    BY <1>2
  <1>9. c.client # "none"
    BY Handled
  <1>10. Phases(d)
    BY <1>5, <1>7, <1>9 DEF ConnInv, Phases
  <1>11. Answered(d)
    BY <1>7 DEF ConnInv, Answered
  <1>12. Pending(d)
    <2>1. Taken(d) + Len(d.buf) = Taken(c) + Len(c.buf)
      BY <1>a, <1>3, <1>7, <1>8
    <2> QED BY <1>1, <1>3, <1>7, <1>8, <2>1 DEF Pending
  <1>13. Complete(d)
    <2>1. Taken(d) + Len(d.buf) + Len(d.sock) = Taken(c) + Len(c.buf) + Len(c.sock)
      BY <1>a, <1>3, <1>7, <1>8
    <2> QED BY <1>7, <2>1 DEF ConnInv, Complete
  <1> QED BY <1>6, <1>7, <1>10, <1>11, <1>12, <1>13 DEF ConnInv, d

(* Write writes the response to the line the handler took last.            *)
LEMMA WriteInv ==
    ASSUME NEW L, NEW c, ConnInv(L, c), Writing(c), c.open
    PROVE  ConnInv(L, [c EXCEPT !.out = Append(@, c.reply),
                                !.written = Append(@, c.reply),
                                !.pc = IF @ = "reject" THEN "leave" ELSE "read"])
  <1> DEFINE p == IF c.pc = "reject" THEN "leave" ELSE "read"
             d == [c EXCEPT !.out = Append(@, c.reply),
                            !.written = Append(@, c.reply), !.pc = p]
  <1>1. c \in ConnSet(L) /\ Pending(c)
    BY DEF ConnInv, Writing
  <1>2. /\ Taken(c) \in Nat /\ c.sent \in Seq(L) /\ c.buf \in Seq(L)
        /\ c.sock \in Seq(L) /\ c.written \in Seq(Replies(L))
        /\ c.out \in Seq(Replies(L)) /\ c.reply \in Replies(L)
        /\ Taken(c) = Len(c.written) + 1
    BY <1>1, Fields
  <1>3. /\ Append(c.written, c.reply) \in Seq(Replies(L))
        /\ Append(c.out, c.reply) \in Seq(Replies(L))
        /\ p \in {"leave", "read"}
    BY <1>2
  <1>4. d \in ConnSet(L)
    BY <1>1, <1>3 DEF ConnSet
  <1>5. /\ d.written = Append(c.written, c.reply) /\ d.pc = p
        /\ d.client = c.client /\ d.open = c.open /\ d.sock = c.sock
        /\ d.buf = c.buf /\ d.sent = c.sent
    BY <1>1 DEF ConnSet
  <1> HIDE DEF d
  <1>6. ~Writing(d) /\ Taken(d) = Taken(c) /\ Len(d.written) = Taken(c)
    BY <1>2, <1>3, <1>5 DEF Taken, Writing
  <1>7. c.client # "none"
    BY Handled DEF Writing
  <1>8. Phases(d)
    BY <1>3, <1>5, <1>7 DEF ConnInv, Phases
  <1>9. Answered(d)
    <2>1. Taken(c) <= Len(c.sent) /\ c.reply = Answer(c.sent[Taken(c)])
      BY <1>1 DEF Pending
    <2>2. /\ d.written[Taken(c)] = c.reply
          /\ \A k \in 1..Len(c.written) : d.written[k] = c.written[k]
      BY <1>2, <1>5
    <2>3. \A k \in 1..Len(c.written) :
             c.written[k] = Answer(c.sent[k]) /\ c.sent[k] # Oversized
      BY DEF ConnInv, Answered, Writing
    <2>4. c.sent[Taken(c)] = Oversized => d.pc = "leave"
      BY <1>1, <1>5 DEF Pending, Writing
    <2>5. \A k \in 1..Taken(c) : k = Taken(c) \/ k \in 1..Len(c.written)
      BY <1>2
    <2> QED BY <1>5, <1>6, <2>1, <2>2, <2>3, <2>4, <2>5 DEF Answered
  <1>10. Pending(d)
    BY <1>1, <1>3, <1>5, <1>6 DEF Pending
  <1>11. Complete(d)
    BY <1>5, <1>6 DEF ConnInv, Complete
  <1> QED BY <1>4, <1>5, <1>8, <1>9, <1>10, <1>11 DEF ConnInv, d

-----------------------------------------------------------------------------
(* The server and its clients.                                             *)

LEMMA BecomeInv ==
    ASSUME NEW L, ConnsInv(L), NEW i \in Conns, NEW cs, Become(i, cs),
           \A c \in cs : ConnInv(L, c)
    PROVE  ConnsInv(L)'
  <1> PICK c \in cs : conn' = [conn EXCEPT ![i] = c]
    BY DEF Become
  <1>1. c \in ConnSet(L) /\ ConnInv(L, c)
    BY DEF ConnInv
  <1> QED BY <1>1 DEF ConnsInv

(* Close drops what is in the socket, and perhaps what the client has not  *)
(* read.                                                                   *)
LEMMA CloseFields ==
    ASSUME NEW L, NEW c \in ConnSet(L), NEW d \in Close(c)
    PROVE  /\ d \in ConnSet(L) /\ d.open = FALSE /\ d.sock = <<>>
           /\ d.client = c.client /\ d.buf = c.buf /\ d.pc = c.pc
           /\ d.reply = c.reply /\ d.sent = c.sent /\ d.written = c.written
           /\ d.out \in {c.out, <<>>}
  <1>1. PICK o \in {c.out, <<>>} : d = [c EXCEPT !.open = FALSE, !.sock = <<>>, !.out = o]
    BY DEF Close
  <1>2. o \in Seq(Replies(L)) /\ <<>> \in Seq(L)
    <2>1. <<>> \in Seq(Replies(L)) /\ <<>> \in Seq(L)
      BY EmptySeq
    <2>2. c.out \in Seq(Replies(L))
      BY Fields
    <2> QED BY <2>1, <2>2
  <1>3. d \in ConnSet(L)
    BY <1>1, <1>2 DEF ConnSet
  <1> QED BY <1>1, <1>3 DEF ConnSet

LEMMA ReturnInv ==
    ASSUME NEW L, ConnsInv(L), NEW i \in Conns, conn[i].pc # "none", Return(i)
    PROVE  ConnsInv(L)'
  <1> DEFINE c == conn[i]
             e == [c EXCEPT !.pc = "done"]
  <1>1. ConnInv(L, c) /\ c \in ConnSet(L) /\ c.client # "none"
    BY Handled DEF ConnsInv
  <1>2. /\ e \in ConnSet(L) /\ e.client = c.client /\ e.pc = "done"
        /\ e.sent = c.sent /\ e.written = c.written
    BY <1>1 DEF ConnSet
  <1> HIDE DEF e, c
  <1>3. ASSUME NEW d \in Close(e)
        PROVE  ConnInv(L, d)
    <2>1. /\ d \in ConnSet(L) /\ d.open = FALSE /\ d.sock = <<>>
          /\ d.client = e.client /\ d.pc = e.pc
          /\ d.sent = e.sent /\ d.written = e.written
      BY <1>2, CloseFields, ZenonT(30)
    <2> QED BY <1>1, <1>2, <2>1, EndInv
  <1>4. Become(i, Close(e))
    BY DEF Return, e, c
  <1> QED BY <1>3, <1>4, BecomeInv

LEMMA ShutCloseInv ==
    ASSUME NEW L, ConnsInv(L), NEW i \in Conns, ShutClose(i)
    PROVE  ConnsInv(L)'
  <1> DEFINE c == conn[i]
             e == [c EXCEPT !.closer = "done"]
  <1>1. ConnInv(L, c) /\ c \in ConnSet(L) /\ c.closer = "wait"
    BY DEF ConnsInv, ShutClose
  <1>2. c.client # "none"
    BY <1>1, NotMade
  <1>3. /\ e \in ConnSet(L) /\ e.client = c.client /\ e.pc = c.pc /\ e.buf = c.buf
        /\ e.reply = c.reply /\ e.sent = c.sent /\ e.written = c.written
    BY <1>1 DEF ConnSet
  <1>4. Become(i, Close(e))
    BY DEF ShutClose
  <1> HIDE DEF e, c
  <1>5. ASSUME NEW d \in Close(e)
        PROVE  ConnInv(L, d)
    <2>1. /\ d \in ConnSet(L) /\ d.open = FALSE /\ d.sock = <<>>
          /\ d.client = e.client /\ d.pc = e.pc /\ d.buf = e.buf
          /\ d.reply = e.reply /\ d.sent = e.sent /\ d.written = e.written
      BY <1>3, CloseFields
    <2> QED BY <1>1, <1>2, <1>3, <2>1, KeepInv
  <1> QED BY <1>4, <1>5, BecomeInv

(* The other operations that leave what was sent and written alone.        *)
LEMMA AcceptInv ==
    ASSUME NEW L, ConnsInv(L), NEW i \in Conns, Accept(i)
    PROVE  ConnsInv(L)'
  <1> DEFINE c == conn[i]
             d == [c EXCEPT !.pc = "read", !.closer = "wait"]
  <1>1. /\ ConnInv(L, c) /\ c \in ConnSet(L) /\ c.client # "none" /\ c.pc = "none"
        /\ Become(i, {d})
    BY DEF ConnsInv, Accept
  <1>2. /\ d \in ConnSet(L) /\ d.client = c.client /\ d.open = c.open
        /\ d.sock = c.sock /\ d.pc = "read" /\ d.buf = c.buf
        /\ d.reply = c.reply /\ d.sent = c.sent /\ d.written = c.written
    BY <1>1 DEF ConnSet
  <1> HIDE DEF d, c
  <1>3. ~d.open => d.sock = <<>>
    BY <1>1, <1>2 DEF ConnInv, Phases
  <1>4. ConnInv(L, d)
    BY <1>1, <1>2, <1>3, KeepInv
  <1> QED BY <1>1, <1>4, BecomeInv

LEMMA StoppedInv ==
    ASSUME NEW L, ConnsInv(L), NEW i \in Conns, Stopped(i)
    PROVE  ConnsInv(L)'
  <1> DEFINE c == conn[i]
             d == [c EXCEPT !.closer = "done"]
  <1>1. /\ ConnInv(L, c) /\ c \in ConnSet(L) /\ c.client # "none"
        /\ Become(i, {d})
    BY Handled DEF ConnsInv, Stopped
  <1>2. /\ d \in ConnSet(L) /\ d.client = c.client /\ d.open = c.open
        /\ d.sock = c.sock /\ d.pc = c.pc /\ d.buf = c.buf
        /\ d.reply = c.reply /\ d.sent = c.sent /\ d.written = c.written
    BY <1>1 DEF ConnSet
  <1> HIDE DEF d, c
  <1>3. ~d.open => d.sock = <<>>
    BY <1>1, <1>2 DEF ConnInv, Phases
  <1>4. ConnInv(L, d)
    BY <1>1, <1>2, <1>3, KeepInv
  <1> QED BY <1>1, <1>4, BecomeInv

LEMMA CloseListenerInv ==
    ASSUME NEW L, ConnsInv(L), CloseListener
    PROVE  ConnsInv(L)'
  <1>1. ASSUME NEW i \in Conns
        PROVE  ConnInv(L, conn'[i])
    <2> DEFINE c == conn[i]
               d == [c EXCEPT !.open = FALSE, !.sock = <<>>]
    <2>1. ConnInv(L, c) /\ c \in ConnSet(L) /\ conn'[i] \in {c, d}
      BY DEF ConnsInv, CloseListener
    <2>2. <<>> \in Seq(L)
      BY EmptySeq
    <2>3. /\ d \in ConnSet(L) /\ d.client = c.client /\ d.open = FALSE
          /\ d.sock = <<>> /\ d.pc = c.pc /\ d.buf = c.buf /\ d.closer = c.closer
          /\ d.reply = c.reply /\ d.sent = c.sent /\ d.written = c.written
          /\ d.out = c.out
      BY <2>1, <2>2 DEF ConnSet
    <2> HIDE DEF d, c
    <2>4. CASE c.client = "none"
      <3>1. ConnInv(L, d)
        BY <2>1, <2>3, <2>4, NotMade, NothingSent
      <3> QED BY <2>1, <3>1
    <2>5. CASE c.client # "none"
      <3>1. ConnInv(L, d)
        BY <2>1, <2>3, <2>5, KeepInv
      <3> QED BY <2>1, <3>1
    <2> QED BY <2>4, <2>5
  <1>2. \A i \in Conns : conn'[i] \in ConnSet(L)
    BY <1>1 DEF ConnInv
  <1>3. conn' = [i \in Conns |-> conn'[i]]
    BY DEF CloseListener
  <1> QED BY <1>1, <1>2, <1>3 DEF ConnsInv

(* So the server keeps the invariant, whoever its clients are.             *)
LEMMA ServerInv ==
    ASSUME NEW L, ConnsInv(L), Server
    PROVE  ConnsInv(L)'
  <1>1. CASE conn' = conn
    BY <1>1 DEF ConnsInv
  <1>2. CASE CloseListener
    BY <1>2, CloseListenerInv
  <1>3. ASSUME NEW i \in Conns, Accept(i) \/ Handler(i) \/ ShutClose(i) \/ Stopped(i)
        PROVE  ConnsInv(L)'
    <2> DEFINE c == conn[i]
    <2>1. ConnInv(L, c)
      BY DEF ConnsInv
    <2>2. CASE Accept(i) \/ ShutClose(i) \/ Stopped(i)
      BY <2>2, AcceptInv, ShutCloseInv, StoppedInv
    <2>3. CASE Fill(i)
      <3> DEFINE new(n) == [c EXCEPT !.buf = SubSeq(c.sock, 1, n),
                                     !.sock = SubSeq(@, n + 1, Len(@))]
                 ns == {m \in 1..Len(c.sock) : \A k \in 1..(m - 1) : c.sock[k] # Oversized}
      <3>1. NeedsData(c) /\ c.open /\ Become(i, {new(n) : n \in ns})
        BY <2>3 DEF Fill
      <3>2. \A n \in ns : ConnInv(L, new(n))
        BY <2>1, <3>1, FillInv
      <3> HIDE DEF new, ns
      <3> QED BY <3>1, <3>2, BecomeInv
    <2>4. CASE TakeLine(i)
      <3> DEFINE d == [c EXCEPT !.buf = Tail(@), !.reply = Answer(Head(c.buf)),
                                !.pc = IF Head(c.buf) = Oversized THEN "reject"
                                                                  ELSE "write"]
      <3>1. c.pc = "read" /\ c.buf # <<>> /\ Become(i, {d})
        BY <2>4 DEF TakeLine
      <3>2. ConnInv(L, d)
        BY <2>1, <3>1, TakeInv
      <3> HIDE DEF d
      <3> QED BY <3>1, <3>2, BecomeInv
    <2>5. CASE Write(i)
      <3> DEFINE d == [c EXCEPT !.out = Append(@, c.reply),
                                !.written = Append(@, c.reply),
                                !.pc = IF @ = "reject" THEN "leave" ELSE "read"]
      <3>1. Writing(c) /\ c.open /\ Become(i, {d})
        BY <2>5 DEF Write
      <3>2. ConnInv(L, d)
        BY <2>1, <3>1, WriteInv
      <3> HIDE DEF d
      <3> QED BY <3>1, <3>2, BecomeInv
    <2>6. CASE ReadFails(i) \/ WriteFails(i) \/ Leave(i)
      <3>1. conn[i].pc # "none" /\ Return(i)
        BY <2>6 DEF ReadFails, WriteFails, Leave, NeedsData, Writing
      <3> QED BY <3>1, ReturnInv
    <2> QED BY <1>3, <2>2, <2>3, <2>4, <2>5, <2>6 DEF Handler
  <1> QED BY <1>1, <1>2, <1>3 DEF Server, Bind, AcceptFails, Cancel

LEMMA DialStep ==
    ASSUME NEW L, ConnsInv(L), NEW i \in Conns, Dial(i)
    PROVE  ConnsInv(L)'
  <1> DEFINE d == [conn[i] EXCEPT !.client = "open", !.open = TRUE]
  <1>1. ConnInv(L, conn[i]) /\ conn[i].client = "none" /\ Become(i, {d})
    BY DEF ConnsInv, Dial
  <1>2. ConnInv(L, d)
    BY <1>1, DialInv
  <1> HIDE DEF d
  <1> QED BY <1>1, <1>2, BecomeInv

LEMMA SendStep ==
    ASSUME NEW L, ConnsInv(L), NEW i \in Conns, NEW line \in L, Send(i, line)
    PROVE  ConnsInv(L)'
  <1> DEFINE c == conn[i]
             d == [c EXCEPT !.sent = Append(@, line),
                            !.sock = IF c.open THEN Append(@, line) ELSE @]
  <1>1. ConnInv(L, c) /\ c.client = "open" /\ Become(i, {d})
    BY DEF ConnsInv, Send
  <1>2. ConnInv(L, d)
    BY <1>1, SendInv
  <1> HIDE DEF d
  <1> QED BY <1>1, <1>2, BecomeInv

LEMMA ReceiveStep ==
    ASSUME NEW L, ConnsInv(L), NEW i \in Conns, Receive(i)
    PROVE  ConnsInv(L)'
  <1> DEFINE c == conn[i]
             d == [c EXCEPT !.out = Tail(@)]
  <1>1. /\ ConnInv(L, c) /\ c \in ConnSet(L) /\ c.client = "open" /\ c.out # <<>>
        /\ Become(i, {d})
    BY DEF ConnsInv, Receive
  <1>2. c.out \in Seq(Replies(L))
    BY <1>1, Fields
  <1>3. Tail(c.out) \in Seq(Replies(L))
    BY <1>1, <1>2
  <1>4. /\ d \in ConnSet(L) /\ d.client = c.client /\ d.open = c.open
        /\ d.sock = c.sock /\ d.pc = c.pc /\ d.buf = c.buf
        /\ d.reply = c.reply /\ d.sent = c.sent /\ d.written = c.written
    BY <1>1, <1>3 DEF ConnSet
  <1> HIDE DEF d, c
  <1>5. ~d.open => d.sock = <<>>
    BY <1>1, <1>4 DEF ConnInv, Phases
  <1>6. ConnInv(L, d)
    BY <1>1, <1>4, <1>5, KeepInv
  <1> QED BY <1>1, <1>6, BecomeInv

LEMMA HangupStep ==
    ASSUME NEW L, ConnsInv(L), NEW i \in Conns, Hangup(i)
    PROVE  ConnsInv(L)'
  <1> DEFINE c == conn[i]
             new(s) == [c EXCEPT !.client = "closed", !.sock = s]
             ss == {c.sock} \cup IF c.out = <<>> THEN {} ELSE {<<>>}
  <1>1. /\ ConnInv(L, c) /\ c \in ConnSet(L) /\ c.client = "open"
        /\ Become(i, {new(s) : s \in ss})
    BY DEF ConnsInv, Hangup
  <1>2. ~c.open => c.sock = <<>>
    BY <1>1 DEF ConnInv, Phases
  <1> HIDE DEF c
  <1>3. ASSUME NEW s \in ss
        PROVE  ConnInv(L, new(s))
    <2> DEFINE d == new(s)
    <2>1. s \in {c.sock, <<>>}
      OBVIOUS
    <2>2. c.sock \in Seq(L) /\ <<>> \in Seq(L)
      BY <1>1, Fields, EmptySeq
    <2>3. s \in Seq(L)
      BY <2>1, <2>2
    <2>4. d \in ConnSet(L)
      BY <1>1, <2>3 DEF ConnSet
    <2>5. /\ d.client = "closed" /\ d.open = c.open
          /\ d.sock = s /\ d.pc = c.pc /\ d.buf = c.buf
          /\ d.reply = c.reply /\ d.sent = c.sent /\ d.written = c.written
      BY <1>1 DEF ConnSet
    <2> HIDE DEF d
    <2>6. ~d.open => d.sock = <<>>
      BY <1>2, <2>1, <2>5
    <2>7. ConnInv(L, d)
      BY <1>1, <2>1, <2>4, <2>5, <2>6, KeepInv
    <2> QED BY <2>7 DEF d
  <1> HIDE DEF ss, new
  <1> QED BY <1>1, <1>3, BecomeInv

-----------------------------------------------------------------------------
LEMMA InitInv == ASSUME NEW L, Init PROVE ConnsInv(L)
  <1>1. NoConn \in ConnSet(L) /\ ConnInv(L, NoConn)
    BY NoConnInv DEF ConnInv
  <1>2. \A i \in Conns : conn[i] = NoConn
    BY DEF Init
  <1> QED BY <1>1, <1>2 DEF ConnsInv, Init

LEMMA StepInv == Inv /\ [Next]_vars => Inv'
  <1> SUFFICES ASSUME Inv, [Next]_vars PROVE Inv'
    OBVIOUS
  <1> USE DEF Inv
  <1>1. CASE Server
    BY <1>1, ServerInv
  <1>2. ASSUME NEW i \in Conns, Client(i)
        PROVE  Inv'
    BY <1>2, DialStep, SendStep, ReceiveStep, HangupStep DEF Client
  <1>3. CASE UNCHANGED vars
    BY <1>3 DEF vars, ConnsInv
  <1> QED BY <1>1, <1>2, <1>3 DEF Next

(* On every connection what was sent is cut into what was answered, what   *)
(* is being answered, what is buffered and what is with the kernel.        *)
THEOREM Invariance == Spec => []Inv
  <1>1. Init => Inv
    BY InitInv DEF Inv
  <1> QED BY <1>1, StepInv, PTL DEF Spec

(* The first line that is too long.                                        *)
LEMMA Least ==
    ASSUME NEW T, T \subseteq Nat, T # {}
    PROVE  \E x \in T : \A y \in T : x <= y
  <1> DEFINE Lt == {ss \in Nat \X Nat : ss[1] < ss[2]}
  <1>1. IsWellFoundedOn(Lt, Nat)
    BY NatLessThanWellFounded, Zenon DEF OpToRel
  <1>2. \A x, y \in Nat : <<y, x>> \in Lt <=> y < x
    OBVIOUS
  <1> HIDE DEF Lt
  <1>3. \E x \in T : \A y \in T : ~(<<y, x>> \in Lt)
    BY <1>1, WFMin
  <1>4. PICK x \in T : \A y \in T : ~(<<y, x>> \in Lt)
    BY <1>3
  <1>5. x \in Nat /\ \A y \in T : y \in Nat /\ ~(y < x)
    BY <1>2, <1>4
  <1>6. \A y \in T : x <= y
    BY <1>5
  <1> QED BY <1>6

(* The responses due for lines, up to the first that is too long.          *)
LEMMA AnswersDue ==
    ASSUME NEW S, NEW lines \in Seq(S), NEW n \in Nat, n <= Len(lines),
           \A k \in 1..n : lines[k] = Oversized => k = n
    PROVE  /\ Len(Answers(lines)) \in Nat /\ n <= Len(Answers(lines))
           /\ \A k \in 1..Len(Answers(lines)) : Answers(lines)[k] = Answer(lines[k])
           /\ Answers(lines) \in Seq({Answer(lines[k]) : k \in 1..Len(lines)})
  <1> DEFINE over == {k \in DOMAIN lines : lines[k] = Oversized}
             m == IF over = {} THEN Len(lines) ELSE CHOOSE k \in over : \A j \in over : k <= j
  <1>1. DOMAIN lines = 1..Len(lines) /\ Len(lines) \in Nat
    OBVIOUS
  <1>2. m \in 0..Len(lines) /\ n <= m
    <2>1. CASE over = {}
      BY <1>1, <2>1
    <2>2. CASE over # {}
      <3>1. over \subseteq Nat
        BY <1>1
      <3>2. \E k \in over : \A j \in over : k <= j
        BY <2>2, <3>1, Least
      <3>3. m \in over /\ \A j \in over : m <= j
        BY <2>2, <3>2
      <3>4. m \in 1..Len(lines) /\ lines[m] = Oversized
        BY <1>1, <3>3
      <3> HIDE DEF m
      <3> QED BY <1>1, <3>4
    <2> QED BY <2>1, <2>2
  <1>3. Answers(lines) = [k \in 1..m |-> Answer(lines[k])]
    BY DEF Answers
  <1> HIDE DEF m, over
  <1>4. m \in Nat /\ 1..m \subseteq 1..Len(lines)
    BY <1>1, <1>2
  <1> DEFINE R == {Answer(lines[k]) : k \in 1..Len(lines)}
             a == [k \in 1..m |-> Answer(lines[k])]
  <1>5. a \in Seq(R) /\ Len(a) = m /\ \A k \in 1..m : a[k] = Answer(lines[k])
    <2>1. \A k \in 1..m : Answer(lines[k]) \in R
      BY <1>4
    <2> HIDE DEF R
    <2> QED BY <1>4, <2>1
  <1> HIDE DEF a
  <1> QED BY <1>2, <1>3, <1>4, <1>5 DEF a

LEMMA InvAnswers == ASSUME NEW L, ConnsInv(L) PROVE AnswersFollowRequests
  <1> SUFFICES ASSUME NEW i \in Conns
               PROVE  IsPrefix(conn[i].written, Answers(conn[i].sent))
    BY DEF AnswersFollowRequests
  <1> DEFINE c == conn[i]
             a == Answers(c.sent)
             n == Len(c.written)
  <1>1. c \in ConnSet(L) /\ Answered(c)
    BY DEF ConnsInv, ConnInv
  <1>2. c.sent \in Seq(L) /\ c.written \in Seq(Replies(L)) /\ n \in Nat
    BY <1>1, Fields
  <1> HIDE DEF c
  <1>3. n <= Len(c.sent) /\ \A k \in 1..n : c.written[k] = Answer(c.sent[k])
    BY <1>1 DEF Answered
  <1>4. \A k \in 1..n : c.sent[k] = Oversized => k = n
    BY <1>1 DEF Answered
  <1>5. /\ Len(a) \in Nat /\ n <= Len(a)
        /\ \A k \in 1..Len(a) : a[k] = Answer(c.sent[k])
        /\ a \in Seq({Answer(c.sent[k]) : k \in 1..Len(c.sent)})
    <2> HIDE DEF n
    <2> QED BY <1>2, <1>3, <1>4, AnswersDue
  <1> HIDE DEF a, n
  <1>6. \A k \in 1..n : a[k] = c.written[k]
    <2>1. \A k \in 1..n : k \in 1..Len(a)
      BY <1>2, <1>5
    <2> QED BY <1>3, <1>5, <2>1
  <1>7. SubSeq(c.written, 1, n) = SubSeq(a, 1, n)
    BY <1>2, <1>5, <1>6 DEF n
  <1> QED BY <1>5, <1>7 DEF IsPrefix, c, a, n

(* Over every connection the responses follow the requests, however many   *)
(* connections, whatever is sent over them and however it is chopped up.   *)
THEOREM AnswersCorrect == Spec => []AnswersFollowRequests
  <1>1. Inv => AnswersFollowRequests
    BY InvAnswers DEF Inv
  <1> QED BY <1>1, Invariance, PTL

(* No request is lost inside the server while both ends are up.            *)
THEOREM RequestsKept == Spec => []NothingLost
  <1>1. Inv => NothingLost
    BY DEF Inv, ConnsInv, ConnInv, Complete, Taken, NothingLost
  <1> QED BY <1>1, Invariance, PTL

=============================================================================
