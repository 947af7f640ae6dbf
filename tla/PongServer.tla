----------------------------- MODULE PongServer -----------------------------
(***************************************************************************)
(* The pong_server role (internal/roles/tcp_listener.go): the accept loop, *)
(* the goroutine that closes the listener, and for every connection a      *)
(* handler and the goroutine that closes the connection on shutdown.       *)
(*                                                                         *)
(* A connection has the two buffers of the kernel, with what the client    *)
(* sent and what it has not read yet, and the handler's bufio buffer: a    *)
(* handler goes on with the lines it has buffered after its connection was *)
(* closed.  The send buffer is bounded, so that a client that does not     *)
(* read blocks the handler in Write, which has no deadline.                *)
(***************************************************************************)
EXTENDS Protocol, Integers, Sequences, SequencesExt

CONSTANTS
    Conns,      \* the connections clients may make
    Lines,      \* the lines clients send
    Handlers,   \* the request types this instance serves
    OutCap,     \* capacity of a send buffer, in responses
    MaxLines    \* bound on the lines sent over a connection

ASSUME PongServerAssumption ==
    /\ Handlers \subseteq {TypePing, TypeGetSummary} /\ TypePing \in Handlers
    /\ OutCap \in Nat \ {0}
    /\ MaxLines \in Nat

VARIABLES
    ctxDone,  \* the context is cancelled
    run,      \* Run: "listen", "accept", or "returned" / "failed" when it is over
    lnOpen,   \* the listener is open
    conn      \* the connections

vars == <<ctxDone, run, lnOpen, conn>>
runVars == <<ctxDone, run, lnOpen>>

(* A line that fills the reader's buffer without a newline.                *)
Oversized == Line(FALSE, "", "", "oversized", 0)

(* A connection that was not made yet.                                     *)
NoConn ==
    [client  |-> "none",  \* the client's end: "none", "open", "closed"
     open    |-> FALSE,   \* the server's end is open
     sock    |-> <<>>,    \* what the client sent and the server has not read
     buf     |-> <<>>,    \* what the bufio.Reader holds
     out     |-> <<>>,    \* what the server wrote and the client has not read
     pc      |-> "none",  \* the handler: "none", "read", "write" a response,
                          \* "reject" a line that is too long, "leave", "done"
     reply   |-> Response("", "", 0, ""),  \* what it is about to write
     closer  |-> "none",  \* the closing goroutine: "none", "wait", "done"
     sent    |-> <<>>,    \* history: the lines the client sent
     written |-> <<>>]    \* history: the responses the server wrote

Init ==
    /\ ctxDone = FALSE
    /\ run = "listen"
    /\ lnOpen = FALSE
    /\ conn = [i \in Conns |-> NoConn]

(* A step of connection i to one of the records cs.                        *)
Become(i, cs) ==
    /\ \E c \in cs : conn' = [conn EXCEPT ![i] = c]
    /\ UNCHANGED runVars

-----------------------------------------------------------------------------
(* Clients.                                                                *)

(* The kernel completes a connection before Accept returns it.             *)
Dial(i) ==
    /\ lnOpen /\ conn[i].client = "none"
    /\ Become(i, {[conn[i] EXCEPT !.client = "open", !.open = TRUE]})

Send(i, line) ==
    /\ conn[i].client = "open"
    /\ Become(i, {[conn[i] EXCEPT !.sent = Append(@, line),
                      !.sock = IF conn[i].open THEN Append(@, line) ELSE @]})

Receive(i) ==
    /\ conn[i].client = "open" /\ conn[i].out # <<>>
    /\ Become(i, {[conn[i] EXCEPT !.out = Tail(@)]})

(* A client that closes with responses unread resets the connection, and   *)
(* what it sent may be lost.                                               *)
Hangup(i) ==
    /\ conn[i].client = "open"
    /\ Become(i, {[conn[i] EXCEPT !.client = "closed", !.sock = s] :
                    s \in {conn[i].sock} \cup IF conn[i].out = <<>> THEN {}
                                                                    ELSE {<<>>}})

-----------------------------------------------------------------------------
(* Run.                                                                    *)

Bind(ok) ==
    /\ run = "listen"
    /\ run' = IF ok THEN "accept" ELSE "failed"
    /\ lnOpen' = ok
    /\ UNCHANGED <<ctxDone, conn>>

(* Accept returns a connection, and `go s.handle' starts its goroutines.   *)
Accept(i) ==
    /\ run = "accept" /\ lnOpen
    /\ conn[i].client # "none" /\ conn[i].pc = "none"
    /\ Become(i, {[conn[i] EXCEPT !.pc = "read", !.closer = "wait"]})

(* Mutant: every error of Accept is followed by another try.               *)
AcceptRetries ==
    /\ run = "accept"
    /\ UNCHANGED vars

(* Accept fails: because the listener is closed, or for a reason that may  *)
(* pass.  Run returns if the context is cancelled and tries again if not.  *)
AcceptFails ==
    /\ run = "accept"
    /\ run' = IF ctxDone THEN "returned" ELSE "accept"
    /\ UNCHANGED <<ctxDone, lnOpen, conn>>

(* The goroutine of Run closes the listener; what it has not accepted is   *)
(* reset.                                                                  *)
CloseListener ==
    /\ ctxDone /\ lnOpen
    /\ lnOpen' = FALSE
    /\ conn' = [i \in Conns |-> IF conn[i].pc # "none" THEN conn[i]
                                ELSE [conn[i] EXCEPT !.open = FALSE, !.sock = <<>>]]
    /\ UNCHANGED <<ctxDone, run>>

-----------------------------------------------------------------------------
(* A handler.                                                              *)

(* conn.Close.  With data unread the kernel resets the connection, which   *)
(* may take responses that the client has not read with it.                *)
Close(c) ==
    {[c EXCEPT !.open = FALSE, !.sock = <<>>, !.out = o] :
       o \in {c.out} \cup IF c.sock = <<>> THEN {} ELSE {<<>>}}

(* The deferred close(stop) and conn.Close.                                *)
Return(i) == Become(i, Close([conn[i] EXCEPT !.pc = "done"]))

NeedsData(c) == c.pc = "read" /\ c.buf = <<>>

(* Mutant: a new reader for every request, which drops what it read beyond *)
(* the first line.                                                         *)
FillOne(i) ==
    LET c == conn[i]
    IN  /\ NeedsData(c) /\ c.open
        /\ Become(i, {[c EXCEPT !.buf = SubSeq(c.sock, 1, 1),
                                !.sock = SubSeq(@, n + 1, Len(@))] :
                        n \in 1..Len(c.sock)})

(* ReadSlice finds no line in the buffer and reads from the connection: as *)
(* much as has arrived, and no more than up to a line that is too long.    *)
Fill(i) ==
    LET c == conn[i]
    IN  /\ NeedsData(c) /\ c.open
        /\ Become(i, {[c EXCEPT !.buf = SubSeq(c.sock, 1, n),
                                !.sock = SubSeq(@, n + 1, Len(@))] :
                        n \in {m \in 1..Len(c.sock) :
                                 \A k \in 1..(m - 1) : c.sock[k] # Oversized}})

(* What the handler answers to what ReadSlice returned: a line, or         *)
(* ErrBufferFull.                                                          *)
Answer(line) ==
    IF line = Oversized THEN NewError("", "request too large")
                        ELSE Dispatch(Handlers, line)

(* Mutant: the handler goes on after a line that was too long.             *)
TakeLineGoesOn(i) ==
    LET c == conn[i]
    IN  /\ c.pc = "read" /\ c.buf # <<>>
        /\ Become(i, {[c EXCEPT !.buf = Tail(@), !.reply = Answer(Head(c.buf)),
                                !.pc = "write"]})

TakeLine(i) ==
    LET c == conn[i]
    IN  /\ c.pc = "read" /\ c.buf # <<>>
        /\ Become(i, {[c EXCEPT !.buf = Tail(@), !.reply = Answer(Head(c.buf)),
                                !.pc = IF Head(c.buf) = Oversized THEN "reject"
                                                                  ELSE "write"]})

(* Mutant: there is no read deadline.                                      *)
ReadFailsNoDeadline(i) ==
    LET c == conn[i]
    IN  /\ NeedsData(c)
        /\ ~c.open \/ (c.client = "closed" /\ c.sock = <<>>)
        /\ Return(i)

(* ReadSlice needs more than it has buffered and fails: the deadline has   *)
(* passed, the client hung up, or the connection was closed.               *)
ReadFails(i) == NeedsData(conn[i]) /\ Return(i)

Writing(c) == c.pc \in {"write", "reject"}

(* conn.Write takes the response: the handler reads on unless it rejected  *)
(* a line.  A client that hung up may not be noticed.                      *)
Write(i) ==
    LET c == conn[i]
    IN  /\ Writing(c) /\ c.open /\ Len(c.out) < OutCap
        /\ Become(i, {[c EXCEPT !.out = Append(@, c.reply),
                                !.written = Append(@, c.reply),
                                !.pc = IF @ = "reject" THEN "leave" ELSE "read"]})

(* conn.Write fails: the connection was closed at either end.              *)
WriteFails(i) ==
    /\ Writing(conn[i]) /\ (~conn[i].open \/ conn[i].client = "closed")
    /\ Return(i)

Leave(i) == conn[i].pc = "leave" /\ Return(i)

(* Mutant: a handler in Write is waited for and not interrupted.           *)
ShutCloseWaits(i) ==
    /\ conn[i].closer = "wait" /\ ctxDone /\ ~Writing(conn[i])
    /\ Become(i, Close([conn[i] EXCEPT !.closer = "done"]))

(* The two cases of the closing goroutine's select.                        *)
ShutClose(i) ==
    /\ conn[i].closer = "wait" /\ ctxDone
    /\ Become(i, Close([conn[i] EXCEPT !.closer = "done"]))

Stopped(i) ==
    /\ conn[i].closer = "wait" /\ conn[i].pc = "done"
    /\ Become(i, {[conn[i] EXCEPT !.closer = "done"]})

Cancel ==
    /\ ~ctxDone
    /\ ctxDone' = TRUE
    /\ UNCHANGED <<run, lnOpen, conn>>

-----------------------------------------------------------------------------
Handler(i) ==
    \/ Fill(i) \/ TakeLine(i) \/ ReadFails(i) \/ Write(i) \/ WriteFails(i) \/ Leave(i)

Server ==
    \/ \E ok \in BOOLEAN : Bind(ok)
    \/ AcceptFails \/ CloseListener \/ Cancel
    \/ \E i \in Conns : Accept(i) \/ Handler(i) \/ ShutClose(i) \/ Stopped(i)

Client(i) ==
    \/ Dial(i) \/ Receive(i) \/ Hangup(i)
    \/ \E line \in Lines : Len(conn[i].sent) < MaxLines /\ Send(i, line)

Next == Server \/ \E i \in Conns : Client(i)

(* Goroutines are scheduled, a deadline passes, and Accept fails on a      *)
(* closed listener.  Nobody need cancel, and a client need do nothing: it  *)
(* may stop reading.                                                       *)
ServerFairness ==
    /\ WF_vars(\E ok \in BOOLEAN : Bind(ok))
    /\ WF_vars(AcceptFails /\ ~lnOpen)
    /\ WF_vars(CloseListener)
    /\ \A i \in Conns : /\ WF_vars(Accept(i)) /\ WF_vars(Handler(i))
                        /\ WF_vars(ShutClose(i)) /\ WF_vars(Stopped(i))

Spec == Init /\ [][Next]_vars /\ ServerFairness

-----------------------------------------------------------------------------
(* The responses due for lines: one each, the last for a line that is too  *)
(* long.                                                                   *)
Answers(lines) ==
    LET over == {k \in DOMAIN lines : lines[k] = Oversized}
        n == IF over = {} THEN Len(lines) ELSE CHOOSE k \in over : \A m \in over : k <= m
    IN  [k \in 1..n |-> Answer(lines[k])]

\* Over every connection the responses follow the requests: the k-th response
\* is the one due for the k-th line the client sent, so a client that
\* pipelines requests can match them by order as well as by id, and nothing
\* follows the rejection of a line that was too long (tcp_listener.go handle).
AnswersFollowRequests ==
    \A i \in Conns : IsPrefix(conn[i].written, Answers(conn[i].sent))

\* No request is lost inside the server: while a connection is up at both
\* ends, every line the client sent is in the kernel's buffer, in the
\* reader's, being answered, or answered (tcp_listener.go handle; the reader
\* keeps what it read beyond the first line).
NothingLost ==
    \A i \in Conns :
        LET c == conn[i]
        IN  c.client = "open" /\ c.open =>
                Len(c.sent) = Len(c.written) + (IF Writing(c) THEN 1 ELSE 0)
                              + Len(c.buf) + Len(c.sock)

\* A connection does not outlive its client's interest: once the client is
\* silent the handler and its closing goroutine end, unless the client leaves
\* so many responses unread that the handler is blocked in Write
\* (tcp_listener.go handle: the read deadline; there is no write deadline).
IdleConnectionsEnd ==
    \A i \in Conns :
        conn[i].pc # "none" ~> \/ Writing(conn[i]) /\ Len(conn[i].out) = OutCap
                               \/ conn[i].pc = "done" /\ conn[i].closer = "done"

\* After a cancellation Run returns (tcp_listener.go Run: "until ctx is
\* cancelled, then closes the listener and returns").
RunReturns == ctxDone ~> run \in {"returned", "failed"}

\* After a cancellation every handler ends, and with it the goroutine that
\* closes its connection, even a handler that is blocked in Write or was
\* started by an Accept that raced with the cancellation (tcp_listener.go
\* handle: conn.Close from the closing goroutine).
HandlersEnd ==
    ctxDone ~> [](\A i \in Conns : /\ conn[i].pc \in {"none", "done"}
                                   /\ conn[i].closer # "wait")

=============================================================================
