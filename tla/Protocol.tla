------------------------------ MODULE Protocol ------------------------------
(***************************************************************************)
(* The wire format and the routing of requests                             *)
(* (internal/protocol/protocol.go, internal/roles/message_dispatcher.go,   *)
(* message_handler.go).  A line is a record: json is FALSE when it is no   *)
(* JSON object of the expected shape, and then its other fields mean       *)
(* nothing.  What a summary contains is module Registry.                   *)
(***************************************************************************)

Version == "0.1"
TypePing == "ping"
TypePong == "pong"
TypeGetSummary == "get-summary"
TypeSummary == "summary"
TypeError == "error"

Line(json, version, id, type, timestamp) ==
    [json |-> json, Version |-> version, ID |-> id, Type |-> type,
     Timestamp |-> timestamp]

ZeroRequest == Line(FALSE, "", "", "", 0)

(* EncodeRequest and EncodeResponse yield a line that decodes to itself.   *)
Request(id, type, timestamp) == Line(TRUE, Version, id, type, timestamp)

Response(id, type, timestamp, message) ==
    [json |-> TRUE, Version |-> Version, ID |-> id, Type |-> type,
     Timestamp |-> timestamp, Message |-> message]

(* The parsed request is returned even on a version mismatch.              *)
DecodeRequest(line) ==
    [req |-> IF line.json THEN line ELSE ZeroRequest,
     err |-> CASE ~line.json              -> "decode"
               [] line.json /\ line.Version # Version -> "version"
               [] OTHER                   -> "nil"]

NewError(id, msg) == Response(id, TypeError, 0, msg)

(* Mutant: the timestamp is echoed but not the id.                         *)
NewPongNoID(req) == Response("", TypePong, req.Timestamp, "")

NewPong(req) == Response(req.ID, TypePong, req.Timestamp, "")

NewSummary(id) == Response(id, TypeSummary, 0, "")

(* MessageHandler.Handle of the two handlers.                              *)
Handle(req) == IF req.Type = TypePing THEN NewPong(req) ELSE NewSummary(req.ID)

(* MessageDispatcher.Dispatch; handlers is the set of the types served.    *)
Dispatch(handlers, line) ==
    LET d == DecodeRequest(line)
    IN  CASE d.err = "version" -> NewError(d.req.ID, "unsupported protocol version")
          [] d.err = "decode"  -> NewError("", "malformed request")
          [] d.err = "nil" /\ d.req.Type \notin handlers
               -> NewError(d.req.ID, "unsupported request type")
          [] OTHER             -> Handle(d.req)

=============================================================================
