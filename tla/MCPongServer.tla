--------------------------- MODULE MCPongServer -----------------------------
(* PongServer for TLC: a pong-only instance, which does not serve          *)
(* get-summary.  One of the lines is not JSON.                             *)
EXTENDS PongServer

MCLines == {Request("1", TypePing, 7), Request("2", TypeGetSummary, 0),
            Line(TRUE, "9.9", "3", TypePing, 0), Line(FALSE, "", "", "", 0),
            Oversized}

MCHandlers == {TypePing}

=============================================================================
