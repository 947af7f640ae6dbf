-------------------------- MODULE MCPingExchange ----------------------------
(* PingExchange for TLC.                                                   *)
EXTENDS PingExchange

\* Two probes of one monitor: the second may begin while the server is still
\* at the connection of the first.
MCConns == {<<"a", 1>>, <<"a", 2>>}

MCLines == {}

MCHandlers == {TypePing}

=============================================================================
