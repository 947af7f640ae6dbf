---------------------------- MODULE MCDispatcher ----------------------------
(* Dispatcher for TLC.                                                     *)
EXTENDS Dispatcher, TLC

MCChannels == "log" :> "console" @@ "hook" :> "http" @@ "mail" :> "email"

\* A channel of every kind and a name that is not configured.
MCMixed == <<"hook", "typo", "mail", "log">>

MCWithMail == <<"hook", "mail">>

=============================================================================
