---------------------------- MODULE MCAlertPath -----------------------------
(* AlertPath for TLC.                                                      *)
EXTENDS AlertPath, Float64, TLC

MCChannels == "hook" :> "http" @@ "mail" :> "email"

MCChannelNames == <<"hook", "mail">>

MCUnitConfig ==
    [FailureThreshold |-> 2, Trigger |-> TriggerConsecutive, WindowSize |-> 0,
     MinAvailability |-> 0]

=============================================================================
