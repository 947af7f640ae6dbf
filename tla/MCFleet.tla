------------------------------ MODULE MCFleet -------------------------------
(* Fleet for TLC: a ping target judged by its window and a speed check     *)
(* judged by its run of failures.                                          *)
EXTENDS Fleet, Float64, TLC

CONSTANTS ping, speed

MCUnitSeq == <<ping, speed>>

MCConfigOf ==
    ping  :> [FailureThreshold |-> 1, WindowSize |-> 2,
              Trigger |-> TriggerAvailability, MinAvailability |-> 60] @@
    speed :> [FailureThreshold |-> 1, WindowSize |-> 1,
              Trigger |-> TriggerConsecutive, MinAvailability |-> 0]

MCNameOf == ping :> "ping_monitor:a" @@ speed :> "speed_check"

\* Two ping targets configured with the same address.
MCSameName == [u \in {ping, speed} |-> "ping_monitor:a"]

=============================================================================
