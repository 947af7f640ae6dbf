--------------------------- MODULE MCAlertMachine ---------------------------
(* AlertMachine for TLC: both triggers, windows of 0 to 3 results.         *)
EXTENDS AlertMachine, Float64

MCConfigs ==
    [FailureThreshold : 0..3, WindowSize : {0, 3},
     Trigger : {TriggerConsecutive}, MinAvailability : {0}]
    \cup
    [FailureThreshold : {1}, WindowSize : 1..4,
     Trigger : {TriggerAvailability}, MinAvailability : {1, 50, 60, 100}]

=============================================================================
