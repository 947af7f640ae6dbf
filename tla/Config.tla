------------------------------- MODULE Config -------------------------------
(***************************************************************************)
(* The configuration of the daemon (internal/config/config.go) as          *)
(* operators: what Load does with a decoded file, step by step.            *)
(*                                                                         *)
(* A configuration is a record with the fields of the Go struct Config.    *)
(* The parameters of a target, of a profile and of the two roles without   *)
(* targets are records of one kind, params.  Of a channel's required text  *)
(* fields only the set of those that are not empty is kept.                *)
(***************************************************************************)
EXTENDS Integers, Sequences, SequencesExt, Functions

\* net/url.Parse: [ok, Scheme, Host] of an address.
CONSTANT Parse(_)

ChannelConsole == "console"
ChannelWebhook == "webhook"
ChannelEmail == "email"
ChannelSMSGate == "smsgate"
HTTPChannels == {ChannelWebhook, ChannelSMSGate}

TriggerConsecutive == "consecutive"
TriggerAvailability == "availability"

defaultWindowSize == 20
defaultSummaryIntervalS == 900

(* MonitorParams as Go initialises it: every field unset.                  *)
ZeroParams ==
    [IntervalS |-> 0, TimeoutMS |-> 0, FailureThreshold |-> 0, Trigger |-> "",
     WindowSize |-> 0, MinAvailability |-> 0, Notify |-> <<>>,
     InsecureSkipVerify |-> FALSE]

Params == DOMAIN ZeroParams

(* The JSON decoder leaves the fields that an object lacks at zero.        *)
decodeParams(object) ==
    [f \in Params |-> IF f \in DOMAIN object THEN object[f] ELSE ZeroParams[f]]

-----------------------------------------------------------------------------
(* Profiles.                                                               *)

(* A field that is zero takes the value of src; for the flag this is the   *)
(* disjunction.                                                            *)
inheritFrom(p, src) ==
    [f \in Params |-> IF p[f] = ZeroParams[f] THEN src[f] ELSE p[f]]

(* The profile of a target: its own, or the one of its role.               *)
profileOf(role, target) ==
    IF target.Profile # "" THEN target.Profile ELSE role.DefaultProfile

(* default_profile and every profile that is used exist.                   *)
profilesDefined(c, role) ==
    \A name \in {role.DefaultProfile} \cup
                {profileOf(role, role.Targets[i]) : i \in DOMAIN role.Targets} :
        name # "" => name \in DOMAIN c.Profiles

resolveRef(c, target, name) ==
    IF name = "" THEN target
    ELSE [target EXCEPT !.Params = inheritFrom(@, c.Profiles[name])]

resolveProfileRefs(c, role) ==
    [role EXCEPT !.Targets =
        [i \in DOMAIN @ |-> resolveRef(c, @[i], profileOf(role, @[i]))]]

TargetRoles == {"PingMonitor", "URLMonitor"}

(* Mutant: the profiles of a role that is switched off must exist too.     *)
profilesResolveAll(c) == \A r \in TargetRoles : profilesDefined(c, c.Roles[r])

(* resolveProfiles returns no error.                                       *)
profilesResolve(c) ==
    \A r \in TargetRoles : c.Roles[r].Enabled => profilesDefined(c, c.Roles[r])

resolveProfiles(c) ==
    [c EXCEPT !.Roles = [r \in DOMAIN @ |->
        IF r \in TargetRoles /\ @[r].Enabled THEN resolveProfileRefs(c, @[r])
                                             ELSE @[r]]]

-----------------------------------------------------------------------------
(* Defaults.                                                               *)

Default(v, zero, d) == IF v = zero THEN d ELSE v

applyParamDefaults(p) ==
    [p EXCEPT !.FailureThreshold = Default(@, 0, 1),
              !.Trigger = Default(@, "", TriggerConsecutive),
              !.WindowSize = Default(@, 0, defaultWindowSize)]

channelDefaults(ch) ==
    IF ch.Type \in HTTPChannels THEN [ch EXCEPT !.TimeoutMS = Default(@, 0, 5000)]
                                ELSE ch

targetDefault(t) == [t EXCEPT !.Params = applyParamDefaults(@)]

targetDefaults(role) ==
    [role EXCEPT !.Targets = [i \in DOMAIN @ |-> targetDefault(@[i])]]

applyDefaults(c) ==
    [c EXCEPT
        !.Retry.MaxAttempts = Default(@, 0, 3),
        !.Retry.BaseDelayMS = Default(@, 0, 500),
        !.SummaryIntervalS = Default(@, 0, defaultSummaryIntervalS),
        !.Channels = [name \in DOMAIN @ |-> channelDefaults(@[name])],
        !.Roles.PingMonitor = targetDefaults(@),
        !.Roles.URLMonitor = targetDefaults(@),
        !.Roles.InternetCheck.Params = applyParamDefaults(@),
        !.Roles.SpeedCheck.Params = applyParamDefaults(@),
        !.Roles.SpeedCheck.Binary = Default(@, "", "speedtest")]

-----------------------------------------------------------------------------
(* Validation: each operator is true where the code returns no error.      *)

(* The text fields each type of channel requires.                          *)
Required ==
    [console |-> {},
     webhook |-> {"URL"},
     email   |-> {"SMTPHost", "From", "To", "PasswordEnv"},
     smsgate |-> {"BaseURL", "Username", "PasswordEnv", "Recipients"}]

validateChannels(c) ==
    \A name \in DOMAIN c.Channels :
        LET ch == c.Channels[name]
        IN  /\ ch.Type \in DOMAIN Required
            /\ Required[ch.Type] \subseteq ch.NonEmpty
            /\ ch.Type \in HTTPChannels => ch.TimeoutMS > 0
            /\ ch.Type = ChannelEmail => ch.Port > 0

(* Mutant: the availability trigger is not checked any further.            *)
validateTriggerName(p) == p.Trigger \in {TriggerConsecutive, TriggerAvailability}

validateTrigger(p) ==
    \/ p.Trigger \in {"", TriggerConsecutive} /\ p.WindowSize >= 0
    \/ /\ p.Trigger = TriggerAvailability
       /\ p.WindowSize > 0
       /\ p.MinAvailability > 0 /\ p.MinAvailability <= 100

checkNotify(c, notify) == Range(notify) \subseteq DOMAIN c.Channels

validateHTTPURL(raw) ==
    LET u == Parse(raw)
    IN  u.ok /\ u.Scheme \in {"http", "https"} /\ u.Host # ""

(* What the roles that drive a state machine have in common.               *)
validateParams(c, p) ==
    /\ p.IntervalS > 0
    /\ p.FailureThreshold >= 1
    /\ validateTrigger(p)
    /\ checkNotify(c, p.Notify)

validateTargets(c, role) ==
    /\ role.Targets # <<>>
    /\ \A i \in DOMAIN role.Targets :
          LET t == role.Targets[i]
          IN  t.Address # "" /\ t.Params.TimeoutMS > 0 /\ validateParams(c, t.Params)

validateRoles(c) ==
    LET r == c.Roles
    IN  /\ r.PongServer.Enabled =>
             r.PongServer.Listen # "" /\ r.PongServer.ReadTimeoutMS > 0
        /\ r.PingMonitor.Enabled => validateTargets(c, r.PingMonitor)
        /\ r.URLMonitor.Enabled =>
             /\ validateTargets(c, r.URLMonitor)
             /\ \A i \in DOMAIN r.URLMonitor.Targets :
                   validateHTTPURL(r.URLMonitor.Targets[i].Address)
        /\ r.InternetCheck.Enabled =>
             /\ r.InternetCheck.Sites # <<>>
             /\ r.InternetCheck.Params.TimeoutMS > 0
             /\ validateParams(c, r.InternetCheck.Params)
        /\ r.SpeedCheck.Enabled =>
             /\ r.SpeedCheck.ThresholdMbps > 0
             /\ validateParams(c, r.SpeedCheck.Params)

Validate(c) ==
    /\ c.Retry.MaxAttempts >= 1
    /\ c.Retry.BaseDelayMS >= 0
    /\ c.SummaryIntervalS > 0
    /\ validateChannels(c)
    /\ validateRoles(c)

=============================================================================
