------------------------------ MODULE Startup -------------------------------
(***************************************************************************)
(* The start of the daemon (cmd/healthd/main.go run, up to the first       *)
(* goroutine; config.Load): the file is read, decoded, its profiles are    *)
(* resolved, defaults applied and the result validated; then the channels  *)
(* and the roles are built from it.  Every step may end the start.         *)
(*                                                                         *)
(* A file is a configuration whose parameters are JSON objects: partial    *)
(* functions from fields to values.  In the other records a field that is  *)
(* absent and one that is zero decode alike and are not told apart.        *)
(***************************************************************************)
EXTENDS Config, FiniteSets

CONSTANTS
    Files,        \* the configuration files
    Second,       \* time.Second and time.Millisecond,
    Millisecond,  \* in units of time.Duration
    Half          \* int and time.Duration range from -Half to Half - 1: 2^63
                  \* in the daemon

(* The fields of MonitorParams that the decoder accepts numbers for.       *)
Numbers == {"IntervalS", "TimeoutMS", "FailureThreshold", "WindowSize",
            "MinAvailability"}

(* An object has any of the parameters, and perhaps other fields.          *)
IsObject(o) == \A f \in DOMAIN o \cap Numbers : o[f] \in Int

IsTarget(t) == DOMAIN t = {"Address", "Profile", "Params"} /\ IsObject(t.Params)

IsTargetRole(role) ==
    /\ DOMAIN role = {"Enabled", "DefaultProfile", "Targets"}
    /\ role.Enabled \in BOOLEAN
    /\ role.Targets \in Seq(Range(role.Targets))
    /\ \A i \in DOMAIN role.Targets : IsTarget(role.Targets[i])

IsChannel(ch) ==
    /\ DOMAIN ch = {"Type", "NonEmpty", "Port", "TimeoutMS"}
    /\ ch.Port \in Int /\ ch.TimeoutMS \in Int

AreRoles(roles) ==
    /\ DOMAIN roles = {"PongServer", "PingMonitor", "URLMonitor", "InternetCheck",
                       "SpeedCheck"}
    /\ DOMAIN roles.PongServer = {"Enabled", "Listen", "ReadTimeoutMS"}
    /\ roles.PongServer.Enabled \in BOOLEAN /\ roles.PongServer.ReadTimeoutMS \in Int
    /\ \A r \in TargetRoles : IsTargetRole(roles[r])
    /\ DOMAIN roles.InternetCheck = {"Enabled", "Sites", "Params"}
    /\ DOMAIN roles.SpeedCheck = {"Enabled", "ThresholdMbps", "Binary", "Params"}
    /\ \A r \in {"InternetCheck", "SpeedCheck"} :
          roles[r].Enabled \in BOOLEAN /\ IsObject(roles[r].Params)
    /\ roles.InternetCheck.Sites \in Seq(Range(roles.InternetCheck.Sites))
    /\ roles.SpeedCheck.ThresholdMbps \in Int

IsFile(f) ==
    /\ DOMAIN f = {"Retry", "SummaryIntervalS", "Profiles", "Channels", "Roles"}
    /\ f.Retry \in [MaxAttempts : Int, BaseDelayMS : Int] /\ f.SummaryIntervalS \in Int
    /\ \A name \in DOMAIN f.Profiles : IsObject(f.Profiles[name])
    /\ \A name \in DOMAIN f.Channels : IsChannel(f.Channels[name])
    /\ AreRoles(f.Roles)

ASSUME StartupAssumption ==
    /\ \A f \in Files : IsFile(f)
    /\ Second \in Nat \ {0} /\ Millisecond \in Nat \ {0} /\ Half \in Nat \ {0}

VARIABLES
    file,        \* the configuration file
    stage,       \* how far the start has come: the next step, "running" or
                 \* "failed"
    failed,      \* the step that returned an error, or ""
    cfg,         \* the Config
    dispatcher,  \* the Dispatcher with its channels
    active       \* what buildRoles returns: units, pong server, reporter

vars == <<file, stage, failed, cfg, dispatcher, active>>

-----------------------------------------------------------------------------
(* The parameter objects of a file.                                        *)
TargetObjects(role) == {role.Targets[i].Params : i \in DOMAIN role.Targets}

Objects(f) ==
    {f.Profiles[name] : name \in DOMAIN f.Profiles} \cup
    (UNION {TargetObjects(f.Roles[r]) : r \in TargetRoles}) \cup
    {f.Roles.InternetCheck.Params, f.Roles.SpeedCheck.Params}

(* The struct SpeedCheck has no fields for these.                          *)
SpeedParams == Params \ {"TimeoutMS", "InsecureSkipVerify"}

(* DisallowUnknownFields.                                                  *)
decodable(f) ==
    /\ \A o \in Objects(f) : DOMAIN o \subseteq Params
    /\ DOMAIN f.Roles.SpeedCheck.Params \subseteq SpeedParams

decodeTarget(t) == [t EXCEPT !.Params = decodeParams(@)]

decodeTargets(role) ==
    [role EXCEPT !.Targets = [i \in DOMAIN @ |-> decodeTarget(@[i])]]

decode(f) ==
    [f EXCEPT !.Profiles = [name \in DOMAIN @ |-> decodeParams(@[name])],
              !.Roles.PingMonitor = decodeTargets(@),
              !.Roles.URLMonitor = decodeTargets(@),
              !.Roles.InternetCheck.Params = decodeParams(@),
              !.Roles.SpeedCheck.Params = decodeParams(@)]

-----------------------------------------------------------------------------
(* time.Duration(n) * unit wraps around.                                   *)
Duration(n, unit) ==
    ((n * unit + Half) % (2 * Half)) - Half

(* The HTTP channels take their client's timeout from the configuration.   *)
buildChannel(ch) ==
    [Type |-> ch.Type, Timeout |-> IF ch.Type \in HTTPChannels
                                   THEN Duration(ch.TimeoutMS, Millisecond) ELSE 0]

AtLeast(least, n) == IF n < least THEN least ELSE n

NewDispatcher(c) ==
    [channels |-> [name \in DOMAIN c.Channels |-> buildChannel(c.Channels[name])],
     maxAttempts |-> AtLeast(1, c.Retry.MaxAttempts),
     baseDelay |-> AtLeast(0, Duration(c.Retry.BaseDelayMS, Millisecond))]

NoDispatcher == [channels |-> <<>>, maxAttempts |-> 0, baseDelay |-> 0]

monitorConfig(p) ==
    [FailureThreshold |-> p.FailureThreshold, WindowSize |-> p.WindowSize,
     Trigger |-> IF p.Trigger = TriggerAvailability THEN TriggerAvailability
                                                    ELSE TriggerConsecutive,
     MinAvailability |-> p.MinAvailability]

Unit(role, address, p) ==
    [Role |-> role, Address |-> address, Channels |-> p.Notify,
     Interval |-> Duration(p.IntervalS, Second),
     Timeout |-> Duration(p.TimeoutMS, Millisecond), Mon |-> monitorConfig(p)]

Targets(c, role) ==
    {Unit(role, t.Address, t.Params) : t \in Range(c.Roles[role].Targets)}

Sole(c, role) == {Unit(role, "", c.Roles[role].Params)}

MonitoringRoles == {"PingMonitor", "URLMonitor", "InternetCheck", "SpeedCheck"}

Enabled(c, roles) == {r \in roles : c.Roles[r].Enabled}

(* Mutant: url_monitor is forgotten.                                       *)
monitoringNoURL(c) == Enabled(c, MonitoringRoles \ {"URLMonitor"}) # {}

monitoring(c) == Enabled(c, MonitoringRoles) # {}

buildRoles(c) ==
    [units |-> UNION {IF r \in TargetRoles THEN Targets(c, r) ELSE Sole(c, r) :
                        r \in Enabled(c, MonitoringRoles)},
     pong |-> IF ~c.Roles.PongServer.Enabled THEN {}
              ELSE {[ReadTimeout |-> Duration(c.Roles.PongServer.ReadTimeoutMS,
                                              Millisecond),
                     Handlers |-> {"ping"} \cup IF monitoring(c)
                                                THEN {"get-summary"} ELSE {}]},
     reporter |-> IF monitoring(c)
                  THEN {[Interval |-> Duration(c.SummaryIntervalS, Second)]}
                  ELSE {}]

NoRoles == [units |-> {}, pong |-> {}, reporter |-> {}]

-----------------------------------------------------------------------------
Init ==
    /\ file \in Files
    /\ stage = "read"
    /\ failed = ""
    /\ cfg = file
    /\ dispatcher = NoDispatcher
    /\ active = NoRoles

(* A step that returns an error unless ok, and goes on to the next one.    *)
Step(here, ok, next) ==
    /\ stage = here
    /\ stage' = IF ok THEN next ELSE "failed"
    /\ failed' = IF ok THEN "" ELSE here
    /\ UNCHANGED file

Read ==
    /\ \E ok \in BOOLEAN : Step("read", ok, "decode")
    /\ UNCHANGED <<cfg, dispatcher, active>>

Decode ==
    /\ Step("decode", decodable(file), "resolve")
    /\ cfg' = IF decodable(file) THEN decode(file) ELSE cfg
    /\ UNCHANGED <<dispatcher, active>>

(* Mutant: the defaults are applied before the profiles are resolved.      *)
ResolveLate ==
    /\ Step("resolve", profilesResolve(cfg), "default")
    /\ cfg' = IF profilesResolve(cfg) THEN resolveProfiles(applyDefaults(cfg))
                                      ELSE cfg
    /\ UNCHANGED <<dispatcher, active>>

Resolve ==
    /\ Step("resolve", profilesResolve(cfg), "default")
    /\ cfg' = IF profilesResolve(cfg) THEN resolveProfiles(cfg) ELSE cfg
    /\ UNCHANGED <<dispatcher, active>>

ApplyDefaults ==
    /\ Step("default", TRUE, "validate")
    /\ cfg' = applyDefaults(cfg)
    /\ UNCHANGED <<dispatcher, active>>

CheckConfig ==
    /\ Step("validate", Validate(cfg), "channels")
    /\ UNCHANGED <<cfg, dispatcher, active>>

(* buildChannels knows no other types.                                     *)
channelsKnown(c) ==
    \A name \in DOMAIN c.Channels : c.Channels[name].Type \in DOMAIN Required

BuildChannels ==
    /\ Step("channels", channelsKnown(cfg), "roles")
    /\ dispatcher' = IF channelsKnown(cfg) THEN NewDispatcher(cfg) ELSE dispatcher
    /\ UNCHANGED <<cfg, active>>

BuildRoles ==
    /\ Step("roles", buildRoles(cfg) # NoRoles, "running")
    /\ active' = buildRoles(cfg)
    /\ UNCHANGED <<cfg, dispatcher>>

Next ==
    \/ Read \/ Decode \/ Resolve \/ ApplyDefaults \/ CheckConfig
    \/ BuildChannels \/ BuildRoles

Spec == Init /\ [][Next]_vars

-----------------------------------------------------------------------------
Running == stage = "running"

(* Times that are durations: in the daemon, up to 292 years.  Nothing      *)
(* rejects a longer one, which main.go makes negative or another one.      *)
Fits ==
    /\ \A o \in Objects(cfg) : /\ o.IntervalS * Second < Half
                                /\ o.TimeoutMS * Millisecond < Half
    /\ cfg.Roles.PongServer.ReadTimeoutMS * Millisecond < Half
    /\ cfg.SummaryIntervalS * Second < Half
    /\ \A name \in DOMAIN cfg.Channels : cfg.Channels[name].TimeoutMS * Millisecond < Half
    /\ cfg.Retry.BaseDelayMS * Millisecond < Half

\* A daemon that starts has given every role what its code relies on.  A unit
\* has a positive interval (time.NewTicker panics otherwise) and, unless it
\* runs the speed test, a positive timeout, if what was configured is a
\* duration at all; its state machine's configuration is one AlertMachine
\* assumes, with a threshold of at least 1 and a window and a minimum where
\* the trigger needs them; it notifies only channels that exist, so that
\* Dispatch never skips a name.  internet_check has a site, or nextSite would
\* divide by zero.  The client of every HTTP channel has a timeout, the pong
\* server a read timeout; a delivery makes the attempts that were configured,
\* with a pause between them (config.go Validate against main.go buildChannels
\* and buildRoles and dispatcher.go NewDispatcher, which corrects numbers that
\* are too small without saying so).
RolesGetWhatTheyNeed ==
    Running /\ Fits =>
        /\ \A u \in active.units :
              /\ u.Interval > 0
              /\ u.Role # "SpeedCheck" => u.Timeout > 0
              /\ u.Mon.FailureThreshold >= 1
              /\ u.Mon.WindowSize >= 0
              /\ u.Mon.Trigger = TriggerAvailability =>
                    u.Mon.WindowSize > 0 /\ u.Mon.MinAvailability \in 1..100
              /\ Range(u.Channels) \subseteq DOMAIN dispatcher.channels
        /\ cfg.Roles.InternetCheck.Enabled => Len(cfg.Roles.InternetCheck.Sites) > 0
        /\ \A name \in DOMAIN dispatcher.channels :
              LET ch == dispatcher.channels[name]
              IN  ch.Type \in HTTPChannels => ch.Timeout > 0
        /\ \A p \in active.pong : p.ReadTimeout > 0
        /\ \A r \in active.reporter : r.Interval > 0
        /\ dispatcher.maxAttempts = cfg.Retry.MaxAttempts
        /\ dispatcher.baseDelay > 0

(* What a unit gets for field f that no object sets.                       *)
BuiltIn == applyParamDefaults(ZeroParams)

(* An object sets field f to more than zero.                               *)
Sets(object, f) == f \in DOMAIN object /\ object[f] # ZeroParams[f]

(* What the profile of this name, if there is one, says of field f, or     *)
(* otherwise.                                                              *)
Inherited(name, f, otherwise) ==
    IF name # "" /\ Sets(file.Profiles[name], f) THEN file.Profiles[name][f]
                                                 ELSE otherwise

(* What field f of a target is due by the README: the order is "inline     *)
(* field on the target, its profile, the role's default_profile"; the      *)
(* built-in defaults come last.                                            *)
Due(role, target, f) ==
    IF Sets(target.Params, f) THEN target.Params[f]
    ELSE Inherited(target.Profile, f, Inherited(role.DefaultProfile, f, BuiltIn[f]))

GetsDue(r, i) ==
    \A f \in Params : cfg.Roles[r].Targets[i].Params[f] =
                          Due(file.Roles[r], file.Roles[r].Targets[i], f)

\* Every setting of a target that runs comes from the first of these that
\* sets it: the target's own object, its profile, the default_profile of its
\* role, the built-in default (src/README.md: "A target resolves each setting
\* in this order").  The code never looks at default_profile for a target that
\* names a profile (config.go resolveProfileRefs).
Precedence ==
    Running => \A r \in Enabled(file, TargetRoles) :
        \A i \in DOMAIN file.Roles[r].Targets : GetsDue(r, i)

(* At most one profile applies to a target.                                *)
OneProfile(role, target) ==
    \/ target.Profile = ""
    \/ role.DefaultProfile \in {"", target.Profile}

\* The documented order holds of every target to which at most one profile
\* applies, its own or its role's: what the profile provides is displaced by
\* what the target sets and never by a built-in default, although the two are
\* told from absent fields by their value alone (config.go Load, which
\* resolves the profiles before it applies the defaults; inheritFrom).
OneProfilePrecedence ==
    Running => \A r \in Enabled(file, TargetRoles) :
        \A i \in DOMAIN file.Roles[r].Targets :
            OneProfile(file.Roles[r], file.Roles[r].Targets[i]) => GetsDue(r, i)

\* An instance answers get-summary and logs summaries exactly when it has
\* units to report on (main.go buildRoles, "Only a monitoring instance can
\* answer get-summary").
SummaryIffUnits ==
    Running =>
        /\ (active.reporter # {}) <=> (active.units # {})
        /\ \A p \in active.pong :
              ("get-summary" \in p.Handlers) <=> (active.units # {})

(* A file without what it says of the roles that are switched off.         *)
Off == [Enabled |-> FALSE, DefaultProfile |-> "", Targets |-> <<>>,
        Listen |-> "", ReadTimeoutMS |-> 0, Sites |-> <<>>,
        ThresholdMbps |-> 0, Binary |-> "", Params |-> [f \in {} |-> 0]]

Stripped(f) ==
    [f EXCEPT !.Roles = [r \in DOMAIN @ |->
        IF @[r].Enabled THEN @[r] ELSE [x \in DOMAIN @[r] |-> Off[x]]]]

Loads(f) ==
    /\ decodable(f)
    /\ profilesResolve(decode(f))
    /\ Validate(applyDefaults(resolveProfiles(decode(f))))

\* What the file says of a role that is switched off never decides whether
\* the daemon starts, whatever profiles, channels or values it names
\* (config.go resolveProfiles, validateRoles).
DisabledRolesIgnored ==
    /\ Running => Loads(Stripped(file))
    /\ failed \in {"resolve", "validate"} => ~Loads(Stripped(file))

=============================================================================
