--------------------------- MODULE Startup_proofs ---------------------------
(***************************************************************************)
(* Proofs about Startup, for every set of configuration files of the       *)
(* expected shape, however many targets, profiles and channels they have:  *)
(* a daemon that starts has given its roles what they rely on, settings    *)
(* come from where they should, and roles that are switched off do not     *)
(* matter.                                                                 *)
(*                                                                         *)
(* The steps of the start only say that cfg is the file after the          *)
(* operators of Config; the proofs are about these operators.              *)
(***************************************************************************)
EXTENDS Startup, TLAPS

-----------------------------------------------------------------------------
(* The shape of a configuration that was decoded.                          *)

IsParams(p) == DOMAIN p = Params /\ \A f \in Numbers : p[f] \in Int

IsRole(role) ==
    /\ DOMAIN role = {"Enabled", "DefaultProfile", "Targets"}
    /\ role.Enabled \in BOOLEAN
    /\ \A i \in DOMAIN role.Targets :
          /\ DOMAIN role.Targets[i] = {"Address", "Profile", "Params"}
          /\ IsParams(role.Targets[i].Params)
    /\ DOMAIN role.Targets = {} => role.Targets = <<>>

(* The roles that have parameters of their own and no targets.             *)
SoleRoles == {"InternetCheck", "SpeedCheck"}

IsConfig(c) ==
    /\ DOMAIN c = {"Retry", "SummaryIntervalS", "Profiles", "Channels", "Roles"}
    /\ DOMAIN c.Retry = {"MaxAttempts", "BaseDelayMS"}
    /\ c.Retry.MaxAttempts \in Int /\ c.Retry.BaseDelayMS \in Int /\ c.SummaryIntervalS \in Int
    /\ \A name \in DOMAIN c.Profiles : IsParams(c.Profiles[name])
    /\ \A name \in DOMAIN c.Channels : IsChannel(c.Channels[name])
    /\ DOMAIN c.Roles = {"PongServer", "PingMonitor", "URLMonitor", "InternetCheck",
                         "SpeedCheck"}
    /\ c.Roles.PongServer.Enabled \in BOOLEAN /\ c.Roles.PongServer.ReadTimeoutMS \in Int
    /\ \A r \in TargetRoles : IsRole(c.Roles[r])
    /\ DOMAIN c.Roles.InternetCheck = {"Enabled", "Sites", "Params"}
    /\ DOMAIN c.Roles.SpeedCheck = {"Enabled", "ThresholdMbps", "Binary", "Params"}
    /\ \A r \in SoleRoles : c.Roles[r].Enabled \in BOOLEAN /\ IsParams(c.Roles[r].Params)
    /\ c.Roles.InternetCheck.Sites \in Seq(Range(c.Roles.InternetCheck.Sites))

LEMMA ParamNames ==
    /\ Params = {"IntervalS", "TimeoutMS", "FailureThreshold", "Trigger", "WindowSize",
                 "MinAvailability", "Notify", "InsecureSkipVerify"}
    /\ Numbers \subseteq Params
    /\ \A f \in Numbers : ZeroParams[f] = 0
  BY DEF Params, ZeroParams, Numbers

LEMMA EmptyFunction ==
    ASSUME NEW h, h = [i \in DOMAIN h |-> h[i]], DOMAIN h = {}
    PROVE  h = <<>>
  OBVIOUS

(* The decoder yields numbers for the fields that are numbers.             *)
LEMMA DecodeParamsType ==
    ASSUME NEW o, IsObject(o)
    PROVE  IsParams(decodeParams(o))
  <1> DEFINE p == decodeParams(o)
  <1>1. DOMAIN p = Params
    BY DEF decodeParams
  <1>2. ASSUME NEW f \in Numbers
        PROVE  p[f] \in Int
    BY ParamNames DEF decodeParams, IsObject
  <1> HIDE DEF p
  <1>3. IsParams(p)
    BY <1>1, <1>2 DEF IsParams
  <1> QED BY <1>3 DEF p

LEMMA InheritType ==
    ASSUME NEW p, NEW q, IsParams(p), IsParams(q)
    PROVE  IsParams(inheritFrom(p, q))
  <1> DEFINE r == inheritFrom(p, q)
  <1>1. DOMAIN r = Params
    BY DEF inheritFrom
  <1>2. ASSUME NEW f \in Numbers
        PROVE  r[f] \in Int
    BY ParamNames DEF inheritFrom, IsParams
  <1> HIDE DEF r
  <1>3. IsParams(r)
    BY <1>1, <1>2 DEF IsParams
  <1> QED BY <1>3 DEF r

(* A default is given to what is zero.                                     *)
LEMMA DefaultsFields ==
    ASSUME NEW p, DOMAIN p = Params
    PROVE  /\ DOMAIN applyParamDefaults(p) = Params
           /\ \A f \in Params : applyParamDefaults(p)[f] =
                 IF p[f] = ZeroParams[f] THEN BuiltIn[f] ELSE p[f]
  <1> DEFINE same == {"IntervalS", "TimeoutMS", "MinAvailability", "Notify",
                      "InsecureSkipVerify"}
  <1>1. ASSUME NEW q, DOMAIN q = Params
        PROVE  LET d == applyParamDefaults(q)
               IN  /\ DOMAIN d = Params
                   /\ d.FailureThreshold = Default(q.FailureThreshold, 0, 1)
                   /\ d.Trigger = Default(q.Trigger, "", TriggerConsecutive)
                   /\ d.WindowSize = Default(q.WindowSize, 0, defaultWindowSize)
                   /\ \A g \in same : d[g] = q[g]
    BY <1>1, ParamNames DEF applyParamDefaults
  <1>2. DOMAIN ZeroParams = Params
    BY DEF ZeroParams, Params
  <1>3. /\ ZeroParams.FailureThreshold = 0 /\ ZeroParams.Trigger = ""
        /\ ZeroParams.WindowSize = 0
    BY DEF ZeroParams
  <1>4. /\ BuiltIn.FailureThreshold = 1 /\ BuiltIn.Trigger = TriggerConsecutive
        /\ BuiltIn.WindowSize = defaultWindowSize
        /\ \A g \in same : BuiltIn[g] = ZeroParams[g]
    BY <1>1, <1>2, <1>3 DEF BuiltIn, Default
  <1>5. ASSUME NEW f \in Params
        PROVE  applyParamDefaults(p)[f] = IF p[f] = ZeroParams[f] THEN BuiltIn[f] ELSE p[f]
    <2>1. CASE f \in same
      BY <1>1, <1>4, <2>1
    <2>2. CASE f = "FailureThreshold"
      BY <1>1, <1>3, <1>4, <2>2 DEF Default
    <2>3. CASE f = "Trigger"
      BY <1>1, <1>3, <1>4, <2>3 DEF Default
    <2>4. CASE f = "WindowSize"
      BY <1>1, <1>3, <1>4, <2>4 DEF Default
    <2> QED BY <2>1, <2>2, <2>3, <2>4, ParamNames
  <1> QED BY <1>1, <1>5

LEMMA DefaultsType ==
    ASSUME NEW p, IsParams(p)
    PROVE  IsParams(applyParamDefaults(p))
  <1> DEFINE d == applyParamDefaults(p)
  <1>1. /\ DOMAIN d = Params
        /\ \A f \in Params : d[f] = IF p[f] = ZeroParams[f] THEN BuiltIn[f] ELSE p[f]
    BY DefaultsFields DEF IsParams
  <1>2. \A f \in Numbers : BuiltIn[f] \in Int
    <2> DEFINE z == ZeroParams
    <2>1. /\ BuiltIn.IntervalS = 0 /\ BuiltIn.TimeoutMS = 0
          /\ BuiltIn.FailureThreshold = 1
          /\ BuiltIn.WindowSize = 20 /\ BuiltIn.MinAvailability = 0
      BY DEF BuiltIn, applyParamDefaults, Default, ZeroParams, defaultWindowSize
    <2> QED BY <2>1 DEF Numbers
  <1> HIDE DEF d
  <1>3. DOMAIN d = Params /\ \A f \in Numbers : d[f] \in Int
    BY <1>1, <1>2, ParamNames DEF IsParams
  <1>4. IsParams(d)
    BY <1>3 DEF IsParams
  <1> QED BY <1>4 DEF d

-----------------------------------------------------------------------------
(* What each step of Load does to the parts of a configuration.            *)

LEMMA DecodeFields ==
    ASSUME NEW f, IsFile(f)
    PROVE  LET d == decode(f)
           IN  /\ DOMAIN d = {"Retry", "SummaryIntervalS", "Profiles", "Channels", "Roles"}
               /\ d.Retry = f.Retry /\ d.SummaryIntervalS = f.SummaryIntervalS
               /\ d.Channels = f.Channels
               /\ d.Profiles = [n \in DOMAIN f.Profiles |-> decodeParams(f.Profiles[n])]
  <1> DEFINE P == [n \in DOMAIN f.Profiles |-> decodeParams(f.Profiles[n])]
             d == decode(f)
  <1>1. DOMAIN f = {"Retry", "SummaryIntervalS", "Profiles", "Channels", "Roles"}
    BY DEF IsFile
  <1>2. d.Profiles = P
    BY <1>1 DEF decode
  <1>3. d.Retry = f.Retry /\ d.SummaryIntervalS = f.SummaryIntervalS /\ d.Channels = f.Channels
    BY <1>1 DEF decode
  <1>4. DOMAIN d = {"Retry", "SummaryIntervalS", "Profiles", "Channels", "Roles"}
    BY <1>1 DEF decode
  <1> QED BY <1>2, <1>3, <1>4

LEMMA DecodeRoles ==
    ASSUME NEW f, IsFile(f)
    PROVE  LET d == decode(f).Roles
           IN  /\ DOMAIN d = {"PongServer", "PingMonitor", "URLMonitor", "InternetCheck",
                              "SpeedCheck"}
               /\ d.PongServer = f.Roles.PongServer
               /\ \A r \in TargetRoles : d[r] = decodeTargets(f.Roles[r])
               /\ \A r \in SoleRoles : d[r] = decodeTarget(f.Roles[r])
  BY DEF decode, IsFile, AreRoles, TargetRoles, SoleRoles, decodeTarget

LEMMA DecodeTargetFields ==
    ASSUME NEW t, "Params" \in DOMAIN t, IsObject(t.Params)
    PROVE  LET d == decodeTarget(t)
           IN  /\ DOMAIN d = DOMAIN t
               /\ \A x \in DOMAIN t \ {"Params"} : d[x] = t[x]
               /\ d.Params = decodeParams(t.Params) /\ IsParams(d.Params)
  BY DecodeParamsType DEF decodeTarget

LEMMA DecodeTargetsFields ==
    ASSUME NEW role, IsTargetRole(role)
    PROVE  LET d == decodeTargets(role)
           IN  /\ IsRole(d)
               /\ d.Enabled = role.Enabled /\ d.DefaultProfile = role.DefaultProfile
               /\ d.Targets = [i \in DOMAIN role.Targets |-> decodeTarget(role.Targets[i])]
  <1> DEFINE T == role.Targets
             U == [i \in DOMAIN T |-> decodeTarget(T[i])]
             d == decodeTargets(role)
  <1>1. /\ DOMAIN d = {"Enabled", "DefaultProfile", "Targets"} /\ d.Enabled \in BOOLEAN
        /\ d.Enabled = role.Enabled /\ d.DefaultProfile = role.DefaultProfile
        /\ d.Targets = U
    BY DEF decodeTargets, IsTargetRole
  <1>2. ASSUME NEW i \in DOMAIN T
        PROVE  /\ DOMAIN U[i] = {"Address", "Profile", "Params"}
               /\ IsParams(U[i].Params)
    <2>1. IsTarget(T[i])
      BY DEF IsTargetRole
    <2>2. /\ DOMAIN decodeTarget(T[i]) = DOMAIN T[i]
          /\ IsParams(decodeTarget(T[i]).Params)
      BY <2>1, DecodeTargetFields DEF IsTarget
    <2> QED BY <2>1, <2>2 DEF IsTarget
  <1>3. DOMAIN U = {} => U = <<>>
    BY EmptyFunction
  <1> HIDE DEF d, U, T
  <1>4. DOMAIN U = DOMAIN T
    BY DEF U
  <1>5. IsRole(d)
    BY <1>1, <1>2, <1>3, <1>4 DEF IsRole
  <1> QED BY <1>1, <1>5 DEF d, U, T

LEMMA DecodeConfig ==
    ASSUME NEW f, IsFile(f)
    PROVE  IsConfig(decode(f))
  <1> DEFINE d == decode(f)
             R == d.Roles
  <1>1. \A n \in DOMAIN d.Profiles : IsParams(d.Profiles[n])
    <2>1. \A n \in DOMAIN f.Profiles : IsParams(decodeParams(f.Profiles[n]))
      BY DecodeParamsType DEF IsFile
    <2>2. d.Profiles = [n \in DOMAIN f.Profiles |-> decodeParams(f.Profiles[n])]
      BY DecodeFields
    <2> HIDE DEF d
    <2> QED BY <2>1, <2>2
  <1>2. \A n \in DOMAIN d.Channels : IsChannel(d.Channels[n])
    BY DecodeFields DEF IsFile
  <1>3. /\ DOMAIN d = {"Retry", "SummaryIntervalS", "Profiles", "Channels", "Roles"}
        /\ DOMAIN d.Retry = {"MaxAttempts", "BaseDelayMS"}
        /\ d.Retry.MaxAttempts \in Int /\ d.Retry.BaseDelayMS \in Int
        /\ d.SummaryIntervalS \in Int
    BY DecodeFields DEF IsFile
  <1>4. /\ DOMAIN R = {"PongServer", "PingMonitor", "URLMonitor", "InternetCheck",
                       "SpeedCheck"}
        /\ R.PongServer = f.Roles.PongServer
        /\ \A r \in TargetRoles : R[r] = decodeTargets(f.Roles[r])
        /\ \A r \in SoleRoles : R[r] = decodeTarget(f.Roles[r])
    BY DecodeRoles
  <1>5. AreRoles(f.Roles)
    BY DEF IsFile
  <1> HIDE DEF d, R
  <1>6. ASSUME NEW r \in TargetRoles
        PROVE  IsRole(R[r])
    <2> DEFINE role == f.Roles[r]
    <2>1. IsTargetRole(role)
      BY <1>5 DEF AreRoles
    <2>2. R[r] = decodeTargets(role)
      BY <1>4
    <2> HIDE DEF role
    <2>3. IsRole(decodeTargets(role))
      BY <2>1, DecodeTargetsFields
    <2> QED BY <2>2, <2>3
  <1>7. ASSUME NEW r \in SoleRoles
        PROVE  DOMAIN R[r] = DOMAIN f.Roles[r] /\ R[r].Enabled \in BOOLEAN /\ IsParams(R[r].Params)
    <2>1. /\ "Params" \in DOMAIN f.Roles[r] /\ IsObject(f.Roles[r].Params)
          /\ "Enabled" \in DOMAIN f.Roles[r] /\ f.Roles[r].Enabled \in BOOLEAN
      BY <1>5 DEF AreRoles, SoleRoles
    <2> QED BY <1>4, <2>1, DecodeTargetFields
  <1>8. /\ DOMAIN R.InternetCheck = {"Enabled", "Sites", "Params"}
        /\ DOMAIN R.SpeedCheck = {"Enabled", "ThresholdMbps", "Binary", "Params"}
        /\ R.PongServer.Enabled \in BOOLEAN /\ R.PongServer.ReadTimeoutMS \in Int
        /\ R.InternetCheck.Sites = f.Roles.InternetCheck.Sites
    BY <1>4, <1>5, <1>7 DEF AreRoles, SoleRoles, decodeTarget
  <1>9. IsConfig(d)
    BY <1>1, <1>2, <1>3, <1>4, <1>5, <1>6, <1>7, <1>8 DEF IsConfig, AreRoles, R
  <1> QED BY <1>9 DEF d

(* resolveProfiles changes the target roles that are switched on.          *)
LEMMA ResolveFields ==
    ASSUME NEW c, IsConfig(c)
    PROVE  LET d == resolveProfiles(c)
           IN  /\ DOMAIN d = DOMAIN c /\ DOMAIN d.Roles = DOMAIN c.Roles
               /\ d.Retry = c.Retry /\ d.SummaryIntervalS = c.SummaryIntervalS
               /\ d.Channels = c.Channels /\ d.Profiles = c.Profiles
               /\ d.Roles.PongServer = c.Roles.PongServer
               /\ \A r \in SoleRoles : d.Roles[r] = c.Roles[r]
               /\ \A r \in TargetRoles : d.Roles[r] =
                     IF c.Roles[r].Enabled THEN resolveProfileRefs(c, c.Roles[r])
                                           ELSE c.Roles[r]
  BY DEF resolveProfiles, IsConfig, SoleRoles, TargetRoles

LEMMA ResolveRefFields ==
    ASSUME NEW c, NEW t, NEW name, DOMAIN t = {"Address", "Profile", "Params"},
           IsParams(t.Params), name # "" => IsParams(c.Profiles[name])
    PROVE  LET d == resolveRef(c, t, name)
           IN  /\ DOMAIN d = DOMAIN t /\ d.Address = t.Address /\ d.Profile = t.Profile
               /\ IsParams(d.Params)
               /\ d.Params = IF name = "" THEN t.Params
                                          ELSE inheritFrom(t.Params, c.Profiles[name])
  BY InheritType DEF resolveRef

LEMMA ResolveRoleFields ==
    ASSUME NEW c, IsConfig(c), NEW r \in TargetRoles, c.Roles[r].Enabled, profilesResolve(c)
    PROVE  LET role == c.Roles[r]
               d == resolveProfileRefs(c, role)
           IN  /\ IsRole(d)
               /\ d.Enabled = role.Enabled /\ d.DefaultProfile = role.DefaultProfile
               /\ d.Targets = [i \in DOMAIN role.Targets |->
                     resolveRef(c, role.Targets[i], profileOf(role, role.Targets[i]))]
               /\ \A i \in DOMAIN role.Targets :
                     profileOf(role, role.Targets[i]) # "" =>
                        profileOf(role, role.Targets[i]) \in DOMAIN c.Profiles
  <1> DEFINE role == c.Roles[r]
             T == role.Targets
             U == [i \in DOMAIN T |-> resolveRef(c, T[i], profileOf(role, T[i]))]
             d == resolveProfileRefs(c, role)
  <1>1. IsRole(role)
    BY DEF IsConfig
  <1>2. /\ DOMAIN d = {"Enabled", "DefaultProfile", "Targets"} /\ d.Enabled \in BOOLEAN
        /\ d.Enabled = role.Enabled /\ d.DefaultProfile = role.DefaultProfile
        /\ d.Targets = U
    <2> HIDE DEF role
    <2> QED BY <1>1 DEF resolveProfileRefs, IsRole
  <1>3. \A i \in DOMAIN T : profileOf(role, T[i]) # "" =>
                               profileOf(role, T[i]) \in DOMAIN c.Profiles
    BY DEF profilesResolve, profilesDefined
  <1>4. ASSUME NEW i \in DOMAIN T
        PROVE  /\ DOMAIN U[i] = {"Address", "Profile", "Params"}
               /\ IsParams(U[i].Params)
    <2> DEFINE name == profileOf(role, T[i])
    <2>1. DOMAIN T[i] = {"Address", "Profile", "Params"} /\ IsParams(T[i].Params)
      BY <1>1 DEF IsRole
    <2>2. name # "" => IsParams(c.Profiles[name])
      BY <1>3 DEF IsConfig
    <2> DEFINE t == T[i]
    <2>3. U[i] = resolveRef(c, t, name)
      OBVIOUS
    <2>4. DOMAIN t = {"Address", "Profile", "Params"} /\ IsParams(t.Params)
      BY <2>1
    <2> HIDE DEF name, t
    <2>5. /\ DOMAIN resolveRef(c, t, name) = DOMAIN t
          /\ IsParams(resolveRef(c, t, name).Params)
      <3> HIDE DEF U, d, T, role
      <3> QED BY <2>2, <2>4, ResolveRefFields, ZenonT(30)
    <2> HIDE DEF U
    <2> QED BY <2>3, <2>4, <2>5
  <1>5. DOMAIN U = {} => U = <<>>
    BY EmptyFunction
  <1> HIDE DEF d, U, T, role
  <1>6. DOMAIN U = DOMAIN T
    BY DEF U
  <1>7. IsRole(d)
    BY <1>2, <1>4, <1>5, <1>6 DEF IsRole
  <1> QED BY <1>2, <1>3, <1>7 DEF d, U, T, role

LEMMA ResolveConfig ==
    ASSUME NEW c, IsConfig(c), profilesResolve(c)
    PROVE  IsConfig(resolveProfiles(c))
  <1> DEFINE d == resolveProfiles(c)
  <1>1. /\ DOMAIN d = DOMAIN c /\ DOMAIN d.Roles = DOMAIN c.Roles
        /\ d.Retry = c.Retry /\ d.SummaryIntervalS = c.SummaryIntervalS
        /\ d.Channels = c.Channels /\ d.Profiles = c.Profiles
        /\ d.Roles.PongServer = c.Roles.PongServer
        /\ \A r \in SoleRoles : d.Roles[r] = c.Roles[r]
        /\ \A r \in TargetRoles : d.Roles[r] =
              IF c.Roles[r].Enabled THEN resolveProfileRefs(c, c.Roles[r])
                                    ELSE c.Roles[r]
    BY ResolveFields
  <1> HIDE DEF d
  <1>2. ASSUME NEW r \in TargetRoles
        PROVE  IsRole(d.Roles[r])
    <2>1. CASE c.Roles[r].Enabled
      <3>1. IsRole(resolveProfileRefs(c, c.Roles[r]))
        BY <2>1, ResolveRoleFields
      <3> QED BY <1>1, <2>1, <3>1
    <2>2. CASE ~c.Roles[r].Enabled
      BY <1>1, <2>2 DEF IsConfig
    <2> QED BY <2>1, <2>2
  <1>3. IsConfig(d)
    BY <1>1, <1>2 DEF IsConfig, SoleRoles
  <1> QED BY <1>3 DEF d

LEMMA ApplyDefaultsFields ==
    ASSUME NEW c, IsConfig(c)
    PROVE  LET d == applyDefaults(c)
           IN  /\ DOMAIN d = DOMAIN c /\ d.Profiles = c.Profiles
               /\ DOMAIN d.Retry = DOMAIN c.Retry
               /\ d.Retry.MaxAttempts = Default(c.Retry.MaxAttempts, 0, 3)
               /\ d.Retry.BaseDelayMS = Default(c.Retry.BaseDelayMS, 0, 500)
               /\ d.SummaryIntervalS = Default(c.SummaryIntervalS, 0, 900)
               /\ d.Channels = [n \in DOMAIN c.Channels |-> channelDefaults(c.Channels[n])]
  <1> DEFINE d == applyDefaults(c)
  <1>1. DOMAIN c = {"Retry", "SummaryIntervalS", "Profiles", "Channels", "Roles"}
    BY DEF IsConfig
  <1>2. DOMAIN d = DOMAIN c /\ d.Profiles = c.Profiles
    <2>1. DOMAIN d = DOMAIN c
      BY DEF applyDefaults
    <2>2. d.Profiles = c.Profiles
      BY <1>1 DEF applyDefaults
    <2> QED BY <2>1, <2>2
  <1>3. /\ DOMAIN d.Retry = DOMAIN c.Retry
        /\ d.Retry.MaxAttempts = Default(c.Retry.MaxAttempts, 0, 3)
        /\ d.Retry.BaseDelayMS = Default(c.Retry.BaseDelayMS, 0, 500)
    <2>1. d.Retry = [c.Retry EXCEPT !.MaxAttempts = Default(@, 0, 3),
                                    !.BaseDelayMS = Default(@, 0, 500)]
      BY <1>1 DEF applyDefaults
    <2>2. DOMAIN c.Retry = {"MaxAttempts", "BaseDelayMS"}
      BY DEF IsConfig
    <2> HIDE DEF d
    <2> QED BY <2>1, <2>2
  <1>4. d.SummaryIntervalS = Default(c.SummaryIntervalS, 0, 900)
    BY <1>1 DEF applyDefaults, defaultSummaryIntervalS
  <1>5. d.Channels = [n \in DOMAIN c.Channels |-> channelDefaults(c.Channels[n])]
    BY <1>1 DEF applyDefaults
  <1> QED BY <1>2, <1>3, <1>4, <1>5

LEMMA ApplyDefaultsRoles ==
    ASSUME NEW c, IsConfig(c)
    PROVE  LET d == applyDefaults(c).Roles
               e == c.Roles
           IN  /\ DOMAIN d = DOMAIN e /\ d.PongServer = e.PongServer
               /\ \A r \in TargetRoles : d[r] = targetDefaults(e[r])
               /\ \A r \in SoleRoles : /\ DOMAIN d[r] = DOMAIN e[r]
                                       /\ d[r].Enabled = e[r].Enabled
                                       /\ d[r].Params = applyParamDefaults(e[r].Params)
               /\ d.InternetCheck.Sites = e.InternetCheck.Sites
               /\ d.SpeedCheck.ThresholdMbps = e.SpeedCheck.ThresholdMbps
  <1> DEFINE d == applyDefaults(c).Roles
             e == c.Roles
  <1>1. /\ DOMAIN c = {"Retry", "SummaryIntervalS", "Profiles", "Channels", "Roles"}
        /\ DOMAIN e = {"PongServer", "PingMonitor", "URLMonitor", "InternetCheck",
                       "SpeedCheck"}
        /\ DOMAIN e.InternetCheck = {"Enabled", "Sites", "Params"}
        /\ DOMAIN e.SpeedCheck = {"Enabled", "ThresholdMbps", "Binary", "Params"}
    BY DEF IsConfig
  <1>2. d = [e EXCEPT !.PingMonitor = targetDefaults(@),
                      !.URLMonitor = targetDefaults(@),
                      !.InternetCheck.Params = applyParamDefaults(@),
                      !.SpeedCheck.Params = applyParamDefaults(@),
                      !.SpeedCheck.Binary = Default(@, "", "speedtest")]
    BY <1>1, ZenonT(30) DEF applyDefaults
  <1> HIDE DEF d, e
  <1>3. DOMAIN d = DOMAIN e /\ d.PongServer = e.PongServer
    BY <1>1, <1>2
  <1>4. d.PingMonitor = targetDefaults(e.PingMonitor) /\ d.URLMonitor = targetDefaults(e.URLMonitor)
    BY <1>1, <1>2
  <1>5. d.InternetCheck = [e.InternetCheck EXCEPT !.Params = applyParamDefaults(@)]
    BY <1>1, <1>2
  <1>6. d.SpeedCheck = [e.SpeedCheck EXCEPT !.Params = applyParamDefaults(@),
                                            !.Binary = Default(@, "", "speedtest")]
    BY <1>1, <1>2
  <1>7. /\ DOMAIN d.InternetCheck = DOMAIN e.InternetCheck
        /\ d.InternetCheck.Enabled = e.InternetCheck.Enabled
        /\ d.InternetCheck.Params = applyParamDefaults(e.InternetCheck.Params)
        /\ d.InternetCheck.Sites = e.InternetCheck.Sites
    BY <1>1, <1>5
  <1>8. /\ DOMAIN d.SpeedCheck = DOMAIN e.SpeedCheck
        /\ d.SpeedCheck.Enabled = e.SpeedCheck.Enabled
        /\ d.SpeedCheck.Params = applyParamDefaults(e.SpeedCheck.Params)
        /\ d.SpeedCheck.ThresholdMbps = e.SpeedCheck.ThresholdMbps
    BY <1>1, <1>6
  <1> QED BY <1>3, <1>4, <1>7, <1>8 DEF d, e, TargetRoles, SoleRoles

LEMMA TargetDefaultsFields ==
    ASSUME NEW role, IsRole(role)
    PROVE  LET d == targetDefaults(role)
           IN  /\ IsRole(d)
               /\ d.Enabled = role.Enabled /\ d.DefaultProfile = role.DefaultProfile
               /\ DOMAIN d.Targets = DOMAIN role.Targets
               /\ \A i \in DOMAIN role.Targets :
                     /\ d.Targets[i].Address = role.Targets[i].Address
                     /\ d.Targets[i].Params = applyParamDefaults(role.Targets[i].Params)
  <1> DEFINE T == role.Targets
             U == [i \in DOMAIN T |-> targetDefault(T[i])]
             d == targetDefaults(role)
  <1>1. /\ DOMAIN d = {"Enabled", "DefaultProfile", "Targets"} /\ d.Enabled \in BOOLEAN
        /\ d.Enabled = role.Enabled /\ d.DefaultProfile = role.DefaultProfile
        /\ d.Targets = U
    BY DEF targetDefaults, IsRole
  <1>2. ASSUME NEW i \in DOMAIN T
        PROVE  /\ DOMAIN U[i] = {"Address", "Profile", "Params"}
               /\ IsParams(U[i].Params)
               /\ U[i].Address = T[i].Address
               /\ U[i].Params = applyParamDefaults(T[i].Params)
    <2> DEFINE t == T[i]
    <2>1. DOMAIN t = {"Address", "Profile", "Params"} /\ IsParams(t.Params)
      BY DEF IsRole
    <2>2. U[i] = targetDefault(t)
      OBVIOUS
    <2> HIDE DEF t, U
    <2>3. IsParams(applyParamDefaults(t.Params))
      BY <2>1, DefaultsType
    <2> QED BY <2>1, <2>2, <2>3 DEF targetDefault, t
  <1>3. DOMAIN U = {} => U = <<>>
    BY EmptyFunction
  <1> HIDE DEF d, U, T
  <1>4. DOMAIN U = DOMAIN T
    BY DEF U
  <1>5. IsRole(d)
    BY <1>1, <1>2, <1>3, <1>4 DEF IsRole
  <1> QED BY <1>1, <1>2, <1>4, <1>5 DEF d, T

LEMMA ChannelDefaultsType ==
    ASSUME NEW ch, IsChannel(ch)
    PROVE  IsChannel(channelDefaults(ch))
  BY DEF channelDefaults, IsChannel, Default

LEMMA DefaultsConfig ==
    ASSUME NEW c, IsConfig(c)
    PROVE  IsConfig(applyDefaults(c))
  <1> DEFINE d == applyDefaults(c)
             R == d.Roles
  <1>1. /\ DOMAIN d = DOMAIN c /\ d.Profiles = c.Profiles
        /\ DOMAIN d.Retry = DOMAIN c.Retry
        /\ d.Retry.MaxAttempts = Default(c.Retry.MaxAttempts, 0, 3)
        /\ d.Retry.BaseDelayMS = Default(c.Retry.BaseDelayMS, 0, 500)
        /\ d.SummaryIntervalS = Default(c.SummaryIntervalS, 0, 900)
        /\ d.Channels = [n \in DOMAIN c.Channels |-> channelDefaults(c.Channels[n])]
    BY ApplyDefaultsFields
  <1>2. /\ DOMAIN R = DOMAIN c.Roles /\ R.PongServer = c.Roles.PongServer
        /\ \A r \in TargetRoles : R[r] = targetDefaults(c.Roles[r])
        /\ \A r \in SoleRoles : /\ DOMAIN R[r] = DOMAIN c.Roles[r]
                                /\ R[r].Enabled = c.Roles[r].Enabled
                                /\ R[r].Params = applyParamDefaults(c.Roles[r].Params)
        /\ R.InternetCheck.Sites = c.Roles.InternetCheck.Sites
    BY ApplyDefaultsRoles
  <1>3. d.Retry.MaxAttempts \in Int /\ d.Retry.BaseDelayMS \in Int /\ d.SummaryIntervalS \in Int
    <2> HIDE DEF d, R
    <2> QED BY <1>1 DEF Default, IsConfig
  <1> HIDE DEF d, R
  <1>4. \A n \in DOMAIN d.Channels : IsChannel(d.Channels[n])
    BY <1>1, ChannelDefaultsType DEF IsConfig
  <1>5. ASSUME NEW r \in TargetRoles
        PROVE  IsRole(R[r])
    <2> DEFINE role == c.Roles[r]
    <2>1. IsRole(role) /\ R[r] = targetDefaults(role)
      BY <1>2 DEF IsConfig
    <2> HIDE DEF role
    <2>2. IsRole(targetDefaults(role))
      BY <2>1, TargetDefaultsFields
    <2> QED BY <2>1, <2>2
  <1>6. ASSUME NEW r \in SoleRoles
        PROVE  R[r].Enabled \in BOOLEAN /\ IsParams(R[r].Params)
    <2>1. IsParams(c.Roles[r].Params) /\ c.Roles[r].Enabled \in BOOLEAN
      BY DEF IsConfig
    <2> QED BY <1>2, <2>1, DefaultsType
  <1>7. IsConfig(d)
    BY <1>1, <1>2, <1>3, <1>4, <1>5, <1>6 DEF IsConfig, R, SoleRoles
  <1> QED BY <1>7 DEF d

-----------------------------------------------------------------------------
(* A start that has come to a stage has done what comes before it.         *)

Loaded(f) == applyDefaults(resolveProfiles(decode(f)))

StartInv ==
    /\ file \in Files
    /\ stage = "resolve" => cfg = decode(file)
    /\ stage \in {"resolve", "default", "validate", "channels", "roles", "running"} =>
          decodable(file)
    /\ stage \in {"default", "validate", "channels", "roles", "running"} =>
          profilesResolve(decode(file))
    /\ stage = "default" => cfg = resolveProfiles(decode(file))
    /\ stage \in {"validate", "channels", "roles", "running"} => cfg = Loaded(file)
    /\ stage \in {"channels", "roles", "running"} => Validate(cfg)
    /\ stage \in {"roles", "running"} => dispatcher = NewDispatcher(cfg)
    /\ stage = "running" => active = buildRoles(cfg)
    /\ stage # "failed" => failed = ""
    /\ failed = "resolve" => ~profilesResolve(decode(file))
    /\ failed = "validate" => ~Validate(Loaded(file))

(* Every step of a start keeps the invariant.                              *)
THEOREM Invariance == Spec => []StartInv
  <1>1. Init => StartInv
    BY DEF Init, StartInv
  <1>2. StartInv /\ [Next]_vars => StartInv'
    <2> SUFFICES ASSUME StartInv, [Next]_vars
                 PROVE  StartInv'
      OBVIOUS
    <2>1. CASE Read
      BY <2>1 DEF Read, Step, StartInv
    <2>2. CASE Decode
      BY <2>2 DEF Decode, Step, StartInv
    <2>3. CASE Resolve
      BY <2>3 DEF Resolve, Step, StartInv
    <2>4. CASE ApplyDefaults
      BY <2>4 DEF ApplyDefaults, Step, StartInv, Loaded
    <2>5. CASE CheckConfig
      BY <2>5 DEF CheckConfig, Step, StartInv
    <2>6. CASE BuildChannels
      BY <2>6 DEF BuildChannels, Step, StartInv
    <2>7. CASE BuildRoles
      BY <2>7 DEF BuildRoles, Step, StartInv
    <2>8. CASE UNCHANGED vars
      BY <2>8 DEF vars, StartInv
    <2> QED BY <2>1, <2>2, <2>3, <2>4, <2>5, <2>6, <2>7, <2>8 DEF Next
  <1> QED BY <1>1, <1>2, PTL DEF Spec

(* What is validated is a configuration.                                   *)
LEMMA LoadedConfig ==
    ASSUME NEW f, IsFile(f), profilesResolve(decode(f))
    PROVE  IsConfig(decode(f)) /\ IsConfig(resolveProfiles(decode(f))) /\ IsConfig(Loaded(f))
  <1>1. IsConfig(decode(f))
    BY DecodeConfig
  <1>2. IsConfig(resolveProfiles(decode(f)))
    BY <1>1, ResolveConfig
  <1>3. IsConfig(Loaded(f))
    BY <1>2, DefaultsConfig DEF Loaded
  <1> QED BY <1>1, <1>2, <1>3

LEMMA RunningConfig ==
    ASSUME StartInv, Running
    PROVE  /\ IsFile(file) /\ decodable(file) /\ profilesResolve(decode(file))
           /\ cfg = Loaded(file) /\ IsConfig(cfg) /\ Validate(cfg)
           /\ active = buildRoles(cfg) /\ dispatcher = NewDispatcher(cfg)
  <1>1. /\ IsFile(file) /\ decodable(file) /\ profilesResolve(decode(file))
        /\ cfg = Loaded(file) /\ Validate(cfg) /\ active = buildRoles(cfg)
        /\ dispatcher = NewDispatcher(cfg)
    BY StartupAssumption DEF StartInv, Running
  <1> QED BY <1>1, LoadedConfig

-----------------------------------------------------------------------------
(* The roles.                                                              *)

LEMMA DurationExact ==
    ASSUME NEW n \in Int, NEW unit \in Nat \ {0}, n > 0, n * unit < Half
    PROVE  Duration(n, unit) > 0
  <1> DEFINE m == n * unit
  <1>1. m \in Int /\ m > 0 /\ m < Half
    <2>1. \A a, b \in Int : a > 0 /\ b > 0 => a * b \in Int /\ a * b > 0
      OBVIOUS
    <2> QED BY <2>1
  <1>2. Duration(n, unit) = ((m + Half) % (2 * Half)) - Half
    BY DEF Duration
  <1> HIDE DEF m
  <1>3. \A k \in Int, l \in Nat : 0 <= k /\ k < l => k % l = k
    OBVIOUS
  <1>4. Half \in Nat
    BY StartupAssumption
  <1>5. (m + Half) % (2 * Half) = m + Half
    BY <1>1, <1>3, <1>4
  <1> QED BY <1>1, <1>2, <1>4, <1>5

(* A base delay of zero is replaced by the default.                        *)
LEMMA DelayNotZero ==
    ASSUME NEW c, IsConfig(c)
    PROVE  applyDefaults(c).Retry.BaseDelayMS # 0
  <1> DEFINE d == applyDefaults(c)
  <1>1. /\ DOMAIN d = DOMAIN c /\ d.Profiles = c.Profiles
        /\ DOMAIN d.Retry = DOMAIN c.Retry
        /\ d.Retry.MaxAttempts = Default(c.Retry.MaxAttempts, 0, 3)
        /\ d.Retry.BaseDelayMS = Default(c.Retry.BaseDelayMS, 0, 500)
        /\ d.SummaryIntervalS = Default(c.SummaryIntervalS, 0, 900)
        /\ d.Channels = [n \in DOMAIN c.Channels |-> channelDefaults(c.Channels[n])]
    BY ApplyDefaultsFields
  <1> HIDE DEF d
  <1>2. d.Retry.BaseDelayMS # 0
    BY <1>1 DEF Default
  <1> QED BY <1>2 DEF d

(* The dispatcher of a valid configuration: a channel for every name, with *)
(* a timeout if it speaks HTTP, the attempts and the delay configured.     *)
LEMMA DispatcherNeeds ==
    ASSUME IsConfig(cfg), Validate(cfg), Fits, cfg.Retry.BaseDelayMS # 0
    PROVE  LET d == NewDispatcher(cfg)
           IN  /\ DOMAIN d.channels = DOMAIN cfg.Channels
               /\ \A name \in DOMAIN d.channels :
                     d.channels[name].Type \in HTTPChannels => d.channels[name].Timeout > 0
               /\ d.maxAttempts = cfg.Retry.MaxAttempts /\ d.baseDelay > 0
  <1> DEFINE d == NewDispatcher(cfg)
             n == cfg.Retry.BaseDelayMS
  <1>1. /\ d.channels = [x \in DOMAIN cfg.Channels |-> buildChannel(cfg.Channels[x])]
        /\ d.maxAttempts = AtLeast(1, cfg.Retry.MaxAttempts)
        /\ d.baseDelay = AtLeast(0, Duration(n, Millisecond))
    BY DEF NewDispatcher
  <1>2. ASSUME NEW name \in DOMAIN cfg.Channels, cfg.Channels[name].Type \in HTTPChannels
        PROVE  buildChannel(cfg.Channels[name]).Timeout > 0
    <2> DEFINE m == cfg.Channels[name].TimeoutMS
    <2>1. m \in Int /\ m > 0 /\ m * Millisecond < Half
      BY <1>2 DEF IsConfig, IsChannel, Validate, validateChannels, Fits
    <2>2. buildChannel(cfg.Channels[name]).Timeout = Duration(m, Millisecond)
      BY <1>2 DEF buildChannel
    <2> HIDE DEF m
    <2> QED BY <2>1, <2>2, DurationExact, StartupAssumption
  <1>3. \A ch : buildChannel(ch).Type = ch.Type
    BY DEF buildChannel
  <1>4. d.baseDelay > 0
    <2> DEFINE m == Duration(n, Millisecond)
    <2>1. n \in Int /\ n > 0 /\ n * Millisecond < Half
      BY DEF IsConfig, Validate, Fits
    <2> HIDE DEF n
    <2>2. m > 0
      BY <2>1, DurationExact, StartupAssumption
    <2>3. m \in Int
      BY <2>1, StartupAssumption DEF Duration
    <2> HIDE DEF m, d
    <2> QED BY <1>1, <2>2, <2>3 DEF AtLeast, m
  <1>5. d.maxAttempts = cfg.Retry.MaxAttempts
    <2>1. cfg.Retry.MaxAttempts \in Int /\ cfg.Retry.MaxAttempts >= 1
      BY DEF Validate, IsConfig
    <2> HIDE DEF d
    <2> QED BY <1>1, <2>1 DEF AtLeast
  <1> HIDE DEF d, n
  <1>6. /\ DOMAIN d.channels = DOMAIN cfg.Channels
        /\ \A name \in DOMAIN d.channels :
              d.channels[name].Type \in HTTPChannels => d.channels[name].Timeout > 0
    BY <1>1, <1>2, <1>3
  <1> QED BY <1>4, <1>5, <1>6 DEF d

LEMMA ObjectsOf ==
    ASSUME NEW c
    PROVE  /\ \A name \in DOMAIN c.Profiles : c.Profiles[name] \in Objects(c)
           /\ \A r \in TargetRoles : \A i \in DOMAIN c.Roles[r].Targets :
                 c.Roles[r].Targets[i].Params \in Objects(c)
           /\ \A r \in SoleRoles : c.Roles[r].Params \in Objects(c)
           /\ \A o \in Objects(c) :
                 \/ \E name \in DOMAIN c.Profiles : o = c.Profiles[name]
                 \/ \E r \in TargetRoles : \E i \in DOMAIN c.Roles[r].Targets :
                       o = c.Roles[r].Targets[i].Params
                 \/ \E r \in SoleRoles : o = c.Roles[r].Params
  <1> DEFINE P == {c.Profiles[name] : name \in DOMAIN c.Profiles}
             T == UNION {TargetObjects(c.Roles[r]) : r \in TargetRoles}
             S == {c.Roles.InternetCheck.Params, c.Roles.SpeedCheck.Params}
  <1>1. Objects(c) = P \cup T \cup S
    BY DEF Objects
  <1>2. \A o : o \in T <=> \E r \in TargetRoles : o \in TargetObjects(c.Roles[r])
    OBVIOUS
  <1>3. \A r, o : o \in TargetObjects(c.Roles[r]) <=>
           \E i \in DOMAIN c.Roles[r].Targets : o = c.Roles[r].Targets[i].Params
    BY DEF TargetObjects
  <1>4. \A o : o \in S <=> \E r \in SoleRoles : o = c.Roles[r].Params
    BY DEF SoleRoles
  <1>5. \A o : o \in P <=> \E name \in DOMAIN c.Profiles : o = c.Profiles[name]
    OBVIOUS
  <1> HIDE DEF P, T, S
  <1>6. \A o : o \in Objects(c) <=> o \in P \/ o \in T \/ o \in S
    BY <1>1
  <1>7. \A o : o \in T <=> \E r \in TargetRoles : \E i \in DOMAIN c.Roles[r].Targets :
                              o = c.Roles[r].Targets[i].Params
    BY <1>2, <1>3
  <1>8. \A name \in DOMAIN c.Profiles : c.Profiles[name] \in Objects(c)
    BY <1>5, <1>6
  <1>9. \A r \in TargetRoles : \A i \in DOMAIN c.Roles[r].Targets :
           c.Roles[r].Targets[i].Params \in Objects(c)
    BY <1>6, <1>7
  <1>10. \A r \in SoleRoles : c.Roles[r].Params \in Objects(c)
    BY <1>4, <1>6
  <1> QED BY <1>4, <1>5, <1>6, <1>7, <1>8, <1>9, <1>10

(* The parameters a unit was built from were validated.                    *)
LEMMA UnitParams ==
    ASSUME NEW c, IsConfig(c), Validate(c), NEW u \in buildRoles(c).units
    PROVE  \E r \in MonitoringRoles, p \in Objects(c) :
              /\ \E a : u = Unit(r, a, p)
              /\ IsParams(p) /\ validateParams(c, p)
              /\ r # "SpeedCheck" => p.TimeoutMS > 0
  <1>1. PICK r \in MonitoringRoles :
           /\ c.Roles[r].Enabled
           /\ u \in IF r \in TargetRoles THEN Targets(c, r) ELSE Sole(c, r)
    BY DEF buildRoles, Enabled
  <1>2. CASE r \in TargetRoles
    <2> DEFINE T == c.Roles[r].Targets
    <2>1. PICK i \in DOMAIN T : u = Unit(r, T[i].Address, T[i].Params)
      BY <1>1, <1>2 DEF Targets, Range
    <2>2. IsParams(T[i].Params)
      BY <1>2 DEF IsConfig, IsRole
    <2>3. validateTargets(c, c.Roles[r])
      BY <1>1, <1>2 DEF Validate, validateRoles, TargetRoles
    <2>4. T[i].Params.TimeoutMS > 0 /\ validateParams(c, T[i].Params)
      BY <2>3 DEF validateTargets
    <2>5. T[i].Params \in Objects(c)
      BY <1>2, ObjectsOf
    <2> HIDE DEF T
    <2> QED BY <1>2, <2>1, <2>2, <2>4, <2>5
  <1>3. CASE r \notin TargetRoles
    <2> DEFINE p == c.Roles[r].Params
    <2>1. r \in SoleRoles
      BY <1>3 DEF MonitoringRoles, TargetRoles, SoleRoles
    <2>2. u = Unit(r, "", p)
      BY <1>1, <1>3 DEF Sole
    <2>3. IsParams(p)
      BY <2>1 DEF IsConfig
    <2>4. validateParams(c, p) /\ (r # "SpeedCheck" => p.TimeoutMS > 0)
      BY <1>1, <2>1 DEF Validate, validateRoles, SoleRoles
    <2>5. p \in Objects(c)
      BY <2>1, ObjectsOf
    <2> HIDE DEF p
    <2> QED BY <2>2, <2>3, <2>4, <2>5
  <1> QED BY <1>2, <1>3

(* A unit relies on its interval, its timeout, the configuration of its    *)
(* state machine and the channels it notifies.                             *)
LEMMA UnitNeeds ==
    ASSUME IsConfig(cfg), Validate(cfg), Fits, NEW u \in buildRoles(cfg).units
    PROVE  /\ u.Interval > 0
           /\ u.Role # "SpeedCheck" => u.Timeout > 0
           /\ u.Mon.FailureThreshold >= 1
           /\ u.Mon.WindowSize >= 0
           /\ u.Mon.Trigger = TriggerAvailability =>
                 u.Mon.WindowSize > 0 /\ u.Mon.MinAvailability \in 1..100
           /\ Range(u.Channels) \subseteq DOMAIN cfg.Channels
  <1>1. PICK r \in MonitoringRoles, p \in Objects(cfg) :
           /\ \E a : u = Unit(r, a, p)
           /\ IsParams(p) /\ validateParams(cfg, p)
           /\ r # "SpeedCheck" => p.TimeoutMS > 0
    BY UnitParams
  <1>2. /\ p.IntervalS \in Int /\ p.TimeoutMS \in Int /\ p.FailureThreshold \in Int
        /\ p.WindowSize \in Int /\ p.MinAvailability \in Int
    BY <1>1 DEF IsParams, Numbers
  <1>3. p.IntervalS * Second < Half /\ p.TimeoutMS * Millisecond < Half
    BY <1>1 DEF Fits
  <1>4. /\ u.Role = r /\ u.Channels = p.Notify /\ u.Mon = monitorConfig(p)
        /\ u.Interval = Duration(p.IntervalS, Second)
        /\ u.Timeout = Duration(p.TimeoutMS, Millisecond)
    BY <1>1 DEF Unit
  <1>5. /\ p.IntervalS > 0 /\ p.FailureThreshold >= 1 /\ validateTrigger(p)
        /\ Range(p.Notify) \subseteq DOMAIN cfg.Channels
    BY <1>1 DEF validateParams, checkNotify
  <1>6. u.Interval > 0
    BY <1>2, <1>3, <1>4, <1>5, DurationExact, StartupAssumption
  <1>7. u.Role # "SpeedCheck" => u.Timeout > 0
    BY <1>1, <1>2, <1>3, <1>4, DurationExact, StartupAssumption
  <1>8. /\ u.Mon.FailureThreshold = p.FailureThreshold /\ u.Mon.WindowSize = p.WindowSize
        /\ u.Mon.MinAvailability = p.MinAvailability
        /\ u.Mon.Trigger = TriggerAvailability <=> p.Trigger = TriggerAvailability
    BY <1>4 DEF monitorConfig, TriggerAvailability, TriggerConsecutive
  <1>9. p.Trigger = TriggerAvailability => p.WindowSize > 0 /\ p.MinAvailability \in 1..100
    BY <1>2, <1>5 DEF validateTrigger, TriggerAvailability, TriggerConsecutive
  <1>10. p.WindowSize >= 0
    <2>1. p.WindowSize >= 0 \/ p.WindowSize > 0
      BY <1>5 DEF validateTrigger
    <2> QED BY <1>2, <2>1
  <1> QED BY <1>4, <1>5, <1>6, <1>7, <1>8, <1>9, <1>10

\* A daemon that starts has given every role what its code relies on
\* (config.go Validate against main.go buildChannels and buildRoles), whatever
\* the file says.
THEOREM NeedsMet == Spec => []RolesGetWhatTheyNeed
  <1>1. StartInv => RolesGetWhatTheyNeed
    <2> SUFFICES ASSUME StartInv, Running, Fits
                 PROVE  RolesGetWhatTheyNeed
      BY DEF RolesGetWhatTheyNeed
    <2>1. /\ IsConfig(cfg) /\ Validate(cfg) /\ active = buildRoles(cfg)
          /\ dispatcher = NewDispatcher(cfg)
      BY RunningConfig
    <2>2. \A u \in active.units :
             /\ u.Interval > 0
             /\ u.Role # "SpeedCheck" => u.Timeout > 0
             /\ u.Mon.FailureThreshold >= 1
             /\ u.Mon.WindowSize >= 0
             /\ u.Mon.Trigger = TriggerAvailability =>
                   u.Mon.WindowSize > 0 /\ u.Mon.MinAvailability \in 1..100
             /\ Range(u.Channels) \subseteq DOMAIN cfg.Channels
      BY <2>1, UnitNeeds
    <2>3. cfg.Roles.InternetCheck.Enabled => Len(cfg.Roles.InternetCheck.Sites) > 0
      <3> DEFINE S == cfg.Roles.InternetCheck.Sites
      <3>1. S \in Seq(Range(S))
        BY <2>1 DEF IsConfig
      <3>2. cfg.Roles.InternetCheck.Enabled => S # <<>>
        BY <2>1 DEF Validate, validateRoles
      <3> HIDE DEF S
      <3>3. S # <<>> => Len(S) > 0
        BY <3>1
      <3> QED BY <3>2, <3>3 DEF S
    <2>4. /\ DOMAIN dispatcher.channels = DOMAIN cfg.Channels
          /\ \A name \in DOMAIN dispatcher.channels :
                dispatcher.channels[name].Type \in HTTPChannels =>
                    dispatcher.channels[name].Timeout > 0
          /\ dispatcher.maxAttempts = cfg.Retry.MaxAttempts /\ dispatcher.baseDelay > 0
      <3>1. cfg.Retry.BaseDelayMS # 0
        <4>1. cfg = Loaded(file) /\ IsConfig(resolveProfiles(decode(file)))
          BY RunningConfig, LoadedConfig
        <4> QED BY <4>1, DelayNotZero DEF Loaded
      <3> QED BY <2>1, <3>1, DispatcherNeeds
    <2>5. \A p \in active.pong : p.ReadTimeout > 0
      <3> DEFINE n == cfg.Roles.PongServer.ReadTimeoutMS
      <3>1. n \in Int /\ n * Millisecond < Half
        BY <2>1 DEF IsConfig, Fits
      <3>2. ASSUME NEW p \in active.pong
            PROVE  cfg.Roles.PongServer.Enabled /\ p.ReadTimeout = Duration(n, Millisecond)
        BY <2>1 DEF buildRoles
      <3>3. cfg.Roles.PongServer.Enabled => n > 0
        BY <2>1 DEF Validate, validateRoles
      <3> HIDE DEF n
      <3> QED BY <3>1, <3>2, <3>3, DurationExact, StartupAssumption
    <2>6. \A r \in active.reporter : r.Interval > 0
      <3>1. ASSUME NEW r \in active.reporter
            PROVE  r.Interval = Duration(cfg.SummaryIntervalS, Second)
        BY <2>1 DEF buildRoles
      <3>2. /\ cfg.SummaryIntervalS \in Int /\ cfg.SummaryIntervalS > 0
            /\ cfg.SummaryIntervalS * Second < Half
        BY <2>1 DEF IsConfig, Validate, Fits
      <3> QED BY <3>1, <3>2, DurationExact, StartupAssumption
    <2> QED BY <2>2, <2>3, <2>4, <2>5, <2>6 DEF RolesGetWhatTheyNeed
  <1> QED BY <1>1, Invariance, PTL

(* A role that is switched on yields a unit.                               *)
LEMMA UnitsIffMonitoring ==
    ASSUME NEW c, IsConfig(c), Validate(c)
    PROVE  buildRoles(c).units # {} <=> monitoring(c)
  <1> DEFINE Of(r) == IF r \in TargetRoles THEN Targets(c, r) ELSE Sole(c, r)
  <1>1. buildRoles(c).units = UNION {Of(r) : r \in Enabled(c, MonitoringRoles)}
    BY DEF buildRoles
  <1>2. ASSUME NEW r \in Enabled(c, MonitoringRoles)
        PROVE  Of(r) # {}
    <2>1. CASE r \in TargetRoles
      <3> DEFINE T == c.Roles[r].Targets
      <3>1. T # <<>>
        BY <2>1 DEF Enabled, Validate, validateRoles, validateTargets, TargetRoles
      <3>2. DOMAIN T = {} => T = <<>>
        BY <2>1 DEF IsConfig, IsRole
      <3>3. PICK i : i \in DOMAIN T
        BY <3>1, <3>2
      <3>4. T[i] \in Range(T)
        BY <3>3 DEF Range
      <3> HIDE DEF T
      <3>5. Unit(r, T[i].Address, T[i].Params) \in Targets(c, r)
        BY <3>4 DEF Targets, T
      <3> QED BY <2>1, <3>5
    <2>2. CASE r \notin TargetRoles
      BY <2>2 DEF Sole
    <2> QED BY <2>1, <2>2
  <1> HIDE DEF Of
  <1> QED BY <1>1, <1>2 DEF monitoring

\* An instance answers get-summary and logs summaries exactly when it has
\* units to report on (main.go buildRoles), whatever the file says.
THEOREM SummaryCorrect == Spec => []SummaryIffUnits
  <1>1. StartInv => SummaryIffUnits
    <2> SUFFICES ASSUME StartInv, Running
                 PROVE  SummaryIffUnits
      BY DEF SummaryIffUnits
    <2>1. IsConfig(cfg) /\ Validate(cfg) /\ active = buildRoles(cfg)
      BY RunningConfig
    <2>2. active.units # {} <=> monitoring(cfg)
      BY <2>1, UnitsIffMonitoring
    <2>3. active.reporter # {} <=> monitoring(cfg)
      BY <2>1 DEF buildRoles
    <2>4. \A p \in active.pong : "get-summary" \in p.Handlers <=> monitoring(cfg)
      BY <2>1 DEF buildRoles
    <2> QED BY <2>2, <2>3, <2>4 DEF SummaryIffUnits
  <1> QED BY <1>1, Invariance, PTL

-----------------------------------------------------------------------------
(* Where a setting comes from.                                             *)

(* A target of a file, through the three steps of Load.                    *)
LEMMA TargetLoaded ==
    ASSUME NEW f, IsFile(f), profilesResolve(decode(f)),
           NEW r \in TargetRoles, f.Roles[r].Enabled, NEW i \in DOMAIN f.Roles[r].Targets
    PROVE  LET t == f.Roles[r].Targets[i]
               name == profileOf(f.Roles[r], t)
               p == decodeParams(t.Params)
           IN  /\ name # "" => name \in DOMAIN f.Profiles
               /\ Loaded(f).Roles[r].Targets[i].Params =
                     applyParamDefaults(IF name = "" THEN p
                                        ELSE inheritFrom(p, decodeParams(f.Profiles[name])))
  <1> DEFINE c == decode(f)
             e == resolveProfiles(c)
             role == f.Roles[r]
             t == role.Targets[i]
             name == profileOf(role, t)
             s == decodeTargets(role)
             u == resolveProfileRefs(c, s)
  <1>1. IsConfig(c) /\ IsConfig(e)
    BY LoadedConfig
  <1>2. c.Roles[r] = s
    BY DecodeRoles
  <1>3. IsTargetRole(role) /\ IsTarget(t)
    BY DEF IsFile, AreRoles, IsTargetRole
  <1>4. /\ s.Enabled = role.Enabled /\ s.DefaultProfile = role.DefaultProfile
        /\ s.Targets = [j \in DOMAIN role.Targets |-> decodeTarget(role.Targets[j])]
    <2> HIDE DEF role
    <2> QED BY <1>3, DecodeTargetsFields
  <1>5. s.Targets[i] = decodeTarget(t) /\ i \in DOMAIN s.Targets
    BY <1>4
  <1>6. /\ DOMAIN decodeTarget(t) = {"Address", "Profile", "Params"}
        /\ decodeTarget(t).Profile = t.Profile
        /\ decodeTarget(t).Params = decodeParams(t.Params)
        /\ IsParams(decodeTarget(t).Params)
    <2> HIDE DEF t
    <2> QED BY <1>3, DecodeTargetFields DEF IsTarget
  <1>7. profileOf(s, s.Targets[i]) = name
    <2> HIDE DEF s, t, role
    <2> QED BY <1>4, <1>5, <1>6 DEF profileOf
  <1>8. c.Roles[r].Enabled
    BY <1>2, <1>4
  <1>9. /\ IsRole(u)
        /\ u.Targets = [j \in DOMAIN s.Targets |->
                           resolveRef(c, s.Targets[j], profileOf(s, s.Targets[j]))]
        /\ \A j \in DOMAIN s.Targets :
              profileOf(s, s.Targets[j]) # "" => profileOf(s, s.Targets[j]) \in DOMAIN c.Profiles
    <2> DEFINE q == c.Roles[r]
    <2>1. profilesResolve(c)
      OBVIOUS
    <2> HIDE DEF c
    <2>2. /\ IsRole(resolveProfileRefs(c, q))
          /\ resolveProfileRefs(c, q).Targets = [j \in DOMAIN q.Targets |->
                resolveRef(c, q.Targets[j], profileOf(q, q.Targets[j]))]
          /\ \A j \in DOMAIN q.Targets :
                profileOf(q, q.Targets[j]) # "" => profileOf(q, q.Targets[j]) \in DOMAIN c.Profiles
      BY <1>1, <1>8, <2>1, ResolveRoleFields
    <2>3. q = s
      BY <1>2
    <2> HIDE DEF q, s
    <2> QED BY <2>2, <2>3
  <1>10. name # "" => name \in DOMAIN c.Profiles
    <2> HIDE DEF c, s, t, role, name
    <2> QED BY <1>5, <1>7, <1>9
  <1>11. c.Profiles = [n \in DOMAIN f.Profiles |-> decodeParams(f.Profiles[n])]
    BY DecodeFields
  <1>12. u.Targets[i] = resolveRef(c, decodeTarget(t), name) /\ i \in DOMAIN u.Targets
    <2> HIDE DEF c, s, t, role, name, u
    <2> QED BY <1>5, <1>7, <1>9
  <1>13. u.Targets[i].Params =
            IF name = "" THEN decodeParams(t.Params)
            ELSE inheritFrom(decodeParams(t.Params), decodeParams(f.Profiles[name]))
    <2>1. name # "" => IsParams(c.Profiles[name])
      <3> HIDE DEF c, name
      <3> QED BY <1>1, <1>10 DEF IsConfig
    <2> DEFINE x == decodeTarget(t)
    <2>2. DOMAIN x = {"Address", "Profile", "Params"} /\ IsParams(x.Params)
      BY <1>6
    <2> HIDE DEF c, s, u, t, role, name, x
    <2>3. resolveRef(c, x, name).Params =
             IF name = "" THEN x.Params ELSE inheritFrom(x.Params, c.Profiles[name])
      BY <2>1, <2>2, ResolveRefFields, ZenonT(30)
    <2>4. x.Params = decodeParams(t.Params)
      BY <1>6 DEF x
    <2> QED BY <1>10, <1>11, <1>12, <2>3, <2>4 DEF x
  <1>14. e.Roles[r] = u
    <2> HIDE DEF c, s
    <2> QED BY <1>1, <1>2, <1>8, ResolveFields
  <1>15. Loaded(f).Roles[r] = targetDefaults(u)
    <2>1. applyDefaults(e).Roles[r] = targetDefaults(e.Roles[r])
      <3> HIDE DEF e
      <3> QED BY <1>1, ApplyDefaultsRoles
    <2> QED BY <1>14, <2>1 DEF Loaded
  <1>16. targetDefaults(u).Targets[i].Params = applyParamDefaults(u.Targets[i].Params)
    <2> HIDE DEF u, s, c
    <2> QED BY <1>9, <1>12, TargetDefaultsFields
  <1>17. Loaded(f).Roles[r].Targets[i].Params = applyParamDefaults(
            IF name = "" THEN decodeParams(t.Params)
            ELSE inheritFrom(decodeParams(t.Params), decodeParams(f.Profiles[name])))
    BY <1>13, <1>15, <1>16
  <1>18. name # "" => name \in DOMAIN f.Profiles
    BY <1>10, <1>11
  <1> HIDE DEF name
  <1> QED BY <1>17, <1>18 DEF name

(* What the decoder makes of a field is zero unless the object sets it.    *)
LEMMA DecodedField ==
    ASSUME NEW o, NEW f \in Params
    PROVE  decodeParams(o)[f] = IF Sets(o, f) THEN o[f] ELSE ZeroParams[f]
  BY DEF decodeParams, Sets

LEMMA DueField ==
    ASSUME NEW o, NEW name, NEW f \in Params, IsObject(o),
           name # "" => IsObject(file.Profiles[name])
    PROVE  applyParamDefaults(IF name = "" THEN decodeParams(o)
                              ELSE inheritFrom(decodeParams(o),
                                               decodeParams(file.Profiles[name])))[f]
              = IF Sets(o, f) THEN o[f] ELSE Inherited(name, f, BuiltIn[f])
  <1> DEFINE p == decodeParams(o)
             g == file.Profiles[name]
             q == IF name = "" THEN p ELSE inheritFrom(p, decodeParams(g))
  <1>1. p[f] = IF Sets(o, f) THEN o[f] ELSE ZeroParams[f]
    BY DecodedField
  <1>2. decodeParams(g)[f] = IF Sets(g, f) THEN g[f] ELSE ZeroParams[f]
    BY DecodedField
  <1>3. Sets(o, f) => o[f] # ZeroParams[f]
    BY DEF Sets
  <1>4. Sets(g, f) => g[f] # ZeroParams[f]
    BY DEF Sets
  <1>5. DOMAIN q = Params
    BY DEF inheritFrom, decodeParams
  <1>6. q[f] = IF name # "" /\ p[f] = ZeroParams[f] THEN decodeParams(g)[f] ELSE p[f]
    BY DEF inheritFrom
  <1> HIDE DEF p, g, q
  <1>7. applyParamDefaults(q)[f] = IF q[f] = ZeroParams[f] THEN BuiltIn[f] ELSE q[f]
    BY <1>5, DefaultsFields
  <1>8. Inherited(name, f, BuiltIn[f]) =
           IF name # "" /\ Sets(g, f) THEN g[f] ELSE BuiltIn[f]
    BY DEF Inherited, g
  <1>9. applyParamDefaults(q)[f] = IF Sets(o, f) THEN o[f] ELSE Inherited(name, f, BuiltIn[f])
    BY <1>1, <1>2, <1>3, <1>4, <1>6, <1>7, <1>8
  <1> QED BY <1>9 DEF p, g, q

(* Where at most one profile applies, it is the one the code chooses.      *)
LEMMA OneProfileDue ==
    ASSUME NEW role, NEW t, NEW f, OneProfile(role, t)
    PROVE  Due(role, t, f) = IF Sets(t.Params, f) THEN t.Params[f]
                             ELSE Inherited(profileOf(role, t), f, BuiltIn[f])
  <1> DEFINE d == Inherited(role.DefaultProfile, f, BuiltIn[f])
  <1>1. CASE t.Profile = ""
    <2>1. Inherited(t.Profile, f, d) = d
      BY <1>1 DEF Inherited
    <2>2. profileOf(role, t) = role.DefaultProfile
      BY <1>1 DEF profileOf
    <2> HIDE DEF d
    <2> QED BY <2>1, <2>2 DEF Due, d
  <1>2. CASE t.Profile # "" /\ role.DefaultProfile \in {"", t.Profile}
    <2>1. profileOf(role, t) = t.Profile
      BY <1>2 DEF profileOf
    <2>2. Inherited(t.Profile, f, d) = Inherited(t.Profile, f, BuiltIn[f])
      BY <1>2 DEF Inherited
    <2> QED BY <2>1, <2>2 DEF Due
  <1> QED BY <1>1, <1>2 DEF OneProfile

\* Every setting of a target to which at most one profile applies comes from
\* its own object, else from that profile, else from the built-in default
\* (config.go Load, inheritFrom, applyDefaults), whatever the file says.
THEOREM PrecedenceCorrect == Spec => []OneProfilePrecedence
  <1>1. StartInv => OneProfilePrecedence
    <2> SUFFICES ASSUME StartInv, Running,
                        NEW r \in Enabled(file, TargetRoles),
                        NEW i \in DOMAIN file.Roles[r].Targets, NEW f \in Params,
                        OneProfile(file.Roles[r], file.Roles[r].Targets[i])
                 PROVE  cfg.Roles[r].Targets[i].Params[f] =
                           Due(file.Roles[r], file.Roles[r].Targets[i], f)
      BY DEF OneProfilePrecedence, GetsDue
    <2> DEFINE t == file.Roles[r].Targets[i]
               name == profileOf(file.Roles[r], t)
               o == t.Params
    <2>1. IsFile(file) /\ profilesResolve(decode(file)) /\ cfg = Loaded(file)
      BY RunningConfig
    <2>2. r \in TargetRoles /\ file.Roles[r].Enabled
      BY DEF Enabled
    <2>3. /\ name # "" => name \in DOMAIN file.Profiles
          /\ cfg.Roles[r].Targets[i].Params =
                applyParamDefaults(IF name = "" THEN decodeParams(o)
                   ELSE inheritFrom(decodeParams(o), decodeParams(file.Profiles[name])))
      BY <2>1, <2>2, TargetLoaded
    <2>4. IsObject(o)
      BY <2>1, <2>2 DEF IsFile, AreRoles, IsTargetRole, IsTarget
    <2>5. name # "" => IsObject(file.Profiles[name])
      BY <2>1, <2>3 DEF IsFile
    <2> HIDE DEF o, name
    <2> DEFINE due == IF Sets(o, f) THEN o[f] ELSE Inherited(name, f, BuiltIn[f])
               q == IF name = "" THEN decodeParams(o)
                    ELSE inheritFrom(decodeParams(o), decodeParams(file.Profiles[name]))
    <2>6. applyParamDefaults(q)[f] = due
      BY <2>4, <2>5, DueField
    <2>7. Due(file.Roles[r], t, f) = due
      BY OneProfileDue DEF o, name
    <2>8. cfg.Roles[r].Targets[i].Params = applyParamDefaults(q)
      BY <2>3
    <2> HIDE DEF q, due
    <2> QED BY <2>6, <2>7, <2>8
  <1> QED BY <1>1, Invariance, PTL

-----------------------------------------------------------------------------
(* The roles that are switched off.                                        *)

LEMMA StrippedFields ==
    ASSUME NEW f, IsFile(f)
    PROVE  LET g == Stripped(f)
           IN  /\ DOMAIN g = DOMAIN f /\ DOMAIN g.Roles = DOMAIN f.Roles
               /\ g.Retry = f.Retry /\ g.SummaryIntervalS = f.SummaryIntervalS
               /\ g.Profiles = f.Profiles /\ g.Channels = f.Channels
               /\ \A r \in DOMAIN f.Roles :
                     /\ DOMAIN g.Roles[r] = DOMAIN f.Roles[r]
                     /\ f.Roles[r].Enabled => g.Roles[r] = f.Roles[r]
                     /\ ~f.Roles[r].Enabled =>
                           \A x \in DOMAIN f.Roles[r] : g.Roles[r][x] = Off[x]
  BY DEF Stripped, IsFile

LEMMA OffFields ==
    /\ Off.Enabled = FALSE /\ Off.Targets = <<>> /\ Off.ReadTimeoutMS = 0
    /\ Off.Sites = <<>> /\ Off.ThresholdMbps = 0 /\ DOMAIN Off.Params = {}
    /\ <<>> \in Seq(Range(<<>>)) /\ DOMAIN <<>> = {}
  <1>1. /\ Off.Enabled = FALSE /\ Off.Targets = <<>> /\ Off.ReadTimeoutMS = 0
        /\ Off.Sites = <<>> /\ Off.ThresholdMbps = 0
    BY DEF Off
  <1>2. DOMAIN Off.Params = {}
    BY DEF Off
  <1>3. \A S : <<>> \in Seq(S)
    OBVIOUS
  <1>4. DOMAIN <<>> = {}
    OBVIOUS
  <1> QED BY <1>1, <1>2, <1>3, <1>4

LEMMA StrippedFile ==
    ASSUME NEW f, IsFile(f)
    PROVE  IsFile(Stripped(f))
  <1> DEFINE g == Stripped(f)
             R == g.Roles
             Q == f.Roles
  <1>1. /\ DOMAIN g = DOMAIN f /\ DOMAIN R = DOMAIN Q
        /\ g.Retry = f.Retry /\ g.SummaryIntervalS = f.SummaryIntervalS
        /\ g.Profiles = f.Profiles /\ g.Channels = f.Channels
        /\ \A r \in DOMAIN Q :
              /\ DOMAIN R[r] = DOMAIN Q[r]
              /\ Q[r].Enabled => R[r] = Q[r]
              /\ ~Q[r].Enabled => \A x \in DOMAIN Q[r] : R[r][x] = Off[x]
    BY StrippedFields
  <1>2. AreRoles(Q)
    BY DEF IsFile
  <1> HIDE DEF g, R, Q
  <1>3. \A r \in DOMAIN Q : "Enabled" \in DOMAIN Q[r] /\ R[r].Enabled \in BOOLEAN
    <2>1. \A r \in DOMAIN Q : "Enabled" \in DOMAIN Q[r] /\ Q[r].Enabled \in BOOLEAN
      BY <1>2 DEF AreRoles, TargetRoles, IsTargetRole
    <2> QED BY <1>1, <2>1, OffFields
  <1>4. R.PongServer.ReadTimeoutMS \in Int
    BY <1>1, <1>2, OffFields DEF AreRoles
  <1>5. ASSUME NEW r \in TargetRoles
        PROVE  IsTargetRole(R[r])
    <2>1. IsTargetRole(Q[r]) /\ r \in DOMAIN Q
      BY <1>2 DEF AreRoles, TargetRoles
    <2>2. CASE Q[r].Enabled
      BY <1>1, <2>1, <2>2
    <2>3. CASE ~Q[r].Enabled
      <3>1. /\ DOMAIN R[r] = {"Enabled", "DefaultProfile", "Targets"}
            /\ R[r].Targets = <<>>
        BY <1>1, <2>1, <2>3, OffFields DEF IsTargetRole
      <3> QED BY <1>3, <2>1, <3>1, OffFields DEF IsTargetRole
    <2> QED BY <2>2, <2>3
  <1>6. ASSUME NEW r \in SoleRoles
        PROVE  IsObject(R[r].Params)
    <2>1. IsObject(Q[r].Params) /\ r \in DOMAIN Q /\ "Params" \in DOMAIN Q[r]
      BY <1>2 DEF AreRoles, SoleRoles
    <2>2. Q[r].Enabled \/ R[r].Params = Off.Params
      BY <1>1, <2>1
    <2> QED BY <1>1, <2>1, <2>2, OffFields DEF IsObject
  <1>7. R.InternetCheck.Sites \in Seq(Range(R.InternetCheck.Sites))
    <2>1. R.InternetCheck = Q.InternetCheck \/ R.InternetCheck.Sites = <<>>
      BY <1>1, <1>2, OffFields DEF AreRoles
    <2> QED BY <1>2, <2>1, OffFields DEF AreRoles
  <1>8. R.SpeedCheck.ThresholdMbps \in Int
    BY <1>1, <1>2, OffFields DEF AreRoles
  <1>9. AreRoles(R)
    BY <1>1, <1>2, <1>3, <1>4, <1>5, <1>6, <1>7, <1>8 DEF AreRoles, SoleRoles
  <1>10. IsFile(g)
    BY <1>1, <1>9 DEF IsFile, R
  <1> QED BY <1>10 DEF g

(* A field that nobody knows is not among the ones that are left.          *)
LEMMA StrippedDecodable ==
    ASSUME NEW f, IsFile(f), decodable(f)
    PROVE  decodable(Stripped(f))
  <1> DEFINE g == Stripped(f)
  <1>1. /\ g.Profiles = f.Profiles
        /\ \A r \in DOMAIN f.Roles :
              /\ f.Roles[r].Enabled => g.Roles[r] = f.Roles[r]
              /\ ~f.Roles[r].Enabled => \A x \in DOMAIN f.Roles[r] : g.Roles[r][x] = Off[x]
    BY StrippedFields
  <1>2. /\ \A o \in Objects(f) : DOMAIN o \subseteq Params
        /\ DOMAIN f.Roles.SpeedCheck.Params \subseteq SpeedParams
    BY DEF decodable
  <1>3. AreRoles(f.Roles)
    BY DEF IsFile
  <1> HIDE DEF g
  <1>4. ASSUME NEW o \in Objects(g)
        PROVE  o \in Objects(f) \/ DOMAIN o = {}
    <2>1. CASE \E name \in DOMAIN g.Profiles : o = g.Profiles[name]
      BY <1>1, <2>1, ObjectsOf
    <2>2. CASE \E r \in TargetRoles : \E i \in DOMAIN g.Roles[r].Targets :
                  o = g.Roles[r].Targets[i].Params
      <3>1. PICK r \in TargetRoles : \E i \in DOMAIN g.Roles[r].Targets :
                                       o = g.Roles[r].Targets[i].Params
        BY <2>2
      <3>2. r \in DOMAIN f.Roles /\ "Targets" \in DOMAIN f.Roles[r]
        BY <1>3 DEF AreRoles, IsTargetRole, TargetRoles
      <3>3. g.Roles[r] = f.Roles[r] \/ g.Roles[r].Targets = <<>>
        BY <1>1, <3>2, OffFields
      <3>4. g.Roles[r] = f.Roles[r]
        BY <3>1, <3>3, OffFields
      <3> QED BY <3>1, <3>4, ObjectsOf
    <2>3. CASE \E r \in SoleRoles : o = g.Roles[r].Params
      <3>1. PICK r \in SoleRoles : o = g.Roles[r].Params
        BY <2>3
      <3>2. r \in DOMAIN f.Roles /\ "Params" \in DOMAIN f.Roles[r]
        BY <1>3 DEF AreRoles, SoleRoles
      <3>3. o = f.Roles[r].Params \/ o = Off.Params
        BY <1>1, <3>1, <3>2
      <3> QED BY <3>3, ObjectsOf, OffFields
    <2> QED BY <2>1, <2>2, <2>3, ObjectsOf
  <1>5. DOMAIN g.Roles.SpeedCheck.Params \subseteq SpeedParams
    <2>1. "SpeedCheck" \in DOMAIN f.Roles /\ "Params" \in DOMAIN f.Roles.SpeedCheck
      BY <1>3 DEF AreRoles
    <2>2. \/ g.Roles.SpeedCheck.Params = f.Roles.SpeedCheck.Params
          \/ g.Roles.SpeedCheck.Params = Off.Params
      BY <1>1, <2>1
    <2> QED BY <1>2, <2>2, OffFields
  <1>6. decodable(g)
    BY <1>2, <1>4, <1>5 DEF decodable
  <1> QED BY <1>6 DEF g

(* Two configurations that differ at most in roles that are switched off.  *)
Alike(c, d) ==
    /\ c.Retry.MaxAttempts = d.Retry.MaxAttempts
    /\ c.Retry.BaseDelayMS = d.Retry.BaseDelayMS
    /\ c.SummaryIntervalS = d.SummaryIntervalS
    /\ c.Profiles = d.Profiles /\ c.Channels = d.Channels
    /\ \A r \in MonitoringRoles \cup {"PongServer"} : c.Roles[r].Enabled = d.Roles[r].Enabled
    /\ \A r \in TargetRoles \cup {"PongServer"} :
          c.Roles[r].Enabled => c.Roles[r] = d.Roles[r]
    /\ \A r \in SoleRoles : c.Roles[r].Enabled => c.Roles[r].Params = d.Roles[r].Params
    /\ c.Roles.InternetCheck.Enabled => c.Roles.InternetCheck.Sites = d.Roles.InternetCheck.Sites
    /\ c.Roles.SpeedCheck.Enabled =>
          c.Roles.SpeedCheck.ThresholdMbps = d.Roles.SpeedCheck.ThresholdMbps

LEMMA RoleNames ==
    /\ MonitoringRoles = TargetRoles \cup SoleRoles
    /\ "PongServer" \notin TargetRoles \cup SoleRoles
  BY DEF MonitoringRoles, TargetRoles, SoleRoles

LEMMA AlikeSymmetric ==
    ASSUME NEW c, NEW d, Alike(c, d)
    PROVE  Alike(d, c)
  BY RoleNames DEF Alike, SoleRoles, TargetRoles

LEMMA DecodeAlike ==
    ASSUME NEW f, IsFile(f)
    PROVE  Alike(decode(f), decode(Stripped(f)))
  <1> DEFINE g == Stripped(f)
             c == decode(f)
             d == decode(g)
  <1>1. IsFile(g)
    BY StrippedFile
  <1>2. /\ g.Retry = f.Retry /\ g.SummaryIntervalS = f.SummaryIntervalS
        /\ g.Profiles = f.Profiles /\ g.Channels = f.Channels
        /\ \A r \in DOMAIN f.Roles :
              /\ f.Roles[r].Enabled => g.Roles[r] = f.Roles[r]
              /\ ~f.Roles[r].Enabled => \A x \in DOMAIN f.Roles[r] : g.Roles[r][x] = Off[x]
    BY StrippedFields
  <1>3. AreRoles(f.Roles) /\ AreRoles(g.Roles)
    BY <1>1 DEF IsFile
  <1> HIDE DEF g
  <1>4. /\ c.Retry = f.Retry /\ c.SummaryIntervalS = f.SummaryIntervalS
        /\ c.Channels = f.Channels
        /\ c.Profiles = [n \in DOMAIN f.Profiles |-> decodeParams(f.Profiles[n])]
    BY DecodeFields
  <1>5. /\ d.Retry = g.Retry /\ d.SummaryIntervalS = g.SummaryIntervalS
        /\ d.Channels = g.Channels
        /\ d.Profiles = [n \in DOMAIN g.Profiles |-> decodeParams(g.Profiles[n])]
    BY <1>1, DecodeFields
  <1>6. /\ c.Roles.PongServer = f.Roles.PongServer
        /\ \A r \in TargetRoles : c.Roles[r] = decodeTargets(f.Roles[r])
        /\ \A r \in SoleRoles : c.Roles[r] = decodeTarget(f.Roles[r])
    BY DecodeRoles
  <1>7. /\ d.Roles.PongServer = g.Roles.PongServer
        /\ \A r \in TargetRoles : d.Roles[r] = decodeTargets(g.Roles[r])
        /\ \A r \in SoleRoles : d.Roles[r] = decodeTarget(g.Roles[r])
    BY <1>1, DecodeRoles
  <1> HIDE DEF c, d
  <1>8. ASSUME NEW h, AreRoles(h)
        PROVE  /\ \A r \in TargetRoles : decodeTargets(h[r]).Enabled = h[r].Enabled
               /\ \A r \in SoleRoles : decodeTarget(h[r]).Enabled = h[r].Enabled
    BY <1>8 DEF AreRoles, IsTargetRole, SoleRoles, decodeTargets, decodeTarget
  <1>9. \A r \in MonitoringRoles \cup {"PongServer"} :
           /\ f.Roles[r].Enabled \in BOOLEAN /\ g.Roles[r].Enabled = f.Roles[r].Enabled
           /\ f.Roles[r].Enabled => g.Roles[r] = f.Roles[r]
    <2>1. \A r \in MonitoringRoles \cup {"PongServer"} :
             /\ r \in DOMAIN f.Roles /\ "Enabled" \in DOMAIN f.Roles[r]
             /\ f.Roles[r].Enabled \in BOOLEAN
      BY <1>3 DEF AreRoles, MonitoringRoles, TargetRoles, IsTargetRole
    <2> QED BY <1>2, <2>1, OffFields
  <1>10. \A r \in MonitoringRoles \cup {"PongServer"} :
            /\ c.Roles[r].Enabled = f.Roles[r].Enabled
            /\ d.Roles[r].Enabled = f.Roles[r].Enabled
            /\ f.Roles[r].Enabled => c.Roles[r] = d.Roles[r]
    <2>1. \A r \in TargetRoles \cup SoleRoles : c.Roles[r].Enabled = f.Roles[r].Enabled
      BY <1>3, <1>6, <1>8
    <2>2. \A r \in TargetRoles \cup SoleRoles : d.Roles[r].Enabled = g.Roles[r].Enabled
      BY <1>3, <1>7, <1>8
    <2>3. \A r \in TargetRoles \cup SoleRoles : f.Roles[r].Enabled => c.Roles[r] = d.Roles[r]
      BY <1>6, <1>7, <1>9, RoleNames
    <2> QED BY <1>6, <1>7, <1>9, <2>1, <2>2, <2>3, RoleNames
  <1>11. Alike(c, d)
    <2>1. \A r \in TargetRoles \cup {"PongServer"} :
             c.Roles[r].Enabled => c.Roles[r] = d.Roles[r]
      BY <1>10, RoleNames
    <2>2. \A r \in SoleRoles : c.Roles[r].Enabled => c.Roles[r] = d.Roles[r]
      BY <1>10, RoleNames
    <2>3. \A r \in MonitoringRoles \cup {"PongServer"} :
             c.Roles[r].Enabled = d.Roles[r].Enabled
      BY <1>10
    <2> QED BY <1>2, <1>4, <1>5, <2>1, <2>2, <2>3 DEF Alike, SoleRoles
  <1> QED BY <1>11 DEF c, d, g

LEMMA ResolveAlike ==
    ASSUME NEW c, NEW d, IsConfig(c), IsConfig(d), Alike(c, d)
    PROVE  Alike(resolveProfiles(c), resolveProfiles(d))
  <1> DEFINE a == resolveProfiles(c)
             b == resolveProfiles(d)
  <1>1. /\ a.Retry = c.Retry /\ a.SummaryIntervalS = c.SummaryIntervalS
        /\ a.Channels = c.Channels /\ a.Profiles = c.Profiles
        /\ a.Roles.PongServer = c.Roles.PongServer
        /\ \A r \in SoleRoles : a.Roles[r] = c.Roles[r]
        /\ \A r \in TargetRoles : a.Roles[r] =
              IF c.Roles[r].Enabled THEN resolveProfileRefs(c, c.Roles[r]) ELSE c.Roles[r]
    BY ResolveFields
  <1>2. /\ b.Retry = d.Retry /\ b.SummaryIntervalS = d.SummaryIntervalS
        /\ b.Channels = d.Channels /\ b.Profiles = d.Profiles
        /\ b.Roles.PongServer = d.Roles.PongServer
        /\ \A r \in SoleRoles : b.Roles[r] = d.Roles[r]
        /\ \A r \in TargetRoles : b.Roles[r] =
              IF d.Roles[r].Enabled THEN resolveProfileRefs(d, d.Roles[r]) ELSE d.Roles[r]
    BY ResolveFields
  <1>3. \A t, name : resolveRef(c, t, name) = resolveRef(d, t, name)
    BY DEF resolveRef, Alike
  <1>4. \A role : resolveProfileRefs(c, role) = resolveProfileRefs(d, role)
    BY <1>3 DEF resolveProfileRefs
  <1>5. \A r \in TargetRoles : /\ resolveProfileRefs(c, c.Roles[r]).Enabled = c.Roles[r].Enabled
                               /\ resolveProfileRefs(d, d.Roles[r]).Enabled = d.Roles[r].Enabled
    BY DEF resolveProfileRefs, IsConfig, IsRole
  <1> HIDE DEF a, b
  <1>6. \A r \in TargetRoles : /\ a.Roles[r].Enabled = b.Roles[r].Enabled
                               /\ a.Roles[r].Enabled => a.Roles[r] = b.Roles[r]
    <2>1. \A r \in TargetRoles : /\ c.Roles[r].Enabled = d.Roles[r].Enabled
                                 /\ c.Roles[r].Enabled => c.Roles[r] = d.Roles[r]
      BY RoleNames DEF Alike
    <2>2. \A r \in TargetRoles : /\ a.Roles[r].Enabled = c.Roles[r].Enabled
                                 /\ b.Roles[r].Enabled = d.Roles[r].Enabled
      BY <1>1, <1>2, <1>5
    <2> QED BY <1>1, <1>2, <1>4, <2>1, <2>2
  <1>7. \A r \in SoleRoles \cup {"PongServer"} : a.Roles[r] = c.Roles[r] /\ b.Roles[r] = d.Roles[r]
    BY <1>1, <1>2
  <1>8. \A r \in MonitoringRoles \cup {"PongServer"} : a.Roles[r].Enabled = b.Roles[r].Enabled
    BY <1>6, <1>7, RoleNames DEF Alike
  <1>9. Alike(a, b)
    BY <1>1, <1>2, <1>6, <1>7, <1>8 DEF Alike, SoleRoles
  <1> QED BY <1>9 DEF a, b

LEMMA DefaultsAlike ==
    ASSUME NEW c, NEW d, IsConfig(c), IsConfig(d), Alike(c, d)
    PROVE  Alike(applyDefaults(c), applyDefaults(d))
  <1> DEFINE a == applyDefaults(c)
             b == applyDefaults(d)
  <1>1. /\ a.Profiles = c.Profiles
        /\ a.Retry.MaxAttempts = Default(c.Retry.MaxAttempts, 0, 3)
        /\ a.Retry.BaseDelayMS = Default(c.Retry.BaseDelayMS, 0, 500)
        /\ a.SummaryIntervalS = Default(c.SummaryIntervalS, 0, 900)
        /\ a.Channels = [n \in DOMAIN c.Channels |-> channelDefaults(c.Channels[n])]
    BY ApplyDefaultsFields
  <1>2. /\ b.Profiles = d.Profiles
        /\ b.Retry.MaxAttempts = Default(d.Retry.MaxAttempts, 0, 3)
        /\ b.Retry.BaseDelayMS = Default(d.Retry.BaseDelayMS, 0, 500)
        /\ b.SummaryIntervalS = Default(d.SummaryIntervalS, 0, 900)
        /\ b.Channels = [n \in DOMAIN d.Channels |-> channelDefaults(d.Channels[n])]
    BY ApplyDefaultsFields
  <1>3. /\ a.Roles.PongServer = c.Roles.PongServer
        /\ \A r \in TargetRoles : a.Roles[r] = targetDefaults(c.Roles[r])
        /\ \A r \in SoleRoles : /\ a.Roles[r].Enabled = c.Roles[r].Enabled
                                /\ a.Roles[r].Params = applyParamDefaults(c.Roles[r].Params)
        /\ a.Roles.InternetCheck.Sites = c.Roles.InternetCheck.Sites
        /\ a.Roles.SpeedCheck.ThresholdMbps = c.Roles.SpeedCheck.ThresholdMbps
    BY ApplyDefaultsRoles
  <1>4. /\ b.Roles.PongServer = d.Roles.PongServer
        /\ \A r \in TargetRoles : b.Roles[r] = targetDefaults(d.Roles[r])
        /\ \A r \in SoleRoles : /\ b.Roles[r].Enabled = d.Roles[r].Enabled
                                /\ b.Roles[r].Params = applyParamDefaults(d.Roles[r].Params)
        /\ b.Roles.InternetCheck.Sites = d.Roles.InternetCheck.Sites
        /\ b.Roles.SpeedCheck.ThresholdMbps = d.Roles.SpeedCheck.ThresholdMbps
    BY ApplyDefaultsRoles
  <1>5. \A r \in TargetRoles : /\ targetDefaults(c.Roles[r]).Enabled = c.Roles[r].Enabled
                               /\ targetDefaults(d.Roles[r]).Enabled = d.Roles[r].Enabled
    BY DEF targetDefaults, IsConfig, IsRole
  <1> HIDE DEF a, b
  <1>6. \A r \in TargetRoles \cup SoleRoles \cup {"PongServer"} :
           /\ a.Roles[r].Enabled = c.Roles[r].Enabled
           /\ b.Roles[r].Enabled = d.Roles[r].Enabled
           /\ c.Roles[r].Enabled = d.Roles[r].Enabled
    BY <1>3, <1>4, <1>5, RoleNames DEF Alike
  <1>7. \A r \in TargetRoles \cup {"PongServer"} : a.Roles[r].Enabled => a.Roles[r] = b.Roles[r]
    BY <1>3, <1>4, <1>6 DEF Alike
  <1>8. \A r \in SoleRoles : a.Roles[r].Enabled => a.Roles[r].Params = b.Roles[r].Params
    BY <1>3, <1>4, <1>6 DEF Alike
  <1>9. /\ a.Roles.InternetCheck.Enabled =>
              a.Roles.InternetCheck.Sites = b.Roles.InternetCheck.Sites
        /\ a.Roles.SpeedCheck.Enabled =>
              a.Roles.SpeedCheck.ThresholdMbps = b.Roles.SpeedCheck.ThresholdMbps
    BY <1>3, <1>4, <1>6 DEF Alike, SoleRoles
  <1>10. /\ a.Retry.MaxAttempts = b.Retry.MaxAttempts /\ a.Retry.BaseDelayMS = b.Retry.BaseDelayMS
         /\ a.SummaryIntervalS = b.SummaryIntervalS
         /\ a.Profiles = b.Profiles /\ a.Channels = b.Channels
    BY <1>1, <1>2 DEF Alike
  <1>11. Alike(a, b)
    BY <1>6, <1>7, <1>8, <1>9, <1>10, RoleNames DEF Alike
  <1> QED BY <1>11 DEF a, b

(* Neither check looks at a role that is switched off.                     *)
LEMMA ResolvesAlike ==
    ASSUME NEW c, NEW d, Alike(c, d), profilesResolve(c)
    PROVE  profilesResolve(d)
  BY RoleNames DEF profilesResolve, profilesDefined, Alike

LEMMA ValidAlike ==
    ASSUME NEW c, NEW d, Alike(c, d), Validate(c)
    PROVE  Validate(d)
  <1>1. validateChannels(d)
    BY DEF Alike, Validate, validateChannels
  <1>2. \A p : validateParams(c, p) => validateParams(d, p)
    BY DEF Alike, validateParams, checkNotify
  <1>3. \A role : validateTargets(c, role) => validateTargets(d, role)
    BY <1>2 DEF validateTargets
  <1>4. validateRoles(d)
    <2> DEFINE q == c.Roles
               r == d.Roles
    <2>1. /\ r.PongServer.Enabled => q.PongServer.Enabled /\ r.PongServer = q.PongServer
          /\ r.PingMonitor.Enabled => q.PingMonitor.Enabled /\ r.PingMonitor = q.PingMonitor
          /\ r.URLMonitor.Enabled => q.URLMonitor.Enabled /\ r.URLMonitor = q.URLMonitor
      BY DEF Alike, MonitoringRoles, TargetRoles
    <2>2. /\ r.InternetCheck.Enabled =>
                /\ q.InternetCheck.Enabled /\ r.InternetCheck.Sites = q.InternetCheck.Sites
                /\ r.InternetCheck.Params = q.InternetCheck.Params
          /\ r.SpeedCheck.Enabled =>
                /\ q.SpeedCheck.Enabled
                /\ r.SpeedCheck.ThresholdMbps = q.SpeedCheck.ThresholdMbps
                /\ r.SpeedCheck.Params = q.SpeedCheck.Params
      BY DEF Alike, MonitoringRoles, SoleRoles
    <2>3. validateRoles(c)
      BY DEF Validate
    <2> HIDE DEF q, r
    <2>4. /\ r.PongServer.Enabled =>
                r.PongServer.Listen # "" /\ r.PongServer.ReadTimeoutMS > 0
          /\ r.PingMonitor.Enabled => validateTargets(d, r.PingMonitor)
          /\ r.URLMonitor.Enabled =>
                /\ validateTargets(d, r.URLMonitor)
                /\ \A i \in DOMAIN r.URLMonitor.Targets :
                      validateHTTPURL(r.URLMonitor.Targets[i].Address)
      BY <1>3, <2>1, <2>3 DEF validateRoles, q
    <2>5. /\ r.InternetCheck.Enabled =>
                /\ r.InternetCheck.Sites # <<>>
                /\ r.InternetCheck.Params.TimeoutMS > 0
                /\ validateParams(d, r.InternetCheck.Params)
          /\ r.SpeedCheck.Enabled =>
                /\ r.SpeedCheck.ThresholdMbps > 0
                /\ validateParams(d, r.SpeedCheck.Params)
      BY <1>2, <2>2, <2>3 DEF validateRoles, q
    <2> QED BY <2>4, <2>5 DEF validateRoles, r
  <1> QED BY <1>1, <1>4 DEF Validate, Alike

LEMMA LoadedAlike ==
    ASSUME NEW f, IsFile(f), profilesResolve(decode(f))
    PROVE  /\ profilesResolve(decode(Stripped(f)))
           /\ Alike(Loaded(f), Loaded(Stripped(f)))
  <1> DEFINE g == Stripped(f)
  <1>1. IsFile(g) /\ Alike(decode(f), decode(g))
    BY StrippedFile, DecodeAlike
  <1>2. profilesResolve(decode(g))
    BY <1>1, ResolvesAlike
  <1> HIDE DEF g
  <1>3. /\ IsConfig(decode(f)) /\ IsConfig(resolveProfiles(decode(f)))
        /\ IsConfig(decode(g)) /\ IsConfig(resolveProfiles(decode(g)))
    BY <1>1, <1>2, LoadedConfig
  <1>4. Alike(resolveProfiles(decode(f)), resolveProfiles(decode(g)))
    BY <1>1, <1>3, ResolveAlike
  <1>5. Alike(Loaded(f), Loaded(g))
    BY <1>3, <1>4, DefaultsAlike DEF Loaded
  <1> QED BY <1>2, <1>5 DEF g

\* What the file says of a role that is switched off never decides whether
\* the daemon starts (config.go resolveProfiles, validateRoles), whatever it
\* says.
THEOREM DisabledCorrect == Spec => []DisabledRolesIgnored
  <1>1. StartInv => DisabledRolesIgnored
    <2> SUFFICES ASSUME StartInv
                 PROVE  DisabledRolesIgnored
      OBVIOUS
    <2> DEFINE g == Stripped(file)
    <2>1. IsFile(file)
      BY StartupAssumption DEF StartInv
    <2>2. Alike(decode(file), decode(g))
      BY <2>1, DecodeAlike
    <2>3. Running => Loads(g)
      <3> SUFFICES ASSUME Running
                   PROVE  Loads(g)
        OBVIOUS
      <3>1. decodable(file) /\ profilesResolve(decode(file)) /\ Validate(Loaded(file))
        BY RunningConfig
      <3>2. decodable(g)
        BY <2>1, <3>1, StrippedDecodable
      <3>3. profilesResolve(decode(g)) /\ Validate(Loaded(g))
        BY <2>1, <3>1, LoadedAlike, ValidAlike
      <3> HIDE DEF g
      <3> QED BY <3>2, <3>3 DEF Loads, Loaded
    <2>4. failed = "resolve" => ~Loads(g)
      <3>1. profilesResolve(decode(g)) => profilesResolve(decode(file))
        BY <2>2, AlikeSymmetric, ResolvesAlike
      <3> HIDE DEF g
      <3> QED BY <3>1 DEF StartInv, Loads
    <2>5. failed = "validate" => ~Loads(g)
      <3> SUFFICES ASSUME failed = "validate", profilesResolve(decode(g)), Validate(Loaded(g))
                   PROVE  FALSE
        BY DEF Loads, Loaded
      <3>1. profilesResolve(decode(file))
        BY <2>2, AlikeSymmetric, ResolvesAlike
      <3>2. Alike(Loaded(g), Loaded(file))
        BY <2>1, <3>1, LoadedAlike, AlikeSymmetric
      <3>3. Validate(Loaded(file))
        BY <3>2, ValidAlike
      <3> QED BY <3>3 DEF StartInv
    <2> HIDE DEF g
    <2>6. /\ Running => Loads(g)
          /\ failed \in {"resolve", "validate"} => ~Loads(g)
      BY <2>3, <2>4, <2>5
    <2> QED BY <2>6 DEF DisabledRolesIgnored, g
  <1> QED BY <1>1, Invariance, PTL

=============================================================================
