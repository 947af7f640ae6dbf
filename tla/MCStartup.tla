----------------------------- MODULE MCStartup ------------------------------
(* Startup for TLC: a duration counts milliseconds and has 24 bits: it     *)
(* wraps after 8388 seconds.                                               *)
EXTENDS Startup

MCParse(raw) ==
    CASE raw = "http://h"  -> [ok |-> TRUE, Scheme |-> "http", Host |-> "h"]
      [] raw = "ftp://h"   -> [ok |-> TRUE, Scheme |-> "ftp", Host |-> "h"]
      [] raw = "http:///p" -> [ok |-> TRUE, Scheme |-> "http", Host |-> ""]
      [] OTHER             -> [ok |-> FALSE, Scheme |-> "", Host |-> ""]

Nothing == [f \in {} |-> 0]

(* The objects that lack field f, and those that set it to one of values.  *)
Field(f, values) == {Nothing} \cup {f :> v : v \in values}

(* All combinations of three fields.                                       *)
Combine(A, B, C) == {x[1] @@ x[2] @@ x[3] : x \in A \X B \X C}

Timing == "IntervalS" :> 30 @@ "TimeoutMS" :> 200

Console == [Type |-> "console", NonEmpty |-> {}, Port |-> 0, TimeoutMS |-> 0]

Target(address, profile, o) ==
    [Address |-> address, Profile |-> profile, Params |-> o]

TargetRole(default, targets) ==
    [Enabled |-> TRUE, DefaultProfile |-> default, Targets |-> targets]

Base ==
    [Retry |-> [MaxAttempts |-> 0, BaseDelayMS |-> 0], SummaryIntervalS |-> 0,
     Profiles |-> Nothing, Channels |-> "log" :> Console @@ "page" :> Console,
     Roles |-> [PongServer    |-> [Enabled |-> FALSE, Listen |-> "", ReadTimeoutMS |-> 0],
                PingMonitor   |-> [Enabled |-> FALSE, DefaultProfile |-> "",
                                   Targets |-> <<>>],
                URLMonitor    |-> [Enabled |-> FALSE, DefaultProfile |-> "",
                                   Targets |-> <<>>],
                InternetCheck |-> [Enabled |-> FALSE, Sites |-> <<>>, Params |-> Nothing],
                SpeedCheck    |-> [Enabled |-> FALSE, ThresholdMbps |-> 0,
                                   Binary |-> "", Params |-> Nothing]]]

-----------------------------------------------------------------------------
(* A target with its object, its profile and its role's profile.           *)
ProfileFile(role, own, default, inline, p, q) ==
    [Base EXCEPT !.Profiles = "p" :> p @@ "q" :> q,
                 !.Roles[role] = TargetRole(default,
                     <<Target("http://h", own, inline)>>)]

References == {<<"", "">>, <<"p", "">>, <<"p", "q">>, <<"", "q">>, <<"ghost", "q">>,
               <<"p", "ghost">>, <<"p", "p">>}

(* The settings of the trigger, the others complete.                       *)
TriggerFiles ==
    LET objects == Combine(Field("Trigger", {"consecutive", "availability", "typo"}),
                           Field("WindowSize", {-1, 0, 3}),
                           Field("MinAvailability", {90, 101}))
        profiles == {Nothing, "Trigger" :> "availability" @@ "WindowSize" :> 5,
                     "MinAvailability" :> 80}
    IN  {ProfileFile("PingMonitor", r[1], r[2], Timing @@ o, p,
                     "Trigger" :> "availability" @@ "MinAvailability" :> 70) :
           r \in References, o \in objects, p \in profiles}

(* The timing and the threshold.                                           *)
TimingFiles ==
    LET objects == Combine(Field("IntervalS", {-1, 30}), Field("TimeoutMS", {200}),
                           Field("FailureThreshold", {-1, 0, 2}))
        profiles == {Nothing, "IntervalS" :> 60,
                     "TimeoutMS" :> 300 @@ "FailureThreshold" :> 3}
    IN  {ProfileFile("URLMonitor", r[1], r[2], o, p,
                     "IntervalS" :> 90 @@ "FailureThreshold" :> 4) :
           r \in References, o \in objects, p \in profiles}

(* The channels to notify and the flag; a field nobody knows.              *)
NotifyFiles ==
    LET objects == Combine(Field("Notify", {<<>>, <<"log">>, <<"log", "typo">>}),
                           Field("InsecureSkipVerify", BOOLEAN), {Nothing})
        profiles == {Nothing, "Notify" :> <<"page">>,
                     "InsecureSkipVerify" :> TRUE, "Interval" :> 30}
    IN  {ProfileFile("URLMonitor", r[1], r[2], Timing @@ o, p, "Notify" :> <<"log">>) :
           r \in References, o \in objects, p \in profiles}

(* Each role complete, with a defect, or switched off with a defect.       *)
RoleFiles ==
    LET pong(on, ms) == [Enabled |-> on, Listen |-> ":9000", ReadTimeoutMS |-> ms]
        ping(on, p) == [Enabled |-> on, DefaultProfile |-> p,
                        Targets |-> <<Target("h:1", "", Timing)>>]
        url(on, a) == [Enabled |-> on, DefaultProfile |-> "",
                       Targets |-> <<Target("http://h", "", Timing),
                                     Target(a, "", Timing)>>]
        net(on, sites) == [Enabled |-> on, Sites |-> sites, Params |-> Timing]
        speed(on, mbps) == [Enabled |-> on, ThresholdMbps |-> mbps, Binary |-> "",
                            Params |-> "IntervalS" :> 600]
    IN  {[Base EXCEPT !.Roles = v] : v \in
           [PongServer    : {pong(FALSE, 0), pong(TRUE, 500), pong(TRUE, 0)},
            PingMonitor   : {ping(FALSE, "ghost"), ping(TRUE, ""), ping(TRUE, "ghost")},
            URLMonitor    : {url(FALSE, ""), url(TRUE, "http://h")} \cup
                            {url(TRUE, a) : a \in {"ftp://h", "http:///p", "%", ""}},
            InternetCheck : {net(FALSE, <<>>), net(TRUE, <<"a">>), net(TRUE, <<>>)},
            SpeedCheck    : {speed(FALSE, 0), speed(TRUE, 50), speed(TRUE, 0),
                             [speed(TRUE, 50) EXCEPT !.Params = Timing]}]}

(* One channel, complete or lacking a field, and the global settings.      *)
ChannelFiles ==
    LET lacking(t) == {Required[t] \ x : x \in {{}} \cup {{y} : y \in Required[t]}}
        kinds == UNION {[Type : {t}, NonEmpty : lacking(t), Port : {0, 25},
                         TimeoutMS : {-1, 0, 7}] : t \in DOMAIN Required}
        odd == [Type : {"", "pager"}, NonEmpty : {{}}, Port : {0}, TimeoutMS : {0}]
        pong == [Enabled |-> TRUE, Listen |-> ":9000", ReadTimeoutMS |-> 500]
    IN  {[Base EXCEPT !.Channels = "c" :> k, !.Retry.MaxAttempts = g[1],
                      !.Retry.BaseDelayMS = g[2], !.SummaryIntervalS = g[3],
                      !.Roles.PongServer = pong] :
           k \in kinds \cup odd,
           g \in {<<0, 0, 0>>, <<1, 9, 60>>, <<-1, 0, 0>>, <<0, -1, 0>>, <<0, 0, -1>>}}

(* Intervals and timeouts on both sides of the range of a duration.        *)
LongFiles ==
    {ProfileFile("PingMonitor", "", "", "IntervalS" :> n @@ "TimeoutMS" :> t,
                 Nothing, Nothing) :
       n \in {1, 8388, 8389, 20000}, t \in {200, 8388607, 8388608}}

(* The same of a channel's timeout and of the base delay.                  *)
LongChannelFiles ==
    {[Base EXCEPT !.Channels = "c" :> [Type |-> "webhook", NonEmpty |-> {"URL"},
                                       Port |-> 0, TimeoutMS |-> t],
                  !.Retry.BaseDelayMS = d,
                  !.Roles.PongServer = [Enabled |-> TRUE, Listen |-> ":9000",
                                        ReadTimeoutMS |-> 500]] :
       t \in {1, 8388607, 8388608}, d \in {1, 8388607, 8388608}}

MCFiles == TriggerFiles \cup TimingFiles \cup NotifyFiles \cup RoleFiles \cup
           ChannelFiles \cup LongFiles \cup LongChannelFiles

=============================================================================
