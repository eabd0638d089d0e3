---------------------------- MODULE AlertRouting -----------------------------
(* What happens to an enriched alert: it is routed, stored, and its owner and *)
(* the teams it affects are told, each over a channel that may fail.          *)
EXTENDS FiniteSets, Naturals

CONSTANTS Teams,         \* teams of alerts and stakeholders
          ByTeam, ByOwner, \* teams routed by their label, by their application
          Minimums,      \* severities that impact routing starts from, or "off"
          Many           \* notices from which one summary is sent (5)

VARIABLES
  alert,     \* severity, label of a team, team of its application, stakeholders
  config,    \* impact routing, disabled channels, configured channels
  suppressed, stage, routing,
  asked,     \* notices not sent yet
  tried, told, stored
vars == <<alert, config, suppressed, stage, routing, asked, tried, told, stored>>

NoTeam == "none"
Channels == {"slack", "pagerduty"}
Severities == {"critical", "error", "info"}
Alert == [severity : Severities, team : Teams \cup {NoTeam}, owner : Teams \cup {NoTeam},
          stakeholders : SUBSET Teams]
Config == [minimum : Minimums, disabled : SUBSET {"slack"}, configured : SUBSET Channels]
NoRouting == [receiver |-> "default", channel |-> "slack", severity |-> "warning", notices |-> {}]
Init ==
  /\ alert \in {a \in Alert : a.owner \notin a.stakeholders}
  /\ config \in Config
  /\ suppressed \in BOOLEAN
  /\ stage = "route" /\ routing = NoRouting
  /\ asked = {} /\ tried = {} /\ told = {} /\ stored = FALSE

-----------------------------------------------------------------------------
(* The router. *)
Same(s) == s
SeverityToInt(s) == CASE s = "critical" -> 1 [] s = "error" -> 2 [] s = "warning" -> 3 [] OTHER -> 4
Downgraded(s) == CASE s = "critical" -> "error" [] s = "error" -> "warning" [] OTHER -> "info"

OwnReceiver == \* a receiver is named by its team
  IF alert.team \in ByTeam THEN alert.team
  ELSE IF alert.owner \in ByOwner THEN alert.owner ELSE "default"

Notice(team) ==
  [teams |-> {team}, severity |-> Downgraded(alert.severity),
   receiver |-> IF team \in ByTeam \cup ByOwner THEN team ELSE "default"]
Affected ==
  IF config.minimum # "off" /\ SeverityToInt(alert.severity) <= SeverityToInt(config.minimum)
  THEN alert.stakeholders ELSE {}
Notices(teams) == \* many notices are summed up in one, for the default receiver
  IF Cardinality(teams) >= Many
  THEN {[teams |-> teams, severity |-> Downgraded(alert.severity), receiver |-> "default"]}
  ELSE {Notice(t) : t \in teams}

Route ==
  /\ stage = "route"
  /\ routing' = [receiver |-> OwnReceiver, severity |-> alert.severity,
                 channel |-> IF alert.severity = "critical" THEN "pagerduty" ELSE "slack",
                 notices |-> Notices(Affected)]
  /\ stage' = "save"
  /\ UNCHANGED <<alert, config, suppressed, asked, tried, told, stored>>

Save == \* an error is logged, the alert goes on
  /\ stage = "save"
  /\ stored' \in BOOLEAN
  /\ stage' = IF suppressed THEN "done" ELSE "notify"
  /\ UNCHANGED <<alert, config, suppressed, routing, asked, tried, told>>

-----------------------------------------------------------------------------
(* The notifier. *)
Disabled ==
  /\ stage = "notify" /\ routing.channel \in config.disabled
  /\ stage' = "done"
  /\ UNCHANGED <<alert, config, suppressed, routing, asked, tried, told, stored>>
OwnerFails == \* the channel is not configured, or its request fails
  /\ stage = "notify" /\ routing.channel \notin config.disabled
  /\ stage' = "failed"
  /\ UNCHANGED <<alert, config, suppressed, routing, asked, tried, told, stored>>
NotifyOwner ==
  /\ stage = "notify" /\ routing.channel \in config.configured \ config.disabled
  /\ told' = told \cup {[teams |-> {alert.owner}, receiver |-> routing.receiver,
                         severity |-> routing.severity]}
  /\ asked' = routing.notices /\ stage' = "stakeholders"
  /\ UNCHANGED <<alert, config, suppressed, routing, tried, stored>>

GivesUp(n) == {}
Left(n) == asked \ {n}
StakeholderFails(n) == \* logged
  /\ stage = "stakeholders" /\ n \in asked
  /\ asked' = Left(n) /\ tried' = tried \cup n.teams
  /\ UNCHANGED <<alert, config, suppressed, stage, routing, told, stored>>
NotifyStakeholder(n) == \* whatever its channel: over Slack, and nothing without its URL
  /\ stage = "stakeholders" /\ n \in asked
  /\ asked' = Left(n) /\ tried' = tried \cup n.teams
  /\ told' = IF "slack" \in config.configured THEN told \cup {n} ELSE told
  /\ UNCHANGED <<alert, config, suppressed, stage, routing, stored>>
Returned ==
  /\ stage = "stakeholders" /\ asked = {}
  /\ stage' = "done"
  /\ UNCHANGED <<alert, config, suppressed, routing, asked, tried, told, stored>>

Next ==
  \/ Route \/ Save \/ Disabled \/ OwnerFails \/ NotifyOwner
  \/ (\E n \in asked : StakeholderFails(n) \/ NotifyStakeholder(n)) \/ Returned
Spec == Init /\ [][Next]_vars

-----------------------------------------------------------------------------
(* Once the owner was told and the notifier is done, each affected team was   *)
(* named in a notice that was tried, however many teams there are and         *)
(* whatever became of the notices before it (notifier.go:66-80).              *)
EveryTeamTried ==
  stage = "done" /\ (\E n \in told : n.receiver = routing.receiver /\ n.teams = {alert.owner})
    => tried = Affected

(* No team hears of the alert before its owner did, nor at a higher severity  *)
(* than the owner (router.go:101-138, notifier.go:66-70).                     *)
OwnerFirst ==
  told # {} =>
    /\ \E n \in told : n.teams = {alert.owner} /\ n.severity = alert.severity
    /\ \A n \in told : n.teams # {alert.owner} =>
         /\ SeverityToInt(n.severity) >= SeverityToInt(alert.severity)
         /\ alert.severity # "info" => n.severity # alert.severity

(* README.md:73: the owner and all affected teams are told.                   *)
StakeholdersTold ==
  stage = "done" /\ told # {} => alert.stakeholders \subseteq tried \cup UNION {n.teams : n \in told}
=============================================================================
