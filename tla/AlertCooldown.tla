---------------------------- MODULE AlertCooldown ----------------------------
(***************************************************************************)
(* What deduplication promises while evaluations overlap: an alert of a    *)
(* rule is logged only by an evaluation that was clear of the whole log    *)
(* when it asked, each asks anew for every alert, and an alert whose       *)
(* evaluation is given up is never logged.  So two entries of a rule are   *)
(* its cooldown apart unless the later one was asked for before the        *)
(* earlier one was written.                                                *)
(***************************************************************************)
EXTENDS Naturals, Sequences

CONSTANTS
  Rules,        \* alert rules
  Cooldown,     \* cooldown_seconds of each rule
  Times,        \* instants
  Statuses,     \* what a status_change alert reports
  Evaluations   \* who asks

VARIABLES
  logs,    \* the rows of alert_logs, in the order of their commits
  claims   \* alerts that were allowed and not logged yet

Entry == [rule : Rules, at : Times, delivered : BOOLEAN, status : Statuses]

Claim == [by : Evaluations, rule : Rules, at : Times]

EntriesOf(r) == {i \in DOMAIN logs : logs[i].rule = r}

CooldownInit == logs = <<>> /\ claims = {}

\* An evaluation asks for one alert at a time, of a rule whose earlier alerts
\* are all a cooldown ago.
Ask(c) ==
  /\ \A other \in claims : other.by # c.by
  /\ \A i \in EntriesOf(c.rule) : c.at >= logs[i].at + Cooldown[c.rule]
  /\ claims' = claims \cup {c}
  /\ logs' = logs

\* The alert that was asked for is logged, at the instant it was sent.
Alert(c, e) ==
  /\ c \in claims
  /\ e.rule = c.rule /\ c.at <= e.at
  /\ logs' = Append(logs, e)
  /\ claims' = claims \ {c}

\* Its evaluation dies or fails first.
GiveUp(c) ==
  /\ c \in claims
  /\ claims' = claims \ {c}
  /\ logs' = logs

CooldownNext ==
  \E c \in Claim : Ask(c) \/ GiveUp(c) \/ \E e \in Entry : Alert(c, e)

cooldownVars == <<logs, claims>>

CooldownSpec == CooldownInit /\ [][CooldownNext]_cooldownVars
=============================================================================
