------------------------------- MODULE Alerts -------------------------------
(* The alert manager: fire with its rule, severity and cooldown checks, the  *)
(* alerts kept in memory and in the alerts table, acknowledge and resolve.   *)
(* No method takes a lock, and the handler threads fire concurrently.  The   *)
(* webhook is sent by a thread of its own and changes nothing here.          *)
EXTENDS Naturals, Sequences, SequencesExt

CONSTANTS
  AlertKeys,             \* dedup keys, such as a budget and a threshold
  Severities,            \* 0 info, 1 warning, 2 critical
  Firers,                \* threads
  Cooldown,
  MaxAlertTime, MaxFires, MaxAlertOps, MaxAlertFaults

ASSUME AlertAssumption == Cooldown \in Nat /\ MaxAlertTime \in Nat /\ Cooldown <= MaxAlertTime

Never == 0
FirstTime == Cooldown    \* time.time() is far from 0: nothing is suppressed at first

VARIABLES
  rule,       \* the rule's [enabled, floor]
  lastFire,   \* _last_fire
  live,       \* _active_alerts: the keys that are firing, and whether acknowledged
  alertRows,  \* the alerts table
  firing,     \* what each thread is doing
  now,
  twinFires,  \* keys that two threads fired at once in this process
  hushed,     \* keys an admin resolved since their last alert
  rowsBefore, \* length of the table when this process started
  firesLeft, alertOpsLeft, alertFaultsLeft

alertVars == <<rule, lastFire, live, alertRows, firing, now, twinFires, hushed, rowsBefore,
               firesLeft, alertOpsLeft, alertFaultsLeft>>
alertBounds == <<firesLeft, alertOpsLeft, alertFaultsLeft>>

Calm == [at |-> "idle"]
Quiet == "quiet"

AlertsInit ==
  /\ rule = [enabled |-> TRUE, floor |-> 1]
  /\ lastFire = [k \in AlertKeys |-> Never]
  /\ live = [k \in AlertKeys |-> Quiet]
  /\ alertRows = <<>> /\ rowsBefore = 0
  /\ firing = [f \in Firers |-> Calm]
  /\ now = FirstTime /\ twinFires = {} /\ hushed = {}
  /\ firesLeft = MaxFires /\ alertOpsLeft = MaxAlertOps /\ alertFaultsLeft = MaxAlertFaults

-----------------------------------------------------------------------------
(* fire *)

Fire(f, k, sev) ==
  /\ firing[f] = Calm /\ firesLeft > 0 /\ firesLeft' = firesLeft - 1
  /\ firing' = [firing EXCEPT ![f] = [at |-> "check", key |-> k, severity |-> sev, when |-> Never]]
  /\ UNCHANGED <<rule, lastFire, live, alertRows, now, twinFires, hushed, rowsBefore, alertOpsLeft, alertFaultsLeft>>

Concerned(f) == rule.enabled /\ firing[f].severity >= rule.floor
Cooled(k) == now >= lastFire[k] + Cooldown

Suppress(f) ==
  /\ firing[f].at = "check"
  /\ ~Concerned(f) \/ ~Cooled(firing[f].key)
  /\ firing' = [firing EXCEPT ![f] = Calm]
  /\ UNCHANGED <<rule, lastFire, live, alertRows, now, twinFires, hushed, rowsBefore, alertBounds>>

\* Mutant: the cooldown is looked at before the severity.
PassUnheard(f) ==
  /\ firing[f].at = "check" /\ Cooled(firing[f].key)
  /\ firing' = [firing EXCEPT ![f] = IF Concerned(f) THEN [@ EXCEPT !.at = "mark", !.when = now] ELSE Calm]
  /\ lastFire' = IF Concerned(f) THEN lastFire ELSE [lastFire EXCEPT ![firing[f].key] = now]
  /\ UNCHANGED <<rule, live, alertRows, now, twinFires, hushed, rowsBefore, alertBounds>>

(* The cooldown has passed; another thread may have seen the same. *)
Pass(f) ==
  /\ firing[f].at = "check"
  /\ Concerned(f) /\ Cooled(firing[f].key)
  /\ firing' = [firing EXCEPT ![f].at = "mark", ![f].when = now]
  /\ UNCHANGED <<rule, lastFire, live, alertRows, now, twinFires, hushed, rowsBefore, alertBounds>>

\* Mutant: the time of the alert is not kept.
MarkNothing(f) ==
  /\ firing[f].at = "mark"
  /\ firing' = [firing EXCEPT ![f].at = "record"]
  /\ UNCHANGED <<rule, lastFire, live, alertRows, now, twinFires, hushed, rowsBefore, alertBounds>>

Mark(f) ==
  /\ firing[f].at = "mark"
  /\ LET k == firing[f].key
         when == firing[f].when
     IN /\ lastFire' = [lastFire EXCEPT ![k] = when]
        /\ twinFires' = IF when < lastFire[k] + Cooldown THEN twinFires \cup {k} ELSE twinFires
        /\ hushed' = hushed \ {k}
  /\ firing' = [firing EXCEPT ![f].at = "record"]
  /\ UNCHANGED <<rule, live, alertRows, now, rowsBefore, alertBounds>>

(* The alert goes into memory and into the table; a failing table is logged. *)
Record(f, ok) ==
  /\ firing[f].at = "record"
  /\ ok \/ alertFaultsLeft > 0
  /\ alertFaultsLeft' = IF ok THEN alertFaultsLeft ELSE alertFaultsLeft - 1
  /\ live' = [live EXCEPT ![firing[f].key] = "unseen"]
  /\ alertRows' = IF ok THEN Append(alertRows, [key |-> firing[f].key, at |-> firing[f].when, status |-> "firing", seen |-> FALSE])
                  ELSE alertRows
  /\ firing' = [firing EXCEPT ![f] = Calm]
  /\ UNCHANGED <<rule, lastFire, now, twinFires, hushed, rowsBefore, firesLeft, alertOpsLeft>>

-----------------------------------------------------------------------------
(* The admin API, the clock and restarts *)

AlertOp == alertOpsLeft > 0 /\ alertOpsLeft' = alertOpsLeft - 1
           /\ UNCHANGED <<lastFire, firing, now, twinFires, rowsBefore, firesLeft, alertFaultsLeft>>

(* The row that acknowledge and resolve find by the key: the first one. *)
RowFor(k) == SelectInSeq(alertRows, LAMBDA r : r.key = k)

\* Mutant: the acknowledgement overwrites the status.
AcknowledgeStatus(k) ==
  /\ AlertOp
  /\ live' = IF live[k] = Quiet THEN live ELSE [live EXCEPT ![k] = "seen"]
  /\ alertRows' = IF RowFor(k) = 0 THEN alertRows ELSE [alertRows EXCEPT ![RowFor(k)].status = "acknowledged"]
  /\ UNCHANGED <<rule, hushed>>

Acknowledge(k) ==
  /\ AlertOp
  /\ live' = IF live[k] = Quiet THEN live ELSE [live EXCEPT ![k] = "seen"]
  /\ alertRows' = IF RowFor(k) = 0 THEN alertRows ELSE [alertRows EXCEPT ![RowFor(k)].seen = TRUE]
  /\ UNCHANGED <<rule, hushed>>

Resolve(k) ==
  /\ AlertOp
  /\ live' = [live EXCEPT ![k] = Quiet]
  /\ alertRows' = IF RowFor(k) = 0 THEN alertRows ELSE [alertRows EXCEPT ![RowFor(k)].status = "resolved"]
  /\ hushed' = hushed \cup {k}
  /\ UNCHANGED rule

UpdateRule(r) ==
  /\ AlertOp
  /\ rule' = r
  /\ UNCHANGED <<live, alertRows, hushed>>

AlertTick == now < MaxAlertTime /\ now' = now + 1
             /\ UNCHANGED <<rule, lastFire, live, alertRows, firing, twinFires, hushed, rowsBefore, alertBounds>>

(* A new process knows the table only; the rules are the built-in ones. *)
AlertRestart ==
  /\ alertFaultsLeft > 0 /\ alertFaultsLeft' = alertFaultsLeft - 1
  /\ rule' = [enabled |-> TRUE, floor |-> 1]
  /\ lastFire' = [k \in AlertKeys |-> Never] /\ live' = [k \in AlertKeys |-> Quiet]
  /\ firing' = [f \in Firers |-> Calm] /\ twinFires' = {} /\ hushed' = {}
  /\ rowsBefore' = Len(alertRows)
  /\ UNCHANGED <<alertRows, now, firesLeft, alertOpsLeft>>

AlertsNext ==
  \/ \E f \in Firers :
       \/ Suppress(f) \/ Pass(f) \/ Mark(f) \/ \E ok \in BOOLEAN : Record(f, ok)
       \/ \E k \in AlertKeys, s \in Severities : Fire(f, k, s)
  \/ \E k \in AlertKeys : Acknowledge(k) \/ Resolve(k)
  \/ \E on \in BOOLEAN, fl \in Severities : UpdateRule([enabled |-> on, floor |-> fl])
  \/ AlertTick \/ AlertRestart

AlertsSpec == AlertsInit /\ [][AlertsNext]_alertVars

-----------------------------------------------------------------------------
(* Well-formed alerts (Alert, AlertManager). *)
AlertsTypeOK ==
  /\ lastFire \in [AlertKeys -> 0..MaxAlertTime]
  /\ live \in [AlertKeys -> {Quiet, "unseen", "seen"}]
  /\ \A i \in DOMAIN alertRows : alertRows[i].key \in AlertKeys /\ alertRows[i].status \in {"firing", "resolved"}
  /\ \A f \in Firers : firing[f].at \in {"idle", "check", "mark", "record"}

(* The cooldown is kept: two alerts of one key that this process stored are  *)
(* a cooldown apart, unless two threads passed the check side by side (fire  *)
(* tests and sets _last_fire without a lock).                                *)
QuietPeriodHolds ==
  \A i, j \in rowsBefore + 1 .. Len(alertRows) :
    /\ i # j /\ alertRows[i].key = alertRows[j].key /\ alertRows[i].key \notin twinFires
    /\ alertRows[i].at <= alertRows[j].at
    => alertRows[j].at >= alertRows[i].at + Cooldown

(* Nothing is silenced by an alert that was never raised: while a key is     *)
(* cooling down, somebody raised it in this process, is raising it now, or   *)
(* an admin resolved it since.  A severity or a rule that stops an alert     *)
(* starts no cooldown (the order of the checks in fire).                     *)
SilenceHasACause ==
  \A k \in AlertKeys : ~Cooled(k) =>
    \/ live[k] # Quiet
    \/ \E f \in Firers : firing[f].at = "record" /\ firing[f].key = k
    \/ k \in hushed

(* acknowledge and the list speak of the same alert: once an alert that is   *)
(* firing was acknowledged, the newest row of its key is.                    *)
AckReachesNewest ==
  \A k \in AlertKeys : live[k] = "seen" =>
    \A i \in DOMAIN alertRows :
      alertRows[i].key = k /\ (\A j \in DOMAIN alertRows : alertRows[j].key = k => j <= i) => alertRows[i].seen
=============================================================================
