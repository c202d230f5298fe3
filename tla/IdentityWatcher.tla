--------------------------- MODULE IdentityWatcher ---------------------------
(***************************************************************************)
(* The identity watcher, its event log and the dashboard computed from the *)
(* log (src/monitor/mod.rs).                                               *)
(*                                                                         *)
(* A watcher is driven by whoever subscribes to the contracts' events: one *)
(* action is one call of a handler.  Alerts and entries keep what the      *)
(* watcher decides on; the wording of messages and the block number, which *)
(* are copied along and never read, are left out.                          *)
(***************************************************************************)
EXTENDS Naturals, Sequences, FiniteSets

CONSTANTS
  Identity,              \* The identities events are about
  NoGuardian,            \* None, where a handler takes Option<guardian>
  HighValueThreshold     \* config.high_value_threshold; 0 disables the alert

VARIABLES
  known_guardians,       \* For each identity, the lists registered, joined
  known_delegates,       \* The pairs (identity, delegate) registered
  alerts,                \* Alerts raised since the last clear_alerts
  pending_notifications, \* Notifications not drained yet
  entries                \* The event log

watcherVars == <<known_guardians, known_delegates, alerts,
                 pending_notifications, entries>>

AlertSeverity == {"Info", "Warning", "Critical"}

AlertCategory ==
  {"RecoveryInitiated", "RecoveryFinalized", "RecoveryCancelled",
   "IdentityFrozen", "IdentityUnfrozen", "DelegationIssued",
   "UnknownDelegation", "SessionsInvalidated", "ExecutionRecorded",
   "OfflineSessionDetected", "HighValueIntent"}

EventType ==
  {"IntentExecuted", "SessionInvalidated", "RecoveryStateChanged",
   "DelegationEndorsed", "HighValueIntent"}

SecurityAlert(severity, category, identity, timestamp) ==
  [severity |-> severity, category |-> category, identity |-> identity,
   timestamp |-> timestamp]

EventLogEntry(event_type, identity, timestamp, metadata) ==
  [event_type |-> event_type, identity |-> identity, timestamp |-> timestamp,
   metadata |-> metadata]

(* new() and with_config(). *)
WInit ==
  /\ known_guardians = [identity \in Identity |-> <<>>]
  /\ known_delegates = {}
  /\ alerts = <<>>
  /\ pending_notifications = <<>>
  /\ entries = <<>>

-----------------------------------------------------------------------------
(* Registration.  The code keeps a vector of (identity, list) pairs and    *)
(* always reads the lists of one identity joined in order.  Lists are      *)
(* added, never replaced: a list that is registered again counts twice.    *)
RegisterGuardians(identity, guardians) ==
  /\ known_guardians' = [known_guardians EXCEPT ![identity] = @ \o guardians]
  /\ UNCHANGED <<known_delegates, alerts, pending_notifications, entries>>

RegisterDelegate(identity, delegate) ==
  /\ known_delegates' = known_delegates \cup {<<identity, delegate>>}
  /\ UNCHANGED <<known_guardians, alerts, pending_notifications, entries>>

IsKnownGuardian(identity, guardian) ==
  \E i \in DOMAIN known_guardians[identity] :
    known_guardians[identity][i] = guardian

IsKnownDelegate(identity, delegate) == <<identity, delegate>> \in known_delegates

Notifications(guardians, alert) ==
  [i \in DOMAIN guardians |-> [guardian |-> guardians[i], alert |-> alert]]

-----------------------------------------------------------------------------
(* What a handler does with its alert: push it, record an entry, notify.   *)
Raise(alert) == alerts' = Append(alerts, alert)

RecordLate(event_type, identity, timestamp, metadata) ==  \* mutant: another time
  entries' = Append(entries,
                    EventLogEntry(event_type, identity, timestamp + 1, metadata))

Record(event_type, identity, timestamp, metadata) ==
  entries' = Append(entries,
                    EventLogEntry(event_type, identity, timestamp, metadata))

NotifyGuardians(identity, alert) ==
  pending_notifications' =
    pending_notifications \o Notifications(known_guardians[identity], alert)

NotifyCritical(alert) ==   \* mutant: a warning reaches nobody
  IF alert.severity = "Critical" THEN NotifyGuardians(alert.identity, alert)
  ELSE UNCHANGED pending_notifications

NotifyIfSerious(alert) ==
  IF alert.severity \in {"Warning", "Critical"}
  THEN NotifyGuardians(alert.identity, alert)
  ELSE UNCHANGED pending_notifications

(* The alert for a new state: every state but RecoveryPending and Frozen,  *)
(* Active among them, is reported as a recovery that was cancelled.        *)
RecoveryAlert(identity, new_state, guardian, timestamp) ==
  LET known == guardian # NoGuardian /\ IsKnownGuardian(identity, guardian)
      severity == CASE new_state = "RecoveryPending" ->
                         IF known THEN "Warning" ELSE "Critical"
                    [] new_state = "Frozen" -> "Warning"
                    [] OTHER -> "Info"
      category == CASE new_state = "RecoveryPending" -> "RecoveryInitiated"
                    [] new_state = "Frozen" -> "IdentityFrozen"
                    [] OTHER -> "RecoveryCancelled"
  IN  SecurityAlert(severity, category, identity, timestamp)

OnRecoveryStateChanged(identity, new_state, guardian, timestamp) ==
  LET alert == RecoveryAlert(identity, new_state, guardian, timestamp) IN
  /\ Raise(alert)
  /\ Record("RecoveryStateChanged", identity, timestamp,
            [new_state |-> new_state, guardian |-> guardian])
  /\ NotifyIfSerious(alert)
  /\ UNCHANGED <<known_guardians, known_delegates>>

(* Neither logged nor sent to anybody. *)
OnDelegationEndorsed(identity, delegate, scope, timestamp) ==
  /\ IF IsKnownDelegate(identity, delegate)
     THEN Raise(SecurityAlert("Info", "DelegationIssued", identity, timestamp))
     ELSE Raise(SecurityAlert("Warning", "UnknownDelegation", identity, timestamp))
  /\ UNCHANGED <<known_guardians, known_delegates, pending_notifications, entries>>

InvalidatedUnlogged(identity, new_epoch, timestamp) ==   \* mutant: not logged
  /\ Raise(SecurityAlert("Warning", "SessionsInvalidated", identity, timestamp))
  /\ UNCHANGED <<known_guardians, known_delegates, pending_notifications, entries>>

OnSessionInvalidated(identity, new_epoch, timestamp) ==
  /\ Raise(SecurityAlert("Warning", "SessionsInvalidated", identity, timestamp))
  /\ Record("SessionInvalidated", identity, timestamp, [new_epoch |-> new_epoch])
  /\ UNCHANGED <<known_guardians, known_delegates, pending_notifications>>

OnIntentExecuted(identity, session_key, selector, timestamp) ==
  /\ Raise(SecurityAlert("Info", "ExecutionRecorded", identity, timestamp))
  /\ Record("IntentExecuted", identity, timestamp,
            [session_key |-> session_key, selector |-> selector])
  /\ UNCHANGED <<known_guardians, known_delegates, pending_notifications>>

OnOfflineSessionDetected(identity, session_key, timestamp) ==
  /\ Raise(SecurityAlert("Critical", "OfflineSessionDetected", identity, timestamp))
  /\ UNCHANGED <<known_guardians, known_delegates, pending_notifications, entries>>

IsHighValue(value) == HighValueThreshold # 0 /\ value >= HighValueThreshold

OnHighValueIntent(identity, session_key, value, selector, timestamp) ==
  LET alert == SecurityAlert("Warning", "HighValueIntent", identity, timestamp) IN
  IF IsHighValue(value)
  THEN /\ Raise(alert)
       /\ Record("HighValueIntent", identity, timestamp,
                 [session_key |-> session_key, selector |-> selector,
                  value_wei |-> value])
       /\ NotifyGuardians(identity, alert)
       /\ UNCHANGED <<known_guardians, known_delegates>>
  ELSE UNCHANGED watcherVars

KeepNotifications ==   \* mutant: what was drained stays in the queue
  UNCHANGED watcherVars

(* What the caller gets is pending_notifications; none stays behind.       *)
DrainNotifications ==
  /\ pending_notifications' = <<>>
  /\ UNCHANGED <<known_guardians, known_delegates, alerts, entries>>

ClearAlerts ==
  /\ alerts' = <<>>
  /\ UNCHANGED <<known_guardians, known_delegates, pending_notifications, entries>>

(* event_log_mut().clear(). *)
ClearLog ==
  /\ entries' = <<>>
  /\ UNCHANGED <<known_guardians, known_delegates, alerts, pending_notifications>>

-----------------------------------------------------------------------------
(* Queries. *)

(* The records of a log whose positions are in I, in their order.          *)
Kept(log, I) ==
  LET kept[n \in Nat] ==
        IF n = 0 THEN <<>>
        ELSE IF n \in I THEN Append(kept[n - 1], log[n]) ELSE kept[n - 1]
  IN  kept[Len(log)]

EntriesByType(log, event_type) ==
  Kept(log, {i \in DOMAIN log : log[i].event_type = event_type})

EntriesForIdentity(log, identity) ==
  Kept(log, {i \in DOMAIN log : log[i].identity = identity})

ExclusiveRange(log, from, to) ==   \* mutant: the last second is left out
  Kept(log, {i \in DOMAIN log : from <= log[i].timestamp /\ log[i].timestamp < to})

EntriesInRange(log, from, to) ==
  Kept(log, {i \in DOMAIN log : from <= log[i].timestamp /\ log[i].timestamp <= to})

PendingRecoveries(log) ==
  Kept(log, {i \in DOMAIN log : /\ log[i].event_type = "RecoveryStateChanged"
                               /\ log[i].metadata.new_state = "RecoveryPending"})

(* The metrics of a log, or of the part of it that is in a range of time.  *)
Snapshot(log) ==
  [active_identities |-> Cardinality({log[i].identity : i \in DOMAIN log}),
   pending_recoveries |-> Len(PendingRecoveries(log)),
   executed_intents |-> Len(EntriesByType(log, "IntentExecuted")),
   high_value_intents |-> Len(EntriesByType(log, "HighValueIntent")),
   revoked_sessions |-> Len(EntriesByType(log, "SessionInvalidated"))]

SnapshotInRange(log, from, to) == Snapshot(EntriesInRange(log, from, to))

=============================================================================
