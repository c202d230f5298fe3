-------------------------- MODULE MonitoredIdentity --------------------------
(***************************************************************************)
(* An identity, the watcher that follows it, and the holder of one root    *)
(* who keeps a PendingRecovery.  The contract's events wait in a feed, in  *)
(* the order of the chain; whoever runs the watcher takes them off one by  *)
(* one and calls the handler, while the contract goes on and others drain  *)
(* notifications, clear the logs and register guardians.                   *)
(*                                                                         *)
(* One item of the feed stands for the logs that one call emits about one  *)
(* identity: RecoveryInitiated, say, comes with RecoveryStateChanged.      *)
(***************************************************************************)
EXTENDS IdentityStore, IdentityWatcher, PendingRecovery, SequencesExt

CONSTANTS
  OurRoot,       \* The root whose holder keeps a PendingRecovery
  NoRecovery,    \* What the holder keeps while there is none
  SessionKey,    \* Session keys that events name
  EventValue,    \* Values (wei) of executed intents
  Registration,  \* Pairs (identity, guardians) for register_guardians
  MaxEvents,     \* Bound on the items of the feed
  MaxRegistered, \* Bound on the guardians registered for an identity
  ClearAt        \* Alerts and entries are cleared only from this many on

ASSUME WatchAssumption ==
  /\ Address \subseteq Identity
  /\ \A registration \in Registration :
       registration.identity \in Identity /\ registration.guardians \in Seq(Address)
  /\ MaxEvents \in Nat
  /\ OurRoot \in Address

(* What stands for None is none of the values it may take the place of, and *)
(* the 172800 seconds of the library are the 48 hours of the contract.      *)
TrackedRecovery ==
  [request : [old_root : {OurRoot}, new_root : Address],
   approvals : Seq(Address), initiated_at : Nat \cup {Unset}]

ASSUME TrackerAssumption ==
  /\ Unset \notin Nat
  /\ NoRecovery \notin TrackedRecovery
  /\ Timelock = RecoveryWindow

VARIABLES
  feed,          \* Items emitted and not handled yet
  received,      \* How many items have been handled
  tracker,       \* The holder's PendingRecovery
  delivered,     \* History: all notifications that were drained
  owed           \* History: the notifications that events called for

monitorVars == <<feed, received, tracker, watcherVars, delivered, owed>>
mvars == <<vars, monitorVars>>

Event(type, identity, what, guardian, arg) ==
  [type |-> type, identity |-> identity, what |-> what,
   guardian |-> guardian, arg |-> arg, at |-> now]

StateChange(root, state) ==
  Event("RecoveryStateChanged", root, state, NoGuardian, 0)

(* The watcher is started for identities that have been set up: the owner  *)
(* has registered their roots and guardians, who have signed already.      *)
Enrolled == {req.oldRoot : req \in RecoveryRequest}

MInit ==
  /\ now = 1 /\ signed = RecoveryRequest
  /\ authorizedKeys = {} /\ authorizedProvers = Enrolled
  /\ nonces = [a \in Address |-> 0] /\ delegationNonces = nonces
  /\ \E list \in GuardianList :
       _guardians = [a \in Address |-> IF a \in Enrolled THEN list ELSE <<>>]
  /\ pendingNewRoot = [a \in Address |-> NoAddress]
  /\ recoveryApprovals = nonces /\ recoveryInitiatedAt = nonces
  /\ recoveryApproved = [a \in Address |-> {}]
  /\ recoveryNonces = nonces
  /\ identityState = [a \in Address |-> "Active"]
  /\ sessionEpoch = nonces /\ _gateOpen = FALSE
  /\ WInit
  /\ feed = <<>> /\ received = 0
  /\ tracker = NoRecovery
  /\ delivered = <<>> /\ owed = <<>>

-----------------------------------------------------------------------------
(* The contract, with the events it emits.                                 *)
Emit(events) ==
  /\ received + Len(feed) + Len(events) <= MaxEvents
  /\ feed' = feed \o events
  /\ UNCHANGED <<received, tracker, watcherVars, delivered, owed>>

Initiate(req) ==
  /\ InitiateRecovery(req.oldRoot, req.newRoot, req)
  /\ Emit(<<Event("RecoveryInitiated", req.oldRoot, "RecoveryPending",
                  req.signer, req.newRoot)>>)

Support(req) ==
  /\ SupportRecovery(req.oldRoot, req)
  /\ Emit(<<Event("RecoverySupported", req.oldRoot, "RecoveryPending",
                  req.signer, 0)>>)

Cancel(root) ==
  /\ CancelRecovery(root, root)
  /\ Emit(<<Event("RecoveryOver", root, "Active", NoGuardian, 0)>>)

ForgetNewRoot(root) ==   \* mutant: one of the two state changes is not emitted
  /\ FinalizeRecovery(root)
  /\ Emit(<<Event("RecoveryOver", root, "Active", NoGuardian, 0)>>)

Finalize(root) ==
  /\ FinalizeRecovery(root)
  /\ Emit(<<Event("RecoveryOver", root, "Active", NoGuardian, 0),
            StateChange(pendingNewRoot[root], "Active")>>)

Freeze(root) ==
  FreezeIdentity(Owner, root) /\ Emit(<<StateChange(root, "Frozen")>>)

Unfreeze(root) ==
  UnfreezeIdentity(Owner, root) /\ Emit(<<StateChange(root, "Active")>>)

Invalidate(root) ==
  /\ CancelAllSessions(Owner, root)
  /\ Emit(<<Event("SessionInvalidated", root, "", NoGuardian,
                  sessionEpoch[root] + 1)>>)

Endorse(delegation, intent, value) ==
  /\ ValidateDelegatedIntent(delegation, intent, value)
  /\ Emit(<<Event("DelegationEndorsed", delegation.prover, delegation.scope,
                  NoGuardian, delegation.delegate)>>)

(* The gateway executed an intent of a session; its subscriber reports the *)
(* value too, and a session it has never heard of.                         *)
Execute(root, session, value) ==
  /\ Emit(<<Event("IntentExecuted", root, session, NoGuardian, value),
            Event("HighValueIntent", root, session, NoGuardian, value)>>)
  /\ UNCHANGED vars

ReportOffline(root, session) ==
  /\ Emit(<<Event("OfflineSession", root, session, NoGuardian, 0)>>)
  /\ UNCHANGED vars

(* Time passes without an event. *)
Quietly == Tick /\ UNCHANGED monitorVars

-----------------------------------------------------------------------------
(* The holder of OurRoot follows the recovery of it.                       *)
StartTimelock(pending, time) ==
  IF ThresholdMet(pending, GuardianThreshold) /\ pending.initiated_at = Unset
  THEN StartTimelockAt(pending, time) ELSE pending

Followed(pending, event) ==
  LET request == [old_root |-> event.identity, new_root |-> event.arg]
      opened  == NewPendingRecovery(request)
  IN  CASE event.type = "RecoveryInitiated" /\ IsAlert(opened, OurRoot) ->
             AddApproval(opened, event.guardian)
        [] event.type = "RecoverySupported" /\ event.identity = OurRoot ->
             StartTimelock(AddApproval(pending, event.guardian), event.at)
        [] event.type = "RecoveryOver" /\ event.identity = OurRoot ->
             NoRecovery
        [] OTHER -> pending

Track(event) == tracker' = Followed(tracker, event)

(* The handler that an event is for. *)
Dispatch(event) ==
  \/ /\ event.type \in {"RecoveryInitiated", "RecoveryOver", "RecoveryStateChanged"}
     /\ OnRecoveryStateChanged(event.identity, event.what, event.guardian,
                               event.at)
  \/ /\ event.type = "SessionInvalidated"
     /\ OnSessionInvalidated(event.identity, event.arg, event.at)
  \/ /\ event.type = "DelegationEndorsed"
     /\ OnDelegationEndorsed(event.identity, event.arg, event.what, event.at)
  \/ /\ event.type = "IntentExecuted"
     /\ OnIntentExecuted(event.identity, event.what, "", event.at)
  \/ /\ event.type = "HighValueIntent"
     /\ OnHighValueIntent(event.identity, event.what, event.arg, "", event.at)
  \/ /\ event.type = "OfflineSession"
     /\ OnOfflineSessionDetected(event.identity, event.what, event.at)
  \/ /\ event.type = "RecoverySupported"
     /\ UNCHANGED watcherVars

(* What an event calls for, said without the watcher's severities.         *)
CallsForNotice(event) ==
  \/ /\ event.type \in {"RecoveryInitiated", "RecoveryOver", "RecoveryStateChanged"}
     /\ event.what \in {"RecoveryPending", "Frozen"}
  \/ /\ event.type = "HighValueIntent"
     /\ HighValueThreshold # 0 /\ event.arg >= HighValueThreshold

Notice(guardian, event) ==
  [guardian |-> guardian, identity |-> event.identity, timestamp |-> event.at]

Due(event) ==
  LET guardians == known_guardians[event.identity] IN
  IF CallsForNotice(event)
  THEN [i \in DOMAIN guardians |-> Notice(guardians[i], event)]
  ELSE <<>>

Deliver ==
  /\ feed # <<>>
  /\ Dispatch(Head(feed))
  /\ Track(Head(feed))
  /\ feed' = Tail(feed)
  /\ received' = received + 1
  /\ owed' = owed \o Due(Head(feed))
  /\ UNCHANGED <<vars, delivered>>

Drain ==
  /\ DrainNotifications
  /\ delivered' = delivered \o pending_notifications
  /\ UNCHANGED <<vars, feed, received, tracker, owed>>

Register(registration) ==
  /\ Len(known_guardians[registration.identity]) < MaxRegistered
  /\ RegisterGuardians(registration.identity, registration.guardians)
  /\ UNCHANGED <<vars, feed, received, tracker, delivered, owed>>

Housekeeping ==
  /\ \/ \E delegation \in Delegation :
          /\ known_delegates = {}
          /\ RegisterDelegate(delegation.prover, delegation.delegate)
     \/ Len(alerts) >= ClearAt /\ ClearAlerts
     \/ Len(entries) >= ClearAt /\ ClearLog
  /\ UNCHANGED <<vars, feed, received, tracker, delivered, owed>>

ChainCall ==
  \/ \E req \in RecoveryRequest : Initiate(req) \/ Support(req)
  \/ \E root \in Root :
       \/ Cancel(root) \/ Finalize(root) \/ Freeze(root) \/ Unfreeze(root)
  \/ \E root \in Root \cap Enrolled :
       \/ Invalidate(root)
       \/ \E session \in SessionKey :
            \/ ReportOffline(root, session)
            \/ \E value \in EventValue : Execute(root, session, value)
  \/ \E delegation \in Delegation, intent \in Intent, value \in CallValue :
       Endorse(delegation, intent, value)

MNext ==
  \/ Quietly \/ ChainCall
  \/ Deliver \/ Drain \/ Housekeeping
  \/ \E registration \in Registration : Register(registration)

MSpec == MInit /\ [][MNext]_mvars

(* The subscription goes on, and the consumer of the notifications calls   *)
(* drain_notifications periodically (docs/USER_FLOW.md).                   *)
MFairness == WF_mvars(Deliver) /\ WF_mvars(Drain)

MFairSpec == MSpec /\ MFairness

-----------------------------------------------------------------------------
(* Properties.                                                             *)

MTypeOK ==
  /\ TypeOK
  /\ \A i \in DOMAIN alerts : /\ alerts[i].severity \in AlertSeverity
                              /\ alerts[i].category \in AlertCategory
  /\ \A i \in DOMAIN entries : /\ entries[i].event_type \in EventType
                               /\ entries[i].timestamp \in 1..now
  /\ received \in 0..MaxEvents /\ Len(feed) <= MaxEvents - received

(* What the log says of a root, the events on their way included.          *)
EntryOf(event) ==
  CASE event.type = "SessionInvalidated" ->
         EventLogEntry("SessionInvalidated", event.identity, event.at,
                       [new_epoch |-> event.arg])
    [] event.type \in {"RecoveryInitiated", "RecoveryOver", "RecoveryStateChanged"} ->
         EventLogEntry("RecoveryStateChanged", event.identity, event.at,
                       [new_state |-> event.what])
    [] OTHER -> EventLogEntry(event.type, event.identity, event.at, <<>>)

LogAndFeed == entries \o [i \in DOMAIN feed |-> EntryOf(feed[i])]

Said(root, event_type) ==
  EntriesByType(EntriesForIdentity(LogAndFeed, root), event_type)

(* The log is a history that can be trusted: whoever replays it, together  *)
(* with the events on their way, arrives at the state and at the session   *)
(* epoch the contract has for every root the log has an entry about, even  *)
(* when the log was cleared in between.                                    *)
LogTellsState ==
  \A root \in Address :
    /\ Said(root, "RecoveryStateChanged") # <<>> =>
         Last(Said(root, "RecoveryStateChanged")).metadata.new_state
           = identityState[root]
    /\ Said(root, "SessionInvalidated") # <<>> =>
         Last(Said(root, "SessionInvalidated")).metadata.new_epoch
           = sessionEpoch[root]

Notices(notifications) ==
  [i \in DOMAIN notifications |->
     [guardian  |-> notifications[i].guardian,
      identity  |-> notifications[i].alert.identity,
      timestamp |-> notifications[i].alert.timestamp]]

(* The alerts that are raised together with an entry.                      *)
IsLogged(alert) ==
  alert.category \notin
    {"DelegationIssued", "UnknownDelegation", "OfflineSessionDetected"}

LoggedAlerts == Kept(alerts, {i \in DOMAIN alerts : IsLogged(alerts[i])})

Stamps(log) == [i \in DOMAIN log |-> <<log[i].identity, log[i].timestamp>>]

(* Alerts and log are two views of the same events: except for delegations *)
(* and sessions unknown to the chain, which the watcher does not log, every *)
(* alert has its entry and every entry its alert, in the same order; when  *)
(* one of the two was cleared, it is the end of the other.                 *)
AlertsMatchLog ==
  \/ IsSuffix(Stamps(LoggedAlerts), Stamps(entries))
  \/ IsSuffix(Stamps(entries), Stamps(LoggedAlerts))

(* However handlers, drains and registrations interleave, the notices that *)
(* were drained and those that wait are exactly the ones owed, in order: a *)
(* notice per registered guardian for every recovery, freeze and intent at *)
(* the threshold (HighValueIsAbove below) or above it, none lost and none  *)
(* sent twice.                                                             *)
NoticesAreOwed == Notices(delivered \o pending_notifications) = owed

(* Adjacent ranges of time share no event and miss none, whatever order    *)
(* the events came in: the metrics of the parts add up to those of the log.*)
RangesAddUp ==
  \A t \in 1..MaxTime :
    LET before == SnapshotInRange(entries, 1, t)
        after  == SnapshotInRange(entries, t + 1, MaxTime)
        whole  == Snapshot(entries)
    IN  \A metric \in DOMAIN whole \ {"active_identities"} :
          whole[metric] = before[metric] + after[metric]

(* When the feed is empty, the holder of OurRoot knows of a recovery iff   *)
(* the contract has one, with as many approvals and the same new root, and *)
(* believes its timelock expired exactly when the contract would finalize. *)
TrackerAgrees ==
  feed = <<>> =>
    IF tracker = NoRecovery THEN ~ Pending(OurRoot)
    ELSE /\ tracker.request.new_root = pendingNewRoot[OurRoot]
         /\ Len(tracker.approvals) = recoveryApprovals[OurRoot]
         /\ ClientTimelockExpired(tracker, now) <=> TimelockExpired(OurRoot)

(* Every guardian who was registered when a recovery of OurRoot was        *)
(* announced is told of that recovery in the end.                          *)
Announced(guardian, time) ==
  /\ IsKnownGuardian(OurRoot, guardian)
  /\ \E i \in DOMAIN feed : /\ feed[i].type = "RecoveryInitiated"
                            /\ feed[i].identity = OurRoot
                            /\ feed[i].at = time

Told(guardian, time) ==
  \E i \in DOMAIN delivered : /\ delivered[i].guardian = guardian
                              /\ delivered[i].alert.identity = OurRoot
                              /\ delivered[i].alert.category = "RecoveryInitiated"
                              /\ delivered[i].alert.timestamp = time

MayBeRegistered ==
  UNION {Guardians(registration.guardians) : registration \in Registration}

GuardiansAreTold ==
  \A guardian \in MayBeRegistered, time \in 1..MaxTime :
    Announced(guardian, time) ~> Told(guardian, time)

-----------------------------------------------------------------------------
(* Statements of the documentation that the watcher does not keep.         *)

(* mod.rs, USER_FLOW.md, DASHBOARD.md: intents above the threshold, which  *)
(* exceed it, count as high-value ones.  So do those that just meet it.    *)
HighValueIsAbove ==
  \A i \in DOMAIN entries :
    entries[i].event_type = "HighValueIntent" =>
      entries[i].metadata.value_wei > HighValueThreshold

=============================================================================
