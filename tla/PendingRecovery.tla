--------------------------- MODULE PendingRecovery ---------------------------
(***************************************************************************)
(* The client's record of a recovery that is under way (PendingRecovery of *)
(* src/recovery/mod.rs): the request, the guardians known to have approved *)
(* it and, as Option<u64>, the moment the timelock started.                *)
(***************************************************************************)
EXTENDS Naturals, Sequences

CONSTANTS
  Timelock,   \* The 172800 seconds of timelock_expired, in ticks
  Unset       \* initiated_at while it is None

NewPendingRecovery(request) ==
  [request |-> request, approvals |-> <<>>, initiated_at |-> Unset]

HasApproved(pending, guardian) ==
  \E i \in DOMAIN pending.approvals : pending.approvals[i] = guardian

AddApproval(pending, guardian) ==
  IF HasApproved(pending, guardian) THEN pending
  ELSE [pending EXCEPT !.approvals = Append(@, guardian)]

ThresholdMet(pending, threshold) == Len(pending.approvals) >= threshold

IsAlert(pending, our_root) == pending.request.old_root = our_root

Expired(pending, current_time) ==   \* mutant: from the next second on
  pending.initiated_at # Unset /\ current_time > pending.initiated_at + Timelock

(* The library does not set initiated_at: whoever holds the record does,   *)
(* when the threshold is met.                                              *)
StartTimelockAt(pending, time) == [pending EXCEPT !.initiated_at = time]

ClientTimelockExpired(pending, current_time) ==
  pending.initiated_at # Unset /\ current_time >= pending.initiated_at + Timelock

=============================================================================
