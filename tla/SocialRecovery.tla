--------------------------- MODULE SocialRecovery ---------------------------
(***************************************************************************)
(* What social recovery promises the holder of a root, without guardians,  *)
(* approvals or identity states: a root moves to the account that was      *)
(* proposed, and to no other, only after Window has passed since the       *)
(* timelock of that very proposal was started, and until the move the      *)
(* proposal can be abandoned.  IdentityStore implements it.                *)
(***************************************************************************)
EXTENDS Naturals

CONSTANTS
  Address,    \* The accounts that may be roots
  NoAddress,  \* No account
  Window,     \* How long the holder of a root has to abandon a proposal
  MaxTime     \* Bound on the clock

VARIABLES
  now,     \* The clock
  target,  \* For each root, the account it is to move to
  since,   \* For each root, when its timelock was started, or 0
  moves    \* For each root, how often it has moved

vars == <<now, target, since, moves>>

Init ==
  /\ now = 1
  /\ target = [a \in Address |-> NoAddress]
  /\ since = [a \in Address |-> 0]
  /\ moves = [a \in Address |-> 0]

Tick ==
  /\ now < MaxTime
  /\ now' = now + 1
  /\ UNCHANGED <<target, since, moves>>

Propose(root, new) ==
  /\ target[root] = NoAddress
  /\ target' = [target EXCEPT ![root] = new]
  /\ UNCHANGED <<now, since, moves>>

StartTimelock(root) ==
  /\ target[root] # NoAddress /\ since[root] = 0
  /\ since' = [since EXCEPT ![root] = now]
  /\ UNCHANGED <<now, target, moves>>

Forget(root) ==
  /\ target[root] # NoAddress
  /\ target' = [target EXCEPT ![root] = NoAddress]
  /\ since' = [since EXCEPT ![root] = 0]

Abandon(root) == Forget(root) /\ UNCHANGED <<now, moves>>

Move(root) ==
  /\ since[root] # 0 /\ now >= since[root] + Window
  /\ Forget(root)
  /\ moves' = [moves EXCEPT ![root] = @ + 1]
  /\ UNCHANGED now

Next ==
  \/ Tick
  \/ \E root \in Address :
       \/ \E new \in Address : Propose(root, new)
       \/ StartTimelock(root)
       \/ Abandon(root)
       \/ Move(root)

Spec == Init /\ [][Next]_vars

=============================================================================
