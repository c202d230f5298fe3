-------------------------- MODULE SponsorshipProofs --------------------------
(***************************************************************************)
(* Proofs about the claim verifier when operations call it whose calls are *)
(* undone, for every value of the constants.                               *)
(***************************************************************************)
EXTENDS Sponsorship, SequenceTheorems, TLAPS

(* The used proofs are those verified, each of them once.                  *)
UsedAsVerified(used, count) ==
  /\ count \in [Commitment -> Nat]
  /\ \A h \in Commitment : count[h] <= 1
  /\ used = {h \in Commitment : count[h] > 0}

(* The strengthening of ProofUsedOnce: what a call may be undone to is as  *)
(* good, and it is there as long as a call is under way or to be settled.  *)
VerifierInv ==
  /\ UsedAsVerified(usedProofs, verifications)
  /\ callStack = <<>> \/ \E frame : callStack = <<frame>>
  /\ callStack # <<>> => beforeCall # <<>>
  /\ settling # <<>> => callStack = <<>>
  /\ settling # <<>> => settling[1].undo = <<>> \/ beforeCall # <<>>
  /\ beforeCall # <<>> =>
       UsedAsVerified(beforeCall[1].used, beforeCall[1].verifications)

(* A call of the verifier keeps the account of its proofs.                 *)
LEMMA VerifierStep ==
  ASSUME NEW callers, UsedAsVerified(usedProofs, verifications), VNext(callers)
  PROVE  UsedAsVerified(usedProofs', verifications')
<1>1. CASE IssuerCalls(callers)
  BY <1>1 DEF IssuerCalls, SetIssuer, RegisterClaim, RevokeClaim
<1>2. ASSUME NEW account \in Holder, NEW claimType \in ClaimType,
             NEW proof \in Proof, VerifyClaimProof(account, claimType, proof)
      PROVE  UsedAsVerified(usedProofs', verifications')
  <2> DEFINE h == ProofHash(account, claimType, proof)
  <2>1. h \in Commitment
    BY DEF ProofHash, Commitment
  <2>2. /\ h \notin usedProofs /\ usedProofs' = usedProofs \cup {h}
        /\ verifications' = [verifications EXCEPT ![h] = @ + 1]
    BY <1>2 DEF VerifyClaimProof
  <2> HIDE DEF h
  <2>3. verifications \in [Commitment -> Nat] /\ verifications[h] = 0
    BY <2>1, <2>2 DEF UsedAsVerified
  <2>4. /\ verifications' \in [Commitment -> Nat] /\ verifications'[h] = 1
        /\ \A g \in Commitment \ {h} : verifications'[g] = verifications[g]
    BY <2>1, <2>2, <2>3
  <2>5. \A g \in Commitment : verifications'[g] <= 1
    BY <2>4 DEF UsedAsVerified
  <2>6. usedProofs' = {g \in Commitment : verifications'[g] > 0}
    BY <2>1, <2>2, <2>4 DEF UsedAsVerified
  <2>7. QED
    BY <2>4, <2>5, <2>6 DEF UsedAsVerified
<1>3. QED
  BY <1>1, <1>2 DEF VNext, ProofShown

LEMMA VerifierInvStep ==
  ASSUME VerifierInv, [SNext]_svars
  PROVE  VerifierInv'
<1>1. ASSUME UNCHANGED <<callStack, verifierVars, beforeCall, settling>>
      PROVE  VerifierInv'
  BY <1>1 DEF VerifierInv, verifierVars
<1>2. CASE Prepare
  BY <1>1, <1>2
  DEF Prepare, SetEntryPoint, IssueSession, gvars, gatewayVars, settlementVars
<1>3. ASSUME NEW op \in UserOp, ValidateSponsored(op)
      PROVE  VerifierInv'
  BY <1>1, <1>3 DEF ValidateSponsored, ValidateUserOp
<1>4. CASE ExecutionBegins
  BY <1>1, <1>4
  DEF ExecutionBegins, BeginExecution, gvars, gatewayVars, settlementVars
<1>5. ASSUME NEW op \in UserOp, SponsoredCall(op)
      PROVE  VerifierInv'
  <2>1. PICK frame : callStack' = <<frame>>
    BY <1>5 DEF SponsoredCall, OpExecute, NextOp, AExecute, Execute
  <2>2. /\ beforeCall' = <<SponsorStorage>> /\ UNCHANGED <<verifierVars, settling>>
        /\ settling = <<>>
    BY <1>5 DEF SponsoredCall
  <2>3. /\ SponsorStorage.used = usedProofs
        /\ SponsorStorage.verifications = verifications
    BY DEF SponsorStorage
  <2>4. QED
    BY <2>1, <2>2, <2>3 DEF VerifierInv, verifierVars
<1>6. ASSUME callStack # <<>>, callStack' = Pop
      PROVE  callStack' = <<>> /\ beforeCall # <<>>
  <2>1. PICK frame : callStack = <<frame>>
    BY <1>6 DEF VerifierInv
  <2>2. QED
    BY <1>6, <2>1 DEF Pop, VerifierInv
<1>7. CASE CallReturns
  <2>1. callStack' = <<>> /\ beforeCall # <<>>
    BY <1>6, <1>7 DEF CallReturns, ACallSucceeds, CallSucceeds
  <2>2. QED
    BY <1>7, <2>1 DEF CallReturns, VerifierInv, verifierVars
<1>8. CASE CallReverts
  <2>1. callStack' = <<>> /\ beforeCall # <<>>
    BY <1>6, <1>8 DEF CallReverts, ACallFails, CallFails
  <2>2. /\ usedProofs' = beforeCall[1].used
        /\ verifications' = beforeCall[1].verifications
        /\ settling'[1].undo = <<>> /\ beforeCall' = beforeCall
    BY <1>8 DEF CallReverts, RestoreSponsor
  <2>3. QED
    BY <2>1, <2>2 DEF VerifierInv
<1>9. ASSUME NEW op \in UserOp, CallRefused(op)
      PROVE  VerifierInv'
  <2>1. callStack' = <<>> /\ settling'[1].undo = <<>>
    BY <1>9 DEF CallRefused, OpRefused, NextOp, gvars, gatewayVars
  <2>2. QED
    BY <1>9, <2>1 DEF CallRefused, VerifierInv, verifierVars
<1>10. CASE Settle
  <2>1. /\ settling # <<>> /\ settling' = <<>> /\ beforeCall' = <<>>
        /\ callStack = <<>>
    BY <1>10 DEF Settle, VerifierInv
  <2>2. PICK usage : PostOpReturns(usage) \/ PostOpReverts(usage)
    BY <1>10 DEF Settle
  <2>3. CASE UNCHANGED <<avars, verifierVars>>
    BY <2>1, <2>3 DEF VerifierInv, avars, gvars, gatewayVars, verifierVars
  <2>4. CASE settling[1].undo # <<>> /\ Undo(settling[1].undo[1])
    <3>1. /\ usedProofs' = beforeCall[1].used
          /\ verifications' = beforeCall[1].verifications
          /\ callStack' = callStack /\ beforeCall # <<>>
      BY <2>1, <2>4 DEF Undo, RestoreSponsor, VerifierInv
    <3>2. QED
      BY <2>1, <3>1 DEF VerifierInv
  <2>5. QED
    BY <2>2, <2>3, <2>4 DEF PostOpReturns, PostOpReverts, Settled
<1>11. CASE Others
  <2>1. /\ UNCHANGED <<callStack, beforeCall, settling>>
        /\ UNCHANGED verifierVars \/ VNext(Callers)
    BY <1>11 DEF Others, avars, gvars, gatewayVars
  <2>2. UsedAsVerified(usedProofs', verifications')
    BY <2>1, VerifierStep DEF VerifierInv, verifierVars
  <2>3. QED
    BY <2>1, <2>2 DEF VerifierInv
<1>12. CASE UNCHANGED svars
  BY <1>1, <1>12 DEF svars, avars, gvars, gatewayVars, settlementVars
<1>13. QED
  BY <1>2, <1>3, <1>4, <1>5, <1>7, <1>8, <1>9, <1>10, <1>11, <1>12 DEF SNext

(* A proof is verified once, however many calls that showed it are undone  *)
(* and however often its claim is registered again.                        *)
THEOREM ProofsUsedOnce == SSpec => []ProofUsedOnce
<1>1. SInit => VerifierInv
  BY DEF SInit, AInit, GInit, VerifierInit, VerifierInv, UsedAsVerified
<1>2. VerifierInv => ProofUsedOnce
  BY DEF VerifierInv, UsedAsVerified, ProofUsedOnce
<1>3. QED
  BY <1>1, <1>2, VerifierInvStep, PTL DEF SSpec

=============================================================================
