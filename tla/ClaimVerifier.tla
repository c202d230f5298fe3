---------------------------- MODULE ClaimVerifier ----------------------------
(***************************************************************************)
(* The claim verifier (contracts/src/ClaimVerifier.sol): an issuer         *)
(* registers the hash of a secret per account and claim type, and whoever  *)
(* shows the secret has it verified once.                                  *)
(***************************************************************************)
EXTENDS Naturals

CONSTANTS
  Issuer,        \* The addresses that may hold the issuer's role
  FirstIssuer,   \* The argument of the constructor
  Holder,        \* The accounts that claims are about
  ClaimType,     \* AGE_OVER_18, KYC_VERIFIED, ...
  Proof,         \* The secrets
  NoCommitment   \* bytes32(0)

ASSUME VerifierAssumption == FirstIssuer \in Issuer

(* keccak256(abi.encodePacked(account, claimType, proof)): the three have  *)
(* fixed lengths, so that no two of them share an encoding.                *)
ProofHash(account, claimType, proof) ==
  [account |-> account, claimType |-> claimType, proof |-> proof]

Commitment ==
  [account : Holder, claimType : ClaimType, proof : Proof]

VARIABLES
  issuer,
  claimCommitments,  \* Per claim type and account
  usedProofs,        \* The hashes mapped to true
  verifications      \* Per hash: the ClaimProofVerified events in the log

verifierVars == <<issuer, claimCommitments, usedProofs, verifications>>

VerifierTypeOK ==
  /\ issuer \in Issuer
  /\ claimCommitments \in
       [ClaimType \X Holder -> Commitment \cup {NoCommitment}]
  /\ usedProofs \subseteq Commitment
  /\ verifications \in [Commitment -> Nat]

VerifierInit ==
  /\ issuer = FirstIssuer
  /\ claimCommitments = [c \in ClaimType \X Holder |-> NoCommitment]
  /\ usedProofs = {}
  /\ verifications = [h \in Commitment |-> 0]

-----------------------------------------------------------------------------
SetIssuer(caller, newIssuer) ==
  /\ caller = issuer
  /\ issuer' = newIssuer
  /\ UNCHANGED <<claimCommitments, usedProofs, verifications>>

ForgetUse(caller, account, claimType, commitment) ==   \* mutant: starts afresh
  /\ caller = issuer
  /\ claimCommitments' =
       [claimCommitments EXCEPT ![<<claimType, account>>] = commitment]
  /\ usedProofs' = usedProofs \ {commitment}
  /\ UNCHANGED <<issuer, verifications>>

(* A registration replaces the one before, be it used up or not.           *)
RegisterClaim(caller, account, claimType, commitment) ==
  /\ caller = issuer
  /\ claimCommitments' =
       [claimCommitments EXCEPT ![<<claimType, account>>] = commitment]
  /\ UNCHANGED <<issuer, usedProofs, verifications>>

RevokeClaim(caller, account, claimType) ==
  /\ caller = issuer
  /\ claimCommitments' =
       [claimCommitments EXCEPT ![<<claimType, account>>] = NoCommitment]
  /\ UNCHANGED <<issuer, usedProofs, verifications>>

(* Anybody may show the proof.                                             *)
VerifyClaimProof(account, claimType, proof) ==
  LET commitment == claimCommitments[<<claimType, account>>]
      proofHash == ProofHash(account, claimType, proof) IN
  /\ commitment # NoCommitment
  /\ proofHash = commitment
  /\ proofHash \notin usedProofs
  /\ usedProofs' = usedProofs \cup {proofHash}
  /\ verifications' = [verifications EXCEPT ![proofHash] = @ + 1]
  /\ UNCHANGED <<issuer, claimCommitments>>

IssuerCalls(callers) ==
  \E caller \in callers :
    \/ \E newIssuer \in Issuer : SetIssuer(caller, newIssuer)
    \/ \E account \in Holder, claimType \in ClaimType :
         \/ \E commitment \in Commitment :
              RegisterClaim(caller, account, claimType, commitment)
         \/ RevokeClaim(caller, account, claimType)

ProofShown ==
  \E account \in Holder, claimType \in ClaimType, proof \in Proof :
    VerifyClaimProof(account, claimType, proof)

VNext(callers) == IssuerCalls(callers) \/ ProofShown

=============================================================================
