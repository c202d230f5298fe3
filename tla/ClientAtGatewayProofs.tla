---------------------- MODULE ClientAtGatewayProofs ----------------------
(***************************************************************************)
(* Proofs about what a deployment of the gateway makes of messages and     *)
(* signatures that were made for it and for other deployments, submitted   *)
(* in any combination, for every value of the constants.                   *)
(***************************************************************************)
EXTENDS ClientAtGateway, ExecutionGatewayProofs

-----------------------------------------------------------------------------
(* Library and contract hash alike.                                        *)

(* The struct hash of the client.                                          *)
StructHash(kind, m) ==
  CASE kind = "session"    -> SessionStructHash(m)
    [] kind = "intent"     -> IntentStructHash(m)
    [] kind = "delegation" -> DelegationStructHash(m)
    [] kind = "recovery"   -> RecoveryStructHash(m)

(* The kinds of message, and what is signed of one for a deployment.       *)
MessageKind == {"session", "intent", "delegation", "recovery"}

Digest(site, kind, m) ==
  SigningHash(site.chain, site.contract, StructHash(kind, m))

(* A list is the concatenation of two others if it is so by index.         *)
LEMMA IsConcatenation ==
  ASSUME NEW S, NEW a \in Seq(S), NEW b \in Seq(S), NEW d \in Seq(S),
         Len(d) = Len(a) + Len(b), \A i \in 1..Len(a) : d[i] = a[i],
         \A i \in (Len(a) + 1)..Len(d) : d[i] = b[i - Len(a)]
  PROVE  a \o b = d
<1> DEFINE c == a \o b
<1>1. c \in Seq(S) /\ Len(c) = Len(d)
  BY ConcatProperties
<1>2. ASSUME NEW i \in 1..Len(c)
      PROVE  c[i] = d[i]
  <2>1. i \in 1..(Len(a) + Len(b)) /\ Len(a) \in Nat /\ Len(b) \in Nat
    BY <1>1
  <2>2. c[i] = IF i <= Len(a) THEN a[i] ELSE b[i - Len(a)]
    BY <2>1, ConcatProperties
  <2>3. CASE i <= Len(a)
    BY <2>1, <2>2, <2>3
  <2>4. CASE ~ (i <= Len(a))
    <3>1. i \in (Len(a) + 1)..Len(d)
      BY <2>1, <2>4
    <3>2. QED
      BY <2>2, <2>4, <3>1
  <2>5. QED
    BY <2>3, <2>4
<1> HIDE DEF c
<1>3. c = d
  BY <1>1, <1>2, SeqEqual
<1>4. QED
  BY <1>3 DEF c

(* The 18 words of an intent, which the contract puts together in three    *)
(* parts.                                                                  *)
LEMMA ConcatenatedWords ==
  ASSUME NEW a1, NEW a2, NEW a3, NEW a4, NEW a5, NEW a6, NEW a7, NEW b1, NEW b2,
         NEW b3, NEW b4, NEW b5, NEW b6, NEW b7, NEW b8, NEW c1, NEW c2, NEW c3
  PROVE  <<a1, a2, a3, a4, a5, a6, a7>> \o <<b1, b2, b3, b4, b5, b6, b7, b8>>
           \o <<c1, c2, c3>>
           = <<a1, a2, a3, a4, a5, a6, a7, b1, b2, b3, b4, b5, b6, b7, b8,
               c1, c2, c3>>
<1> DEFINE S == {a1, a2, a3, a4, a5, a6, a7, b1, b2, b3, b4, b5, b6, b7, b8,
                 c1, c2, c3}
           a == <<a1, a2, a3, a4, a5, a6, a7>>
           b == <<b1, b2, b3, b4, b5, b6, b7, b8>>
           c == <<c1, c2, c3>>
           e == <<a1, a2, a3, a4, a5, a6, a7, b1, b2, b3, b4, b5, b6, b7, b8>>
           d == <<a1, a2, a3, a4, a5, a6, a7, b1, b2, b3, b4, b5, b6, b7, b8,
                  c1, c2, c3>>
<1>1. /\ a \in Seq(S) /\ b \in Seq(S) /\ c \in Seq(S)
      /\ e \in Seq(S) /\ d \in Seq(S)
  OBVIOUS
<1>2. /\ Len(e) = Len(a) + Len(b) /\ Len(d) = Len(e) + Len(c)
  OBVIOUS
<1>3. /\ \A i \in 1..Len(a) : e[i] = a[i]
      /\ \A i \in (Len(a) + 1)..Len(e) : e[i] = b[i - Len(a)]
  OBVIOUS
<1>4. /\ \A i \in 1..Len(e) : d[i] = e[i]
      /\ \A i \in (Len(e) + 1)..Len(d) : d[i] = c[i - Len(e)]
  OBVIOUS
<1> HIDE DEF S, a, b, c, d, e
<1>5. a \o b = e
  BY <1>1, <1>2, <1>3, IsConcatenation, Zenon
<1>6. e \o c = d
  BY <1>1, <1>2, <1>4, IsConcatenation, Zenon
<1>7. a \o b \o c = d
  BY <1>5, <1>6
<1>8. QED
  BY <1>7 DEF a, b, c, d

(* Every struct hash of the contract is that of the client.                *)
LEMMA IntentHashesAgree ==
  ASSUME NEW m
  PROVE  IntentHashOf(m) = IntentStructHash(m)
<1> DEFINE first  == <<Keccak256("SovereignIntent"), AbiLeft(m.targetContract),
                       AbiRight(m.functionSig), AbiLeft(m.recipient),
                       AbiLeft(m.assetAddress), m.callDataHash,
                       AbiLeft(m.maxValue)>>
           second == <<AbiLeft(m.expiration), AbiLeft(m.chainId),
                       AbiLeft(m.nonce), AbiLeft(m.sessionEpoch),
                       AbiLeft(m.gasLimit), AbiLeft(m.maxFeePerGas),
                       AbiLeft(m.maxPriorityFeePerGas), m.requiredClaim>>
           third  == <<m.claimProofHash, AbiLeft(m.paymasterMode),
                       AbiLeft(m.paymaster)>>
           words  == <<Keccak256("SovereignIntent"), AbiLeft(m.targetContract),
                       AbiRight(m.functionSig), AbiLeft(m.recipient),
                       AbiLeft(m.assetAddress), m.callDataHash,
                       AbiLeft(m.maxValue), AbiLeft(m.expiration),
                       AbiLeft(m.chainId), AbiLeft(m.nonce),
                       AbiLeft(m.sessionEpoch), AbiLeft(m.gasLimit),
                       AbiLeft(m.maxFeePerGas), AbiLeft(m.maxPriorityFeePerGas),
                       m.requiredClaim, m.claimProofHash,
                       AbiLeft(m.paymasterMode), AbiLeft(m.paymaster)>>
<1>1. first \o second \o third = words
  BY ConcatenatedWords
<1>2. IntentHashOf(m) = Keccak256(first \o second \o third)
  BY DEF IntentHashOf
<1>3. IntentStructHash(m) = Keccak256(words)
  BY DEF IntentStructHash, AbiLeft, AbiRight, LeftPad32, RightPad32,
         AddressToWord, U64ToWord, U128ToWord
<1> HIDE DEF first, second, third, words
<1>4. QED
  BY <1>1, <1>2, <1>3

(* The contract hashes the fields in the order and with the padding of the *)
(* library: a recovery request as if it named this chain.                  *)
LEMMA HashesAgree ==
  ASSUME NEW kind \in MessageKind, NEW m, kind = "recovery" => m.chainId = Here.chain
  PROVE  HashHere(kind, m) = StructHash(kind, m)
<1>1. CASE kind = "session"
  BY <1>1
  DEF HashHere, StructHash, SessionHashOf, SessionStructHash, AbiLeft,
      AbiRight,
      LeftPad32, RightPad32, AddressToWord, U64ToWord, U128ToWord
<1>2. CASE kind = "intent"
  BY <1>2, IntentHashesAgree DEF HashHere, StructHash
<1>3. CASE kind = "delegation"
  BY <1>3
  DEF HashHere, StructHash, DelegationHashOf, DelegationStructHash, AbiLeft,
      AbiRight, LeftPad32, RightPad32, AddressToWord, U64ToWord, U128ToWord
<1>4. CASE kind = "recovery"
  BY <1>4
  DEF HashHere, StructHash, RecoveryHashOf, RecoveryStructHash, AbiLeft,
      LeftPad32, AddressToWord, U64ToWord
<1>5. QED
  BY <1>1, <1>2, <1>3, <1>4 DEF MessageKind

(* The contract recovers from the hash under its own domain.               *)
LEMMA RecoverAtHere ==
  ASSUME NEW h, NEW sig
  PROVE  RecoverAt(Here, h, sig) =
           Ecrecover(SigningHash(Here.chain, Here.contract, h), sig)
BY DEF RecoverAt, SigningHash, DeployedDomain, DomainSeparator, AbiLeft,
   LeftPad32,
       AddressToWord, U64ToWord

-----------------------------------------------------------------------------
(* Nothing can be read off a signature but what was signed.                *)

(* Two signed hashes that are equal are of one deployment and one message: *)
(* the domain separator names chain and contract.                          *)
LEMMA DigestsDiffer ==
  ASSUME NEW chain1, NEW contract1, NEW h1, NEW chain2, NEW contract2, NEW h2,
         SigningHash(chain1, contract1, h1) = SigningHash(chain2, contract2, h2)
  PROVE  chain1 = chain2 /\ contract1 = contract2 /\ h1 = h2
<1> DEFINE d1 == DomainSeparator(chain1, contract1)
           d2 == DomainSeparator(chain2, contract2)
<1>1. <<"1901", d1, h1>> = <<"1901", d2, h2>>
  BY DEF SigningHash, Keccak256
<1>2. d1 = d2 /\ h1 = h2
  BY <1>1
<1>3. <<Keccak256("EIP712Domain"), Keccak256("HuntKey"), Keccak256("1"),
        U64ToWord(chain1), AddressToWord(contract1)>>
        = <<Keccak256("EIP712Domain"), Keccak256("HuntKey"), Keccak256("1"),
            U64ToWord(chain2), AddressToWord(contract2)>>
  BY <1>2 DEF DomainSeparator, Keccak256
<1>4. U64ToWord(chain1) = U64ToWord(chain2)
      /\ AddressToWord(contract1) = AddressToWord(contract2)
  BY <1>3
<1>5. chain1 = chain2 /\ contract1 = contract2
  BY <1>4 DEF U64ToWord, AddressToWord, LeftPad32
<1>6. QED
  BY <1>2, <1>5

(* The first word of a struct hash names the kind of message.              *)
TypeName(kind) ==
  CASE kind = "session"    -> "SessionCertificate"
    [] kind = "intent"     -> "SovereignIntent"
    [] kind = "delegation" -> "DelegationCertificate"
    [] kind = "recovery"   -> "RecoveryRequest"

(* A struct hash begins with the hash of the name of its type.             *)
BeginsWith(hash, name) ==
  \E words : hash = Keccak256(words) /\ words[1] = Keccak256(name)

(* Every struct hash does.                                                 *)
LEMMA FirstWord ==
  ASSUME NEW kind \in MessageKind, NEW m
  PROVE  BeginsWith(StructHash(kind, m), TypeName(kind))
<1>1. CASE kind = "session"
  BY <1>1 DEF BeginsWith, StructHash, TypeName, SessionStructHash
<1>2. CASE kind = "intent"
  BY <1>2 DEF BeginsWith, StructHash, TypeName, IntentStructHash
<1>3. CASE kind = "delegation"
  BY <1>3 DEF BeginsWith, StructHash, TypeName, DelegationStructHash
<1>4. CASE kind = "recovery"
  BY <1>4 DEF BeginsWith, StructHash, TypeName, RecoveryStructHash
<1>5. QED
  BY <1>1, <1>2, <1>3, <1>4 DEF MessageKind

(* So messages of different kinds never have the same hash.                *)
LEMMA KindsDiffer ==
  ASSUME NEW k1 \in MessageKind, NEW m1, NEW k2 \in MessageKind, NEW m2,
         StructHash(k1, m1) = StructHash(k2, m2)
  PROVE  k1 = k2
<1>1. PICK words1 : /\ StructHash(k1, m1) = Keccak256(words1)
                    /\ words1[1] = Keccak256(TypeName(k1))
  BY FirstWord DEF BeginsWith
<1>2. PICK words2 : /\ StructHash(k2, m2) = Keccak256(words2)
                    /\ words2[1] = Keccak256(TypeName(k2))
  BY FirstWord DEF BeginsWith
<1>3. words1 = words2
  <2>1. Keccak256(words1) = Keccak256(words2)
    BY <1>1, <1>2
  <2>2. QED
    BY <2>1 DEF Keccak256
<1>4. TypeName(k1) = TypeName(k2)
  BY <1>1, <1>2, <1>3 DEF Keccak256
<1>5. QED
  BY <1>4 DEF TypeName, MessageKind

(* The fields of a message that its hash covers.                           *)
SameFields(kind, m, p) ==
  CASE kind = "session" ->
         /\ m.session = p.session /\ m.parent = p.parent /\ m.scope = p.scope
         /\ m.target = p.target /\ m.maxValue = p.maxValue
         /\ m.expiration = p.expiration /\ m.chainId = p.chainId
    [] kind = "intent" ->
         /\ m.targetContract = p.targetContract
         /\ m.functionSig = p.functionSig /\ m.recipient = p.recipient
         /\ m.assetAddress = p.assetAddress /\ m.callDataHash = p.callDataHash
         /\ m.maxValue = p.maxValue /\ m.expiration = p.expiration
         /\ m.chainId = p.chainId /\ m.nonce = p.nonce
         /\ m.sessionEpoch = p.sessionEpoch /\ m.gasLimit = p.gasLimit
         /\ m.maxFeePerGas = p.maxFeePerGas
         /\ m.maxPriorityFeePerGas = p.maxPriorityFeePerGas
         /\ m.requiredClaim = p.requiredClaim
         /\ m.claimProofHash = p.claimProofHash
         /\ m.paymasterMode = p.paymasterMode /\ m.paymaster = p.paymaster
    [] kind = "delegation" ->
         /\ m.delegate = p.delegate /\ m.scope = p.scope
         /\ m.maxValue = p.maxValue /\ m.expiration = p.expiration
         /\ m.chainId = p.chainId /\ m.nonce = p.nonce
    [] kind = "recovery" ->
         /\ m.oldRoot = p.oldRoot /\ m.newRoot = p.newRoot
         /\ m.chainId = p.chainId /\ m.nonce = p.nonce

(* Messages of one kind with the same hash agree in all fields hashed.     *)
LEMMA MessagesDiffer ==
  ASSUME NEW kind \in MessageKind, NEW m, NEW p,
         StructHash(kind, m) = StructHash(kind, p)
  PROVE  SameFields(kind, m, p)
<1>1. CASE kind = "session"
  <2> DEFINE words(r) ==
        <<Keccak256("SessionCertificate"), AddressToWord(r.session),
          AddressToWord(r.parent), RightPad32(r.scope), AddressToWord(r.target),
          U128ToWord(r.maxValue), U64ToWord(r.expiration), U64ToWord(r.chainId)>>
  <2>1. words(m) = words(p)
    BY <1>1 DEF StructHash, SessionStructHash, Keccak256
  <2>2. \A i \in 1..8 : words(m)[i] = words(p)[i]
    BY <2>1
  <2>3. QED
    BY <1>1, <2>2
    DEF SameFields, AddressToWord, RightPad32, U128ToWord, U64ToWord, LeftPad32
<1>2. CASE kind = "intent"
  <2> DEFINE words(r) ==
        <<Keccak256("SovereignIntent"), AddressToWord(r.targetContract),
          RightPad32(r.functionSig), AddressToWord(r.recipient),
          AddressToWord(r.assetAddress), r.callDataHash, U128ToWord(r.maxValue),
          U64ToWord(r.expiration), U64ToWord(r.chainId), U64ToWord(r.nonce),
          U64ToWord(r.sessionEpoch), U64ToWord(r.gasLimit),
          U128ToWord(r.maxFeePerGas), U128ToWord(r.maxPriorityFeePerGas),
          r.requiredClaim, r.claimProofHash, LeftPad32(r.paymasterMode),
          AddressToWord(r.paymaster)>>
  <2>1. words(m) = words(p)
    BY <1>2 DEF StructHash, IntentStructHash, Keccak256
  <2>2. \A i \in 1..18 : words(m)[i] = words(p)[i]
    BY <2>1
  <2>3. QED
    BY <1>2, <2>2
    DEF SameFields, AddressToWord, RightPad32, U128ToWord, U64ToWord, LeftPad32
<1>3. CASE kind = "delegation"
  <2> DEFINE words(r) ==
        <<Keccak256("DelegationCertificate"), AddressToWord(r.delegate),
          RightPad32(r.scope), U128ToWord(r.maxValue), U64ToWord(r.expiration),
          U64ToWord(r.chainId), U64ToWord(r.nonce)>>
  <2>1. words(m) = words(p)
    BY <1>3 DEF StructHash, DelegationStructHash, Keccak256
  <2>2. \A i \in 1..7 : words(m)[i] = words(p)[i]
    BY <2>1
  <2>3. QED
    BY <1>3, <2>2
    DEF SameFields, AddressToWord, RightPad32, U128ToWord, U64ToWord, LeftPad32
<1>4. CASE kind = "recovery"
  <2> DEFINE words(r) ==
        <<Keccak256("RecoveryRequest"), AddressToWord(r.oldRoot),
          AddressToWord(r.newRoot), U64ToWord(r.chainId), U64ToWord(r.nonce)>>
  <2>1. words(m) = words(p)
    BY <1>4 DEF StructHash, RecoveryStructHash, Keccak256
  <2>2. \A i \in 1..5 : words(m)[i] = words(p)[i]
    BY <2>1
  <2>3. QED
    BY <1>4, <2>2
    DEF SameFields, AddressToWord, U64ToWord, LeftPad32
<1>5. QED
  BY <1>1, <1>2, <1>3, <1>4 DEF MessageKind

-----------------------------------------------------------------------------
(* What the client has published: each entry is a message of one of four   *)
(* forms, for one deployment, with the signature for that deployment.      *)
ActionIndexes == 0..(MaxActionIndex - 1)

(* What the client can come to sign, of each kind, and with which key.     *)
IsMessage(kind, message, site, key) ==
  CASE kind = "session" ->
         \E i \in ActionIndexes, n \in Counter, selector \in Selector :
           /\ key = ActionKey(i)
           /\ message = Certificate(key, n, site, selector)
    [] kind = "intent" ->
         \E n \in Counter \cup {0}, selector \in Selector :
           message = IntentFor(site, selector, n)
    [] kind = "delegation" ->
         \E i \in ActionIndexes, n \in Counter, selector \in Selector :
           /\ key = RootKey
           /\ message = DelegationTo(ActionKey(i), site, selector, n)
    [] kind = "recovery" ->
         \E i \in GuardianIndex :
           key = GuardianKey(i) /\ message = RequestAt(site)

(* An entry of the ledger.                                                 *)
IsEntry(e) ==
  /\ e.kind \in MessageKind /\ e.site \in Site
  /\ IsMessage(e.kind, e.message, e.site, e.key)
  /\ e.sig = Sign(Digest(e.site, e.kind, e.message), e.key)

(* Every entry of the ledger is such a message with its signature.         *)
LedgerOK == \A e \in ledger : IsEntry(e)

(* The fields of the four forms of message.                                *)
LEMMA CertificateFields ==
  ASSUME NEW key, NEW n, NEW site, NEW selector
  PROVE  /\ Certificate(key, n, site, selector).session
              = EthAddress(DeriveSessionKey(key, n, site.chain))
         /\ Certificate(key, n, site, selector).parent = EthAddress(key)
         /\ Certificate(key, n, site, selector).chainId = site.chain
BY DEF Certificate

(* Those of an intent that matter below.                                   *)
LEMMA IntentFields ==
  ASSUME NEW site, NEW selector, NEW n
  PROVE  /\ IntentFor(site, selector, n).functionSig = selector
         /\ IntentFor(site, selector, n).nonce = n
         /\ IntentFor(site, selector, n).chainId = site.chain
BY DEF IntentFor

(* Those of a delegation.                                                  *)
LEMMA DelegationFields ==
  ASSUME NEW key, NEW site, NEW selector, NEW n
  PROVE  /\ DelegationTo(key, site, selector, n).delegate = EthAddress(key)
         /\ DelegationTo(key, site, selector, n).chainId = site.chain
BY DEF DelegationTo

(* Those of a recovery request.                                            *)
LEMMA RequestFields ==
  ASSUME NEW site
  PROVE  /\ RequestAt(site).newRoot = NewRoot
         /\ RequestAt(site).oldRoot = RootAddress
         /\ RequestAt(site).chainId = site.chain
BY DEF RequestAt

(* The message that the contract here hashes: a recovery request does not  *)
(* name its chain when it is submitted.                                    *)
AsHere(kind, m) ==
  IF kind = "recovery"
  THEN [oldRoot |-> m.oldRoot, newRoot |-> m.newRoot, chainId |-> Here.chain,
        nonce |-> m.nonce]
  ELSE m

(* The contract hashes that message as the library does.                   *)
LEMMA HashedHere ==
  ASSUME NEW kind \in MessageKind, NEW m
  PROVE  HashHere(kind, m) = StructHash(kind, AsHere(kind, m))
<1>1. CASE kind = "recovery"
  <2>1. HashHere(kind, AsHere(kind, m)) = StructHash(kind, AsHere(kind, m))
    BY <1>1, HashesAgree DEF AsHere
  <2>2. HashHere(kind, AsHere(kind, m)) = HashHere(kind, m)
    BY <1>1 DEF AsHere, HashHere
  <2>3. QED
    BY <2>1, <2>2
<1>2. CASE kind # "recovery"
  BY <1>2, HashesAgree DEF AsHere
<1>3. QED
  BY <1>1, <1>2

(* The contract recovers the key that signed just this message for this    *)
(* deployment, and otherwise nobody known.                                 *)
LEMMA SignerOf ==
  ASSUME NEW kind \in MessageKind, NEW m, NEW sig
  PROVE  SignerHere(kind, m, sig) =
           IF sig.hash = Digest(Here, kind, AsHere(kind, m))
           THEN EthAddress(sig.key) ELSE Stranger
<1>1. SignerHere(kind, m, sig) =
        Ecrecover(SigningHash(Here.chain, Here.contract,
                              StructHash(kind, AsHere(kind, m))), sig)
  BY HashedHere, RecoverAtHere DEF SignerHere
<1>2. QED
  BY <1>1 DEF Ecrecover, Digest

(* A signature that the contract accepts was made for this deployment, by  *)
(* the key it says, over just this message.                                *)
LEMMA SignedHere ==
  ASSUME NEW kind \in MessageKind, NEW m, NEW s, IsEntry(s),
         SignerHere(kind, m, s.sig) # Stranger
  PROVE  /\ s.site = Here /\ s.kind = kind
         /\ SignerHere(kind, m, s.sig) = EthAddress(s.key)
         /\ SameFields(kind, s.message, AsHere(kind, m))
<1>1. /\ s.sig.hash = Digest(Here, kind, AsHere(kind, m))
      /\ SignerHere(kind, m, s.sig) = EthAddress(s.sig.key)
  BY SignerOf
<1>2. s.sig.hash = Digest(s.site, s.kind, s.message) /\ s.sig.key = s.key
  BY DEF IsEntry, Sign
<1>3. /\ s.site.chain = Here.chain /\ s.site.contract = Here.contract
      /\ StructHash(s.kind, s.message) = StructHash(kind, AsHere(kind, m))
  <2>1. Digest(s.site, s.kind, s.message) = Digest(Here, kind, AsHere(kind, m))
    BY <1>1, <1>2
  <2>2. SigningHash(s.site.chain, s.site.contract, StructHash(s.kind, s.message))
          = SigningHash(Here.chain, Here.contract,
                        StructHash(kind, AsHere(kind, m)))
    BY <2>1 DEF Digest
  <2>3. QED
    BY <2>2, DigestsDiffer
<1>4. s.site = Here
  BY <1>3, ClientAssumption DEF IsEntry
<1>5. s.kind = kind
  BY <1>3, KindsDiffer DEF IsEntry
<1>6. SameFields(kind, s.message, AsHere(kind, m))
  BY <1>3, <1>5, MessagesDiffer
<1>7. QED
  BY <1>1, <1>2, <1>4, <1>5, <1>6

(* Except for recovery requests, the hashed fields are the whole message.  *)
LEMMA WholeMessage ==
  ASSUME NEW e, IsEntry(e), NEW s, IsEntry(s), s.kind = e.kind,
         e.kind # "recovery", SameFields(e.kind, s.message, e.message)
  PROVE  s.message = e.message
<1>1. CASE e.kind = "session"
  <2>1. PICK key1, n1, site1, selector1 :
          e.message = Certificate(key1, n1, site1, selector1)
    BY <1>1 DEF IsEntry, IsMessage
  <2>2. PICK key2, n2, site2, selector2 :
          s.message = Certificate(key2, n2, site2, selector2)
    BY <1>1 DEF IsEntry, IsMessage
  <2>3. QED
    BY <1>1, <2>1, <2>2 DEF SameFields, Certificate
<1>2. CASE e.kind = "intent"
  <2>1. PICK n1, site1, selector1 : e.message = IntentFor(site1, selector1, n1)
    BY <1>2 DEF IsEntry, IsMessage
  <2>2. PICK n2, site2, selector2 : s.message = IntentFor(site2, selector2, n2)
    BY <1>2 DEF IsEntry, IsMessage
  <2>3. selector1 = selector2 /\ n1 = n2 /\ site1.chain = site2.chain
    <3>1. /\ s.message.functionSig = e.message.functionSig
          /\ s.message.nonce = e.message.nonce
          /\ s.message.chainId = e.message.chainId
      BY <1>2 DEF SameFields
    <3>2. /\ e.message.functionSig = selector1 /\ e.message.nonce = n1
          /\ e.message.chainId = site1.chain
      BY <2>1, IntentFields
    <3>3. /\ s.message.functionSig = selector2 /\ s.message.nonce = n2
          /\ s.message.chainId = site2.chain
      BY <2>2, IntentFields
    <3>4. QED
      BY <3>1, <3>2, <3>3
  <2>4. IntentFor(site1, selector1, n1) = IntentFor(site2, selector2, n2)
    BY <2>3 DEF IntentFor
  <2>5. QED
    BY <2>1, <2>2, <2>4
<1>3. CASE e.kind = "delegation"
  <2>1. PICK key1, n1, site1, selector1 :
          e.message = DelegationTo(key1, site1, selector1, n1)
    BY <1>3 DEF IsEntry, IsMessage
  <2>2. PICK key2, n2, site2, selector2 :
          s.message = DelegationTo(key2, site2, selector2, n2)
    BY <1>3 DEF IsEntry, IsMessage
  <2>3. QED
    BY <1>3, <2>1, <2>2 DEF SameFields, DelegationTo
<1>4. QED
  BY <1>1, <1>2, <1>3 DEF IsEntry, MessageKind

-----------------------------------------------------------------------------
(* SignaturesVerify, from LedgerOK.                                        *)
LEMMA EntryVerifies ==
  ASSUME NEW e, IsEntry(e)
  PROVE  /\ RecoveredByClient(e) = EthAddress(e.key)
         /\ e.site = Here => SignerHere(e.kind, e.message, e.sig) = EthAddress(e.key)
<1>1. e.message.chainId = e.site.chain
  <2>1. CASE e.kind = "session"
    BY <2>1, CertificateFields DEF IsEntry, IsMessage
  <2>2. CASE e.kind = "intent"
    BY <2>2, IntentFields DEF IsEntry, IsMessage
  <2>3. CASE e.kind = "delegation"
    BY <2>3, DelegationFields DEF IsEntry, IsMessage
  <2>4. CASE e.kind = "recovery"
    BY <2>4, RequestFields DEF IsEntry, IsMessage
  <2>5. QED
    BY <2>1, <2>2, <2>3, <2>4 DEF IsEntry, MessageKind
<1>2. e.sig.hash = Digest(e.site, e.kind, e.message) /\ e.sig.key = e.key
  BY DEF IsEntry, Sign
<1>3. RecoveredByClient(e) =
        Ecrecover(SigningHash(e.message.chainId, e.site.contract,
                              StructHash(e.kind, e.message)), e.sig)
  BY DEF IsEntry, MessageKind, RecoveredByClient, StructHash,
         RecoverSessionSigner, SessionSigningHash, RecoverSigner,
         IntentSigningHash, RecoverDelegator, DelegationSigningHash,
         RecoverRecoverySigner, RecoverySigningHash
<1>4. RecoveredByClient(e) = EthAddress(e.key)
  BY <1>1, <1>2, <1>3 DEF Ecrecover, Digest
<1>5. ASSUME e.site = Here
      PROVE  SignerHere(e.kind, e.message, e.sig) = EthAddress(e.key)
  <2>1. AsHere(e.kind, e.message) = e.message
    <3>1. CASE e.kind = "recovery"
      <4>1. e.message = RequestAt(Here)
        BY <1>5, <3>1 DEF IsEntry, IsMessage
      <4>2. QED
        BY <3>1, <4>1 DEF AsHere, RequestAt
    <3>2. QED
      BY <3>1 DEF AsHere
  <2>2. QED
    BY <1>2, <1>5, <2>1, SignerOf DEF IsEntry
<1>6. QED
  BY <1>4, <1>5

(* Every entry verifies, as SignaturesVerify has it.                       *)
LEMMA LedgerVerifies ==
  ASSUME LedgerOK
  PROVE  SignaturesVerify
BY EntryVerifies DEF LedgerOK, SignaturesVerify

-----------------------------------------------------------------------------
(* What passes through the browser interface comes out as it went in.      *)

(* Text of the right length reads as the bytes it was made of.             *)
LEMMA HexReads ==
  ASSUME NEW bytes, NEW n
  PROVE  /\ StripHexPrefix(Hex(bytes, n)) = Hex(bytes, n)
         /\ HexToArray(n, Hex(bytes, n)) = Ok(bytes)
<1>1. StripHexPrefix(Hex(bytes, n)) = Hex(bytes, n)
  <2> DEFINE h == Hex(bytes, n)
  <2>1. h = [f \in DOMAIN h |-> h[f]] /\ h.prefix = FALSE
    BY DEF Hex
  <2> HIDE DEF h
  <2>2. [h EXCEPT !.prefix = FALSE] = h
    BY <2>1
  <2>3. QED
    BY <2>2 DEF StripHexPrefix, h
<1>2. HexToArray(n, Hex(bytes, n)) = Ok(bytes)
  BY DEF HexToArray, HexDecodes, Hex
<1>3. QED
  BY <1>1, <1>2

(* The prefix that a text for an address may have, and a digit it may lack. *)
LEMMA PrefixedHexReads ==
  ASSUME NEW bytes, NEW n, NEW length
  PROVE  LET text == StripHexPrefix([Hex(bytes, length) EXCEPT !.prefix = TRUE])
         IN  HexToArray(n, text) = IF length = n THEN Ok(bytes) ELSE Err
BY DEF StripHexPrefix, Hex, HexToArray, HexDecodes

(* A decimal number reads as itself.                                       *)
LEMMA NumberReads ==
  ASSUME NEW number
  PROVE  ParseU128([digits |-> TRUE, number |-> number]) = Ok(number)
BY DEF ParseU128

(* What a result is.                                                       *)
LEMMA Results ==
  ASSUME NEW value
  PROVE  Ok(value).ok = TRUE /\ Ok(value).value = value /\ Err.ok = FALSE
BY DEF Ok, Err

(* The fields of two records put together.                                 *)
LEMMA Joined ==
  ASSUME NEW r, NEW s, NEW f
  PROVE  /\ f \in DOMAIN r => Join(r, s)[f] = r[f]
         /\ f \in DOMAIN s /\ f \notin DOMAIN r => Join(r, s)[f] = s[f]
BY DEF Join

(* A certificate that the SDK signs is the one it was given: a text that   *)
(* does not stand for an address makes it throw.                           *)
LEMMA SdkSigns ==
  ASSUME NEW cert, NEW contract, NEW key, NEW length, NEW result,
         result = SdkSignSessionCert(
           [session |-> Hex(cert.session, 20), parent |-> Hex(cert.parent, 20),
            scope |-> Hex(cert.scope, 4),
            target |-> [Hex(cert.target, length) EXCEPT !.prefix = TRUE],
            maxValue |-> [digits |-> TRUE, number |-> cert.maxValue],
            expiration |-> cert.expiration, chainId |-> cert.chainId],
           Hex(contract, 20), Hex(key, 32)),
         result.ok
  PROVE  result.value = SignSessionCert(cert, contract, key)
<1> DEFINE p == [session |-> Hex(cert.session, 20),
                 parent |-> Hex(cert.parent, 20), scope |-> Hex(cert.scope, 4),
                 target |-> [Hex(cert.target, length) EXCEPT !.prefix = TRUE],
                 maxValue |-> [digits |-> TRUE, number |-> cert.maxValue],
                 expiration |-> cert.expiration, chainId |-> cert.chainId]
           q == [f \in DOMAIN p |->
                   IF f \in {"session", "parent", "scope", "target"}
                   THEN StripHexPrefix(p[f]) ELSE p[f]]
           parsed == [session  |-> HexToArray(20, q.session),
                      parent   |-> HexToArray(20, q.parent),
                      scope    |-> HexToArray(4, q.scope),
                      target   |-> HexToArray(20, q.target),
                      maxValue |-> ParseU128(q.maxValue)]
           rest == [expiration |-> q.expiration, chainId |-> q.chainId]
           read == Join(Values(parsed), rest)
<1>1. /\ q.session = Hex(cert.session, 20) /\ q.parent = Hex(cert.parent, 20)
      /\ q.scope = Hex(cert.scope, 4)
      /\ q.target = StripHexPrefix([Hex(cert.target, length) EXCEPT !.prefix = TRUE])
      /\ q.maxValue = [digits |-> TRUE, number |-> cert.maxValue]
      /\ q.expiration = cert.expiration /\ q.chainId = cert.chainId
  <2>1. DOMAIN p = {"session", "parent", "scope", "target", "maxValue",
                    "expiration", "chainId"}
    OBVIOUS
  <2>2. /\ q.session = StripHexPrefix(p.session)
        /\ q.parent = StripHexPrefix(p.parent)
        /\ q.scope = StripHexPrefix(p.scope)
        /\ q.target = StripHexPrefix(p.target)
        /\ q.maxValue = p.maxValue /\ q.expiration = p.expiration
        /\ q.chainId = p.chainId
    <3> HIDE DEF p
    <3>1. QED
      BY <2>1
  <2> HIDE DEF q
  <2>3. QED
    BY <2>2, HexReads
<1>2. StripHexPrefix(Hex(contract, 20)) = Hex(contract, 20)
      /\ StripHexPrefix(Hex(key, 32)) = Hex(key, 32)
  BY HexReads
<1>3. result = SignSessionCertWasm(q, Hex(contract, 20), Hex(key, 32))
  BY <1>2 DEF SdkSignSessionCert
<1> HIDE DEF p, q
<1>4. HexToArray(20, Hex(contract, 20)) = Ok(contract)
      /\ HexToArray(32, Hex(key, 32)) = Ok(key)
  BY HexReads
<1>5. result = IF AllOk(parsed) /\ Ok(contract).ok /\ Ok(key).ok
               THEN Ok(SignSessionCert(read, Ok(contract).value, Ok(key).value))
               ELSE Err
  BY <1>3, <1>4 DEF SignSessionCertWasm
<1>6. AllOk(parsed) /\ result = Ok(SignSessionCert(read, contract, key))
  <2> HIDE DEF parsed, read
  <2>1. QED
    BY <1>5, Results
<1>7. /\ parsed.session = Ok(cert.session) /\ parsed.parent = Ok(cert.parent)
      /\ parsed.scope = Ok(cert.scope) /\ parsed.maxValue = Ok(cert.maxValue)
      /\ parsed.target = IF length = 20 THEN Ok(cert.target) ELSE Err
  BY <1>1, HexReads, PrefixedHexReads, NumberReads
<1>8. DOMAIN parsed = {"session", "parent", "scope", "target", "maxValue"}
      /\ DOMAIN rest = {"expiration", "chainId"}
      /\ rest.expiration = cert.expiration /\ rest.chainId = cert.chainId
  BY <1>1
<1> HIDE DEF parsed, rest
<1>9. parsed.target = Ok(cert.target)
  <2>1. parsed.target.ok
    BY <1>6, <1>8 DEF AllOk
  <2>2. QED
    BY <1>7, <2>1, Results
<1>10. /\ read.session = cert.session /\ read.parent = cert.parent
       /\ read.scope = cert.scope /\ read.target = cert.target
       /\ read.maxValue = cert.maxValue /\ read.expiration = cert.expiration
       /\ read.chainId = cert.chainId
  <2> DEFINE v == Values(parsed)
  <2>1. /\ DOMAIN v = DOMAIN parsed
        /\ v.session = parsed.session.value /\ v.parent = parsed.parent.value
        /\ v.scope = parsed.scope.value /\ v.target = parsed.target.value
        /\ v.maxValue = parsed.maxValue.value
    BY <1>8 DEF Values
  <2>2. /\ v.session = cert.session /\ v.parent = cert.parent
        /\ v.scope = cert.scope /\ v.target = cert.target
        /\ v.maxValue = cert.maxValue
    <3> HIDE DEF v
    <3>1. /\ parsed.session.value = cert.session
          /\ parsed.parent.value = cert.parent
          /\ parsed.scope.value = cert.scope
          /\ parsed.target.value = cert.target
          /\ parsed.maxValue.value = cert.maxValue
      BY <1>7, <1>9, Results
    <3>2. QED
      BY <2>1, <3>1
  <2> HIDE DEF v
  <2>3. /\ Join(v, rest).session = v.session /\ Join(v, rest).parent = v.parent
        /\ Join(v, rest).scope = v.scope /\ Join(v, rest).target = v.target
        /\ Join(v, rest).maxValue = v.maxValue
        /\ Join(v, rest).expiration = rest.expiration
        /\ Join(v, rest).chainId = rest.chainId
    BY <1>8, <2>1, Joined
  <2>4. read = Join(v, rest)
    BY DEF v
  <2> HIDE DEF read
  <2>5. QED
    BY <1>8, <2>2, <2>3, <2>4
<1> HIDE DEF read
<1>11. SignSessionCert(read, contract, key) = SignSessionCert(cert, contract, key)
  BY <1>10 DEF SignSessionCert, SessionSigningHash, SessionStructHash
<1>12. QED
  BY <1>6, <1>11, Results

(* What SignDirectIntent hands to the SDK.                                 *)
AsText(intent, selector) ==
  [intent EXCEPT
     !.targetContract = Hex(@, 20), !.functionSig = Hex(@, 4),
     !.recipient = Hex(@, 20), !.assetAddress = Hex(@, 20),
     !.callDataHash =
        Hex(ComputeCallHashWasm(Hex([selector |-> selector], 4)).value, 32),
     !.requiredClaim = Hex(@, 32), !.claimProofHash = Hex(@, 32),
     !.paymaster = Hex(@, 20),
     !.maxValue = [digits |-> TRUE, number |-> @],
     !.maxFeePerGas = [digits |-> TRUE, number |-> @],
     !.maxPriorityFeePerGas = [digits |-> TRUE, number |-> @]]

(* An intent that the SDK creates is the one it was given, field by field. *)
LEMMA SdkCreates ==
  ASSUME NEW site, NEW selector, NEW n, NEW contract, NEW key,
         NEW intent, intent = IntentFor(site, selector, n), NEW created,
         created = CreateIntent(AsText(intent, selector)),
         created.ok
  PROVE  SignIntent(created.value, contract, key) = SignIntent(intent, contract, key)
<1> DEFINE p == AsText(intent, selector)
           q == [f \in DOMAIN p |->
                   IF f \in HexFields THEN StripHexPrefix(p[f]) ELSE p[f]]
           parsed == [targetContract |-> HexToArray(20, q.targetContract),
                      functionSig    |-> HexToArray(4, q.functionSig),
                      recipient      |-> HexToArray(20, q.recipient),
                      assetAddress   |-> HexToArray(20, q.assetAddress),
                      callDataHash   |-> HexToArray(32, q.callDataHash),
                      requiredClaim  |-> HexToArray(32, q.requiredClaim),
                      claimProofHash |-> HexToArray(32, q.claimProofHash),
                      paymaster      |-> HexToArray(20, q.paymaster),
                      maxValue       |-> ParseU128(q.maxValue),
                      maxFeePerGas   |-> ParseU128(q.maxFeePerGas),
                      maxPriorityFeePerGas |-> ParseU128(q.maxPriorityFeePerGas)]
           copied == [f \in {"expiration", "chainId", "nonce", "sessionEpoch",
                             "gasLimit", "paymasterMode"} |-> q[f]]
           read == Join(Values(parsed), copied)
           bytes == HexFields
           numbers == {"maxValue", "maxFeePerGas", "maxPriorityFeePerGas"}
           others == {"expiration", "chainId", "nonce", "sessionEpoch",
                      "gasLimit", "paymasterMode"}
           hash == ComputeCallHashWasm(Hex([selector |-> selector], 4)).value
<1>1. DOMAIN intent = bytes \cup numbers \cup others
  BY DEF IntentFor, HexFields
<1>2. hash = intent.callDataHash
  <2>1. ComputeCallHashWasm(Hex([selector |-> selector], 4))
          = Ok(CallDataHash([selector |-> selector]))
    BY DEF ComputeCallHashWasm, HexDecodes, Hex
  <2>2. hash = CallDataHash([selector |-> selector])
    BY <2>1, Results
  <2>3. intent.callDataHash = CallDataHash([selector |-> selector])
    BY DEF IntentFor
  <2>4. QED
    BY <2>2, <2>3
<1>3. /\ DOMAIN p = DOMAIN intent
      /\ p.targetContract = Hex(intent.targetContract, 20)
      /\ p.functionSig = Hex(intent.functionSig, 4)
      /\ p.recipient = Hex(intent.recipient, 20)
      /\ p.assetAddress = Hex(intent.assetAddress, 20)
      /\ p.callDataHash = Hex(hash, 32)
      /\ p.requiredClaim = Hex(intent.requiredClaim, 32)
      /\ p.claimProofHash = Hex(intent.claimProofHash, 32)
      /\ p.paymaster = Hex(intent.paymaster, 20)
      /\ p.maxValue = [digits |-> TRUE, number |-> intent.maxValue]
      /\ p.maxFeePerGas = [digits |-> TRUE, number |-> intent.maxFeePerGas]
      /\ p.maxPriorityFeePerGas
           = [digits |-> TRUE, number |-> intent.maxPriorityFeePerGas]
  <2>0. p.callDataHash = Hex(hash, 32)
    BY <1>1 DEF HexFields, AsText
  <2> HIDE DEF hash
  <2>1. DOMAIN p = DOMAIN intent
    BY DEF AsText
  <2>2. /\ p.targetContract = Hex(intent.targetContract, 20)
        /\ p.functionSig = Hex(intent.functionSig, 4)
        /\ p.recipient = Hex(intent.recipient, 20)
        /\ p.assetAddress = Hex(intent.assetAddress, 20)
    BY <1>1 DEF HexFields, AsText
  <2>3. /\ p.requiredClaim = Hex(intent.requiredClaim, 32)
        /\ p.claimProofHash = Hex(intent.claimProofHash, 32)
        /\ p.paymaster = Hex(intent.paymaster, 20)
    BY <1>1 DEF HexFields, AsText
  <2>4. p.maxValue = [digits |-> TRUE, number |-> intent.maxValue]
    BY <1>1 DEF HexFields, AsText
  <2>5. p.maxFeePerGas = [digits |-> TRUE, number |-> intent.maxFeePerGas]
    BY <1>1 DEF HexFields, AsText
  <2>6. p.maxPriorityFeePerGas
          = [digits |-> TRUE, number |-> intent.maxPriorityFeePerGas]
    BY <1>1 DEF HexFields, AsText
  <2>7. QED
    BY <2>0, <2>1, <2>2, <2>3, <2>4, <2>5, <2>6
<1>4. \A f \in others : p[f] = intent[f]
  <2> HIDE DEF hash
  <2>1. p.expiration = intent.expiration /\ p.chainId = intent.chainId
    BY <1>1 DEF AsText
  <2>2. p.nonce = intent.nonce /\ p.sessionEpoch = intent.sessionEpoch
    BY <1>1 DEF AsText
  <2>3. p.gasLimit = intent.gasLimit /\ p.paymasterMode = intent.paymasterMode
    BY <1>1 DEF AsText
  <2> HIDE DEF p
  <2>4. QED
    BY <2>1, <2>2, <2>3
<1>5. created = CreateIntentWasm(q)
  BY DEF CreateIntent
<1> HIDE DEF p, hash
<1>6. /\ q.targetContract = Hex(intent.targetContract, 20)
      /\ q.functionSig = Hex(intent.functionSig, 4)
      /\ q.recipient = Hex(intent.recipient, 20)
      /\ q.assetAddress = Hex(intent.assetAddress, 20)
      /\ q.callDataHash = Hex(hash, 32)
      /\ q.requiredClaim = Hex(intent.requiredClaim, 32)
      /\ q.claimProofHash = Hex(intent.claimProofHash, 32)
      /\ q.paymaster = Hex(intent.paymaster, 20)
  <2>1. \A f \in bytes : q[f] = StripHexPrefix(p[f])
    BY <1>1, <1>3
  <2> HIDE DEF q
  <2>2. QED
    BY <1>3, <2>1, HexReads DEF HexFields
<1>7. /\ q.maxValue = [digits |-> TRUE, number |-> intent.maxValue]
      /\ q.maxFeePerGas = [digits |-> TRUE, number |-> intent.maxFeePerGas]
      /\ q.maxPriorityFeePerGas
           = [digits |-> TRUE, number |-> intent.maxPriorityFeePerGas]
  BY <1>1, <1>3 DEF HexFields
<1>8. \A f \in others : q[f] = intent[f]
  BY <1>1, <1>3, <1>4 DEF HexFields
<1> HIDE DEF q
<1>9. created = IF AllOk(parsed) THEN Ok(read) ELSE Err
  BY <1>5 DEF CreateIntentWasm
<1>10. created = Ok(read)
  <2> HIDE DEF parsed, read
  <2>1. QED
    BY <1>9, Results
<1>11. /\ parsed.targetContract = Ok(intent.targetContract)
       /\ parsed.functionSig = Ok(intent.functionSig)
       /\ parsed.recipient = Ok(intent.recipient)
       /\ parsed.assetAddress = Ok(intent.assetAddress)
       /\ parsed.callDataHash = Ok(hash)
       /\ parsed.requiredClaim = Ok(intent.requiredClaim)
       /\ parsed.claimProofHash = Ok(intent.claimProofHash)
       /\ parsed.paymaster = Ok(intent.paymaster)
       /\ parsed.maxValue = Ok(intent.maxValue)
       /\ parsed.maxFeePerGas = Ok(intent.maxFeePerGas)
       /\ parsed.maxPriorityFeePerGas = Ok(intent.maxPriorityFeePerGas)
  BY <1>6, <1>7, HexReads, NumberReads
<1>12. /\ DOMAIN parsed = bytes \cup numbers /\ DOMAIN copied = others
       /\ \A f \in others : copied[f] = intent[f]
  BY <1>8 DEF HexFields
<1> HIDE DEF parsed, copied
<1>13. \A f \in bytes \cup numbers : parsed[f].value = intent[f]
  <2>0. \A value : Ok(value).value = value
    BY Results
  <2>1. /\ parsed.targetContract.value = intent.targetContract
        /\ parsed.functionSig.value = intent.functionSig
    BY <1>11, <2>0
  <2>2. /\ parsed.recipient.value = intent.recipient
        /\ parsed.assetAddress.value = intent.assetAddress
    BY <1>11, <2>0
  <2>3. /\ parsed.callDataHash.value = intent.callDataHash
        /\ parsed.requiredClaim.value = intent.requiredClaim
    BY <1>2, <1>11, <2>0
  <2>4. /\ parsed.claimProofHash.value = intent.claimProofHash
        /\ parsed.paymaster.value = intent.paymaster
    BY <1>11, <2>0
  <2>5. /\ parsed.maxValue.value = intent.maxValue
        /\ parsed.maxFeePerGas.value = intent.maxFeePerGas
        /\ parsed.maxPriorityFeePerGas.value = intent.maxPriorityFeePerGas
    BY <1>11, <2>0
  <2>6. QED
    BY <2>1, <2>2, <2>3, <2>4, <2>5 DEF HexFields
<1>14. \A f \in DOMAIN intent : read[f] = intent[f]
  <2> DEFINE v == Values(parsed)
  <2>1. DOMAIN v = DOMAIN parsed /\ \A f \in DOMAIN parsed : v[f] = parsed[f].value
    BY DEF Values
  <2> HIDE DEF v
  <2>2. \A f \in bytes \cup numbers : Join(v, copied)[f] = intent[f]
    BY <1>12, <1>13, <2>1, Joined
  <2>3. \A f \in others : Join(v, copied)[f] = intent[f]
    BY <1>12, <2>1, Joined DEF HexFields
  <2>4. read = Join(v, copied)
    BY DEF v
  <2> HIDE DEF read
  <2>5. QED
    BY <1>1, <2>2, <2>3, <2>4
<1> HIDE DEF read
<1>15. IntentSigningHash(read, contract) = IntentSigningHash(intent, contract)
  BY <1>1, <1>14 DEF HexFields, IntentSigningHash, IntentStructHash
<1>16. QED
  BY <1>10, <1>15, Results DEF SignIntent

-----------------------------------------------------------------------------
(* What is submitted, from the entries it is put together of.              *)

(* A record with its signer keeps the fields of the message.               *)
LEMMA SignerAdded ==
  ASSUME NEW m, NEW a
  PROVE  /\ WithSigner(m, a).signer = a
         /\ \A f \in DOMAIN m \ {"signer"} : WithSigner(m, a)[f] = m[f]
BY DEF WithSigner

(* Messages have no signer of their own.                                   *)
LEMMA MessageDomains ==
  /\ \A key, n, site, selector :
       DOMAIN Certificate(key, n, site, selector) =
         {"session", "parent", "scope", "target", "maxValue", "expiration",
          "chainId"}
  /\ \A site, selector, n :
       DOMAIN IntentFor(site, selector, n) =
         {"targetContract", "functionSig", "recipient", "assetAddress",
          "callDataHash", "maxValue", "expiration", "chainId", "nonce",
          "sessionEpoch", "gasLimit", "maxFeePerGas", "maxPriorityFeePerGas",
          "requiredClaim", "claimProofHash", "paymasterMode", "paymaster"}
  /\ \A key, site, selector, n :
       DOMAIN DelegationTo(key, site, selector, n) =
         {"delegate", "scope", "maxValue", "expiration", "chainId", "nonce"}
  /\ \A site : DOMAIN RequestAt(site) = {"oldRoot", "newRoot", "chainId", "nonce"}
BY DEF Certificate, IntentFor, DelegationTo, RequestAt

(* A submission is a message of the ledger with the signature of an entry, *)
(* perhaps of another one.                                                 *)
LEMMA SubmittedIs ==
  ASSUME NEW kind, NEW c \in Submitted(kind, ledger)
  PROVE  \E e, s \in ledger :
           /\ e.kind = kind
           /\ c = WithSigner(e.message, SignerHere(kind, e.message, s.sig))
           /\ c.signer = SignerHere(kind, e.message, s.sig)
<1>1. PICK e \in ledger, s \in ledger :
        /\ e.kind = kind
        /\ c = WithSigner(e.message, SignerHere(kind, e.message, s.sig))
  BY DEF Submitted
<1>2. QED
  BY <1>1, SignerAdded

(* Whatever is submitted with a signer that anybody has the key of was     *)
(* signed by this key, for this deployment.                                *)
LEMMA SubmittedWasSigned ==
  ASSUME LedgerOK, NEW kind \in MessageKind, kind # "recovery",
         NEW c \in Submitted(kind, ledger), c.signer # Stranger
  PROVE  \E s \in ledger : /\ IsEntry(s) /\ s.kind = kind
                           /\ s.message \in SignedFor(Here, kind, c.signer)
                           /\ c = WithSigner(s.message, c.signer)
<1>1. PICK e \in ledger, s \in ledger :
        /\ e.kind = kind
        /\ c = WithSigner(e.message, SignerHere(kind, e.message, s.sig))
        /\ c.signer = SignerHere(kind, e.message, s.sig)
  BY SubmittedIs
<1>2. IsEntry(e) /\ IsEntry(s)
  BY DEF LedgerOK
<1>3. AsHere(kind, e.message) = e.message
  BY DEF AsHere
<1>4. /\ s.site = Here /\ s.kind = kind /\ c.signer = EthAddress(s.key)
      /\ SameFields(kind, s.message, e.message)
  BY <1>1, <1>2, <1>3, SignedHere
<1>5. s.message = e.message
  BY <1>1, <1>2, <1>4, WholeMessage
<1>6. s.message \in SignedFor(Here, kind, c.signer)
  BY <1>4 DEF SignedFor
<1>7. QED
  BY <1>1, <1>2, <1>4, <1>5, <1>6

(* An intent submitted with a signer who exists is one that this signer    *)
(* signed for this deployment, with its nonce.                             *)
LEMMA SubmittedIntent ==
  ASSUME LedgerOK, NEW c \in Submitted("intent", ledger), c.signer # Stranger
  PROVE  \E m \in SignedFor(Here, "intent", c.signer) :
           c = WithSigner(m, c.signer) /\ c.nonce = m.nonce
<1>1. PICK s \in ledger :
        /\ IsEntry(s) /\ s.kind = "intent"
        /\ s.message \in SignedFor(Here, "intent", c.signer)
        /\ c = WithSigner(s.message, c.signer)
  BY SubmittedWasSigned DEF MessageKind
<1>2. PICK site, selector, n : s.message = IntentFor(site, selector, n)
  BY <1>1 DEF IsEntry, IsMessage
<1>3. "nonce" \in DOMAIN s.message \ {"signer"}
  BY <1>2, MessageDomains
<1>4. c.nonce = s.message.nonce
  BY <1>1, <1>3, SignerAdded
<1>5. QED
  BY <1>1, <1>4

(* A certificate submitted names a derived session key, an action key and  *)
(* a chain, whoever signed.                                                *)
LEMMA SubmittedSession ==
  ASSUME LedgerOK, NEW c \in Submitted("session", ledger)
  PROVE  \E i \in ActionIndexes, n \in Counter, site \in Site :
           /\ c.session = EthAddress(DeriveSessionKey(ActionKey(i), n, site.chain))
           /\ c.parent = EthAddress(ActionKey(i)) /\ c.chainId = site.chain
<1>1. PICK e \in ledger :
        e.kind = "session" /\ \E signer : c = WithSigner(e.message, signer)
  BY SubmittedIs
<1>2. PICK i \in ActionIndexes, n \in Counter, selector \in Selector :
        e.message = Certificate(ActionKey(i), n, e.site, selector)
  BY <1>1 DEF LedgerOK, IsEntry, IsMessage
<1>3. {"session", "parent", "chainId"} \subseteq DOMAIN e.message \ {"signer"}
  BY <1>2, MessageDomains
<1>4. /\ c.session = e.message.session /\ c.parent = e.message.parent
      /\ c.chainId = e.message.chainId
  BY <1>1, <1>3, SignerAdded
<1>5. e.site \in Site
  BY <1>1 DEF LedgerOK, IsEntry
<1>6. QED
  BY <1>2, <1>4, <1>5, CertificateFields

(* A delegation submitted is to an action key, and if its prover exists,   *)
(* the prover signed one with this nonce for this deployment.              *)
LEMMA SubmittedDelegation ==
  ASSUME LedgerOK, NEW d \in SubmittedDelegations
  PROVE  /\ d.delegate \in ActionAddress
         /\ d.prover # Stranger =>
              \E m \in SignedFor(Here, "delegation", d.prover) : m.nonce = d.nonce
<1>1. PICK c \in Submitted("delegation", ledger) :
        d.prover = c.signer /\ d.delegate = c.delegate /\ d.nonce = c.nonce
  BY DEF SubmittedDelegations
<1>2. ASSUME NEW e \in ledger, e.kind = "delegation", NEW signer,
             c = WithSigner(e.message, signer)
      PROVE  c.delegate \in ActionAddress /\ c.nonce = e.message.nonce
  <2>1. PICK i \in ActionIndexes, n \in Counter, selector \in Selector :
          e.message = DelegationTo(ActionKey(i), e.site, selector, n)
    BY <1>2 DEF LedgerOK, IsEntry, IsMessage
  <2>2. {"delegate", "nonce"} \subseteq DOMAIN e.message \ {"signer"}
    BY <2>1, MessageDomains
  <2>3. c.delegate = EthAddress(ActionKey(i)) /\ c.nonce = e.message.nonce
    BY <1>2, <2>1, <2>2, SignerAdded, DelegationFields
  <2>4. QED
    BY <2>3 DEF ActionAddress, ActionIndexes
<1>3. c.delegate \in ActionAddress
  BY <1>2, SubmittedIs
<1>4. ASSUME c.signer # Stranger
      PROVE  \E m \in SignedFor(Here, "delegation", c.signer) : m.nonce = c.nonce
  <2>1. PICK s \in ledger :
          /\ s.kind = "delegation"
          /\ s.message \in SignedFor(Here, "delegation", c.signer)
          /\ c = WithSigner(s.message, c.signer)
    BY <1>4, SubmittedWasSigned DEF MessageKind
  <2>2. c.nonce = s.message.nonce
    BY <1>2, <2>1
  <2>3. QED
    BY <2>1, <2>2
<1>5. QED
  BY <1>1, <1>3, <1>4

(* A request does not name its chain when it is submitted; its signature   *)
(* does.                                                                   *)
LEMMA SubmittedRequest ==
  ASSUME LedgerOK, NEW req \in SubmittedRequests(ledger)
  PROVE  /\ req.oldRoot = RootAddress /\ req.newRoot = NewRoot
         /\ req.signer # Stranger =>
              \E m \in SignedFor(Here, "recovery", req.signer) :
                m.oldRoot = RootAddress /\ m.newRoot = NewRoot
<1>1. PICK c \in Submitted("recovery", ledger) :
        /\ req.signer = c.signer /\ req.oldRoot = c.oldRoot
        /\ req.newRoot = c.newRoot
  BY DEF SubmittedRequests
<1>2. PICK e \in ledger, s \in ledger :
        /\ e.kind = "recovery"
        /\ c = WithSigner(e.message, SignerHere("recovery", e.message, s.sig))
        /\ c.signer = SignerHere("recovery", e.message, s.sig)
  BY SubmittedIs
<1>3. IsEntry(e) /\ IsEntry(s)
  BY DEF LedgerOK
<1>4. e.message = RequestAt(e.site)
  BY <1>2, <1>3 DEF IsEntry, IsMessage
<1>5. {"oldRoot", "newRoot"} \subseteq DOMAIN e.message \ {"signer"}
  BY <1>4, MessageDomains
<1>6. c.oldRoot = RootAddress /\ c.newRoot = NewRoot
  BY <1>2, <1>4, <1>5, SignerAdded, RequestFields
<1>7. ASSUME c.signer # Stranger
      PROVE  \E m \in SignedFor(Here, "recovery", c.signer) :
               m.oldRoot = RootAddress /\ m.newRoot = NewRoot
  <2>1. s.site = Here /\ s.kind = "recovery" /\ c.signer = EthAddress(s.key)
    BY <1>2, <1>3, <1>7, SignedHere DEF MessageKind
  <2>2. s.message \in SignedFor(Here, "recovery", c.signer)
    BY <2>1 DEF SignedFor
  <2>3. s.message = RequestAt(s.site)
    BY <1>3, <2>1 DEF IsEntry, IsMessage
  <2>4. QED
    BY <2>2, <2>3, RequestFields
<1>8. QED
  BY <1>1, <1>6, <1>7

-----------------------------------------------------------------------------
(* The inductive invariant.                                                *)

(* The client has no action key or one it can derive.                      *)
KeyOK ==
  /\ action_index \in 0..MaxActionIndex
  /\ action_key = NoKey \/ \E i \in ActionIndexes : action_key = ActionKey(i)

(* What is public comes from the ledger.                                   *)
PublishedOK ==
  /\ \A c \in issued : c[1] \in Submitted("session", ledger)
  /\ signed \subseteq SubmittedRequests(ledger)

(* The session keys that name this chain.                                  *)
HereKeys ==
  {EthAddress(DeriveSessionKey(ActionKey(i), n, Here.chain)) :
     i \in ActionIndexes, n \in Counter}

(* A storage in which everything that took effect was signed here: the one *)
(* that is current, and every one that a call under way may put back.      *)
Genuine(store) ==
  /\ store.authorizedKeys = ActionAddress
  /\ store.authorizedProvers = {RootAddress}
  /\ \A a \in Address : Stranger \notin Guardians(store.guardians[a])
  /\ store.nonces \in [Address -> Nat] /\ store.delegationNonces \in [Address -> Nat]
  /\ DOMAIN store.pendingNewRoot = Address /\ DOMAIN store.recoveryApproved = Address
  /\ \A a \in Address : \A n \in 0..(store.nonces[a] - 1) :
       \E intent \in SignedFor(Here, "intent", a) : intent.nonce = n
  /\ \A a \in Address : \A n \in 0..(store.delegationNonces[a] - 1) :
       \E cert \in SignedFor(Here, "delegation", a) : cert.nonce = n
  /\ \A root \in Address : \A g \in store.recoveryApproved[root] :
       \E req \in SignedFor(Here, "recovery", g) :
         req.oldRoot = root /\ req.newRoot = store.pendingNewRoot[root]
  /\ \A root \in Address : \A g \in store.recoveryApproved[root] :
       store.pendingNewRoot[root] = NewRoot
  /\ store.usedSessionKeys \subseteq HereKeys

(* A call under way: its certificate and its intent were signed here, and  *)
(* so was everything that a failure would put back.                        *)
FrameSigned(f) ==
  /\ \E cert \in SignedFor(Here, "session", f.session.parent) :
       f.session = WithSigner(cert, f.session.parent)
  /\ \E intent \in SignedFor(Here, "intent", f.session.session) :
       f.intent = WithSigner(intent, f.session.session)
  /\ Genuine(f.saved)

(* All calls under way are.                                                *)
StackOK ==
  /\ IsStack
  /\ \A i \in 1..Len(callStack) : FrameSigned(callStack[i])

(* The inductive invariant.                                                *)
ClientInv == LedgerOK /\ KeyOK /\ PublishedOK /\ StackOK /\ Genuine(Storage)

-----------------------------------------------------------------------------
(* Publishing more takes nothing back.                                     *)
LEMMA MoreSigned ==
  ASSUME ledger \subseteq ledger', NEW site, NEW kind, NEW key
  PROVE  SignedFor(site, kind, key) \subseteq SignedFor(site, kind, key)'
BY DEF SignedFor

(* A storage stays genuine as the ledger grows.                            *)
LEMMA StaysGenuine ==
  ASSUME ledger \subseteq ledger', NEW store, Genuine(store)
  PROVE  Genuine(store)'
<1>1. /\ store.authorizedKeys = ActionAddress
      /\ store.authorizedProvers = {RootAddress}
      /\ \A a \in Address : Stranger \notin Guardians(store.guardians[a])
      /\ store.nonces \in [Address -> Nat]
      /\ store.delegationNonces \in [Address -> Nat]
      /\ DOMAIN store.pendingNewRoot = Address
      /\ DOMAIN store.recoveryApproved = Address
      /\ \A root \in Address : \A g \in store.recoveryApproved[root] :
           store.pendingNewRoot[root] = NewRoot
      /\ store.usedSessionKeys \subseteq HereKeys
  BY DEF Genuine
<1>2. \A a \in Address : \A n \in 0..(store.nonces[a] - 1) :
        \E intent \in SignedFor(Here, "intent", a)' : intent.nonce = n
  BY MoreSigned DEF Genuine
<1>3. \A a \in Address : \A n \in 0..(store.delegationNonces[a] - 1) :
        \E cert \in SignedFor(Here, "delegation", a)' : cert.nonce = n
  BY MoreSigned DEF Genuine
<1>4. \A root \in Address : \A g \in store.recoveryApproved[root] :
        \E req \in SignedFor(Here, "recovery", g)' :
          req.oldRoot = root /\ req.newRoot = store.pendingNewRoot[root]
  BY MoreSigned DEF Genuine
<1>5. QED
  BY <1>1, <1>2, <1>3, <1>4 DEF Genuine

(* A call under way stays signed for as the ledger grows.                  *)
LEMMA StaysSigned ==
  ASSUME ledger \subseteq ledger', NEW f, FrameSigned(f)
  PROVE  FrameSigned(f)'
<1>1. \E cert \in SignedFor(Here, "session", f.session.parent)' :
        f.session = WithSigner(cert, f.session.parent)
  BY MoreSigned DEF FrameSigned
<1>2. \E intent \in SignedFor(Here, "intent", f.session.session)' :
        f.intent = WithSigner(intent, f.session.session)
  BY MoreSigned DEF FrameSigned
<1>3. Genuine(f.saved)'
  BY StaysGenuine DEF FrameSigned
<1>4. QED
  BY <1>1, <1>2, <1>3 DEF FrameSigned

(* Storage, when the variables it consists of stand still.                 *)
LEMMA StorageStays ==
  ASSUME UNCHANGED <<storeVars, usedSessionKeys, executed>>
  PROVE  Storage' = Storage
BY DEF Storage, storeVars, keyVars, recoveryVars

(* The stack, when it stands still.                                        *)
LEMMA StackStays ==
  ASSUME StackOK, ledger \subseteq ledger', UNCHANGED callStack
  PROVE  StackOK'
<1>1. \A i \in 1..Len(callStack) : FrameSigned(callStack[i])'
  <2> SUFFICES ASSUME NEW i \in 1..Len(callStack)
               PROVE  FrameSigned(callStack[i])'
    OBVIOUS
  <2>1. PICK f : f = callStack[i]
    OBVIOUS
  <2>2. FrameSigned(f)'
    BY <2>1, StaysSigned DEF StackOK
  <2>3. QED
    BY <2>1, <2>2
<1>2. QED
  BY <1>1 DEF StackOK, IsStack

-----------------------------------------------------------------------------
(* The client's steps.                                                     *)
LEMMA InitialInv ==
  ASSUME CInit
  PROVE  ClientInv
<1>1. LedgerOK /\ PublishedOK
  BY DEF CInit, LedgerOK, PublishedOK
<1>2. KeyOK
  BY ClientAssumption DEF CInit, KeyOK
<1>3. StackOK
  <2>1. callStack = <<>>
    BY DEF CInit
  <2>2. callStack \in Seq({}) /\ Len(callStack) = 0
    BY <2>1
  <2>3. QED
    BY <2>2 DEF StackOK, IsStack
<1>4. Genuine(Storage)
  <2>1. PICK list \in GuardianList :
          _guardians = [a \in Address |-> IF a = RootAddress THEN list ELSE <<>>]
    BY DEF CInit
  <2>2. Stranger \notin Guardians(list) /\ Stranger \notin Guardians(<<>>)
    BY ClientAssumption DEF Guardians
  <2>3. \A a \in Address : Stranger \notin Guardians(_guardians[a])
    BY <2>1, <2>2
  <2>4. /\ authorizedKeys = ActionAddress /\ authorizedProvers = {RootAddress}
        /\ nonces = [a \in Address |-> 0] /\ delegationNonces = nonces
        /\ pendingNewRoot = [a \in Address |-> NoAddress]
        /\ recoveryApproved = [a \in Address |-> {}] /\ usedSessionKeys = {}
    BY DEF CInit
  <2>5. QED
    BY <2>3, <2>4 DEF Genuine, Storage
<1>5. QED
  BY <1>1, <1>2, <1>3, <1>4 DEF ClientInv

(* What publishing a genuine message does to the invariant.                *)
LEMMA PublishStep ==
  ASSUME ClientInv, NEW kind, NEW message, NEW site, NEW key, NEW sig,
         IsEntry([kind |-> kind, message |-> message, site |-> site, key |-> key,
                  sig |-> sig]),
         Publish(kind, message, site, key, sig)
  PROVE  ClientInv'
<1> DEFINE e == [kind |-> kind, message |-> message, site |-> site, key |-> key,
                 sig |-> sig]
<1>1. /\ ledger' = ledger \cup {e}
      /\ signed' = SubmittedRequests(ledger \cup {e})
      /\ issued' = {<<c, sessionEpoch[c.parent]>> :
                      c \in Submitted("session", ledger \cup {e})}
      /\ UNCHANGED <<now, storeVars, usedSessionKeys, executed, callStack,
                     action_index, action_key>>
  BY DEF Publish
<1>2. LedgerOK'
  <2> HIDE DEF e
  <2>1. \A x \in ledger' : IsEntry(x)
    BY <1>1 DEF ClientInv, LedgerOK, e
  <2>2. QED
    BY <2>1 DEF LedgerOK
<1> HIDE DEF e
<1>3. PublishedOK'
  <2>1. signed' = SubmittedRequests(ledger')
    BY <1>1 DEF SubmittedRequests
  <2>2. SubmittedRequests(ledger') = SubmittedRequests(ledger)'
    BY DEF SubmittedRequests, Submitted
  <2>3. Submitted("session", ledger') = Submitted("session", ledger)'
    BY DEF Submitted
  <2>4. \A c \in issued' : c[1] \in Submitted("session", ledger')
    BY <1>1
  <2>5. QED
    BY <2>1, <2>2, <2>3, <2>4 DEF PublishedOK
<1>4. KeyOK'
  BY <1>1 DEF ClientInv, KeyOK
<1>5. ledger \subseteq ledger'
  BY <1>1
<1>6. StackOK'
  BY <1>1, <1>5, StackStays DEF ClientInv
<1>7. Genuine(Storage)'
  <2>1. PICK store : store = Storage
    OBVIOUS
  <2>2. Genuine(store)' /\ Storage' = store
    BY <1>1, <1>5, <2>1, StaysGenuine, StorageStays DEF ClientInv
  <2>3. QED
    BY <2>2
<1>8. QED
  BY <1>2, <1>3, <1>4, <1>6, <1>7 DEF ClientInv

(* Every message that the client publishes has one of the four forms, and  *)
(* the signature of the library: also what was made in a browser.          *)
LEMMA CertifyStep ==
  ASSUME ClientInv, action_key # NoKey, NEW n \in Counter, NEW site \in Site,
         NEW selector \in Selector,
         \/ CertifySession(n, site, selector)
         \/ \E length \in HexLength : CertifyInBrowser(n, site, selector, length)
  PROVE  ClientInv'
<1> DEFINE cert == Certificate(action_key, n, site, selector)
           sig == SignSessionCert(cert, site.contract, action_key)
<1>1. PICK i \in ActionIndexes : action_key = ActionKey(i)
  BY DEF ClientInv, KeyOK
<1>2. ASSUME NEW length, CertifyInBrowser(n, site, selector, length)
      PROVE  Publish("session", cert, site, action_key, sig)
  <2> DEFINE result == SdkSignSessionCert(
               [session |-> Hex(cert.session, 20), parent |-> Hex(cert.parent, 20),
                scope |-> Hex(cert.scope, 4),
                target |-> [Hex(cert.target, length) EXCEPT !.prefix = TRUE],
                maxValue |-> [digits |-> TRUE, number |-> cert.maxValue],
                expiration |-> cert.expiration, chainId |-> cert.chainId],
               Hex(site.contract, 20), Hex(action_key, 32))
  <2>1. result.ok /\ Publish("session", cert, site, action_key, result.value)
    BY <1>2 DEF CertifyInBrowser
  <2> HIDE DEF cert
  <2>2. result.value = sig
    BY <2>1, SdkSigns
  <2> HIDE DEF result, sig
  <2>3. QED
    BY <2>1, <2>2
<1>3. Publish("session", cert, site, action_key, sig)
  BY <1>2 DEF CertifySession
<1>4. sig = Sign(Digest(site, "session", cert), action_key)
  <2>1. cert.chainId = site.chain
    BY CertificateFields
  <2> HIDE DEF cert
  <2>2. QED
    BY <2>1 DEF SignSessionCert, SessionSigningHash, Digest, StructHash
<1>5. IsMessage("session", cert, site, action_key)
  BY <1>1 DEF IsMessage
<1> HIDE DEF cert, sig
<1>6. IsEntry([kind |-> "session", message |-> cert, site |-> site,
               key |-> action_key, sig |-> sig])
  BY <1>4, <1>5 DEF IsEntry, MessageKind
<1>7. QED
  BY <1>3, <1>6, PublishStep

(* An intent is published, with the signature of the library.              *)
LEMMA PublishIntent ==
  ASSUME ClientInv, NEW m \in Counter \cup {0}, NEW site \in Site,
         NEW selector \in Selector, NEW key, NEW intent,
         intent = IntentFor(site, selector, m),
         Publish("intent", intent, site, key,
                 SignIntent(intent, site.contract, key))
  PROVE  ClientInv'
<1> DEFINE sig == SignIntent(intent, site.contract, key)
<1>1. sig = Sign(Digest(site, "intent", intent), key)
  <2>1. intent.chainId = site.chain
    BY IntentFields
  <2>2. QED
    BY <2>1 DEF SignIntent, IntentSigningHash, Digest, StructHash
<1>2. IsMessage("intent", intent, site, key)
  BY DEF IsMessage
<1> HIDE DEF sig
<1>3. IsEntry([kind |-> "intent", message |-> intent, site |-> site,
               key |-> key, sig |-> sig])
  BY <1>1, <1>2 DEF IsEntry, MessageKind
<1>4. QED
  BY <1>3, PublishStep DEF sig

(* The intents of session keys and of action keys.                         *)
LEMMA IntentStep ==
  ASSUME ClientInv, NEW n \in Counter, NEW site \in Site,
         NEW selector \in Selector,
         \/ SignSessionIntent(n, site, selector)
         \/ SignDirectIntent(n, site, selector)
  PROVE  ClientInv'
<1>1. CASE SignSessionIntent(n, site, selector)
  BY <1>1, PublishIntent DEF SignSessionIntent
<1>2. CASE SignDirectIntent(n, site, selector)
  <2>1. PICK intent : intent = IntentFor(site, selector, n)
    OBVIOUS
  <2>2. PICK created :
          /\ created = CreateIntent(AsText(intent, selector))
          /\ created.ok
          /\ Publish("intent", intent, site, action_key,
                     SignIntent(created.value, site.contract, action_key))
    BY <1>2, <2>1 DEF SignDirectIntent, AsText
  <2>3. SignIntent(created.value, site.contract, action_key)
          = SignIntent(intent, site.contract, action_key)
    BY <2>1, <2>2, SdkCreates
  <2>4. Publish("intent", intent, site, action_key,
                SignIntent(intent, site.contract, action_key))
    BY <2>2, <2>3
  <2>5. QED
    BY <2>1, <2>4, PublishIntent
<1>3. QED
  BY <1>1, <1>2

(* Delegations.                                                            *)
LEMMA DelegateStep ==
  ASSUME ClientInv, action_key # NoKey, NEW n \in Counter, NEW site \in Site,
         NEW selector \in Selector, Delegate(n, site, selector)
  PROVE  ClientInv'
<1> DEFINE cert == DelegationTo(action_key, site, selector, n)
           sig == SignDelegation(cert, site.contract, RootKey)
<1>1. PICK i \in ActionIndexes : action_key = ActionKey(i)
  BY DEF ClientInv, KeyOK
<1>2. Publish("delegation", cert, site, RootKey, sig)
  BY DEF Delegate
<1>3. sig = Sign(Digest(site, "delegation", cert), RootKey)
  <2>1. cert.chainId = site.chain
    BY DelegationFields
  <2> HIDE DEF cert
  <2>2. QED
    BY <2>1 DEF SignDelegation, DelegationSigningHash, Digest, StructHash
<1>4. IsMessage("delegation", cert, site, RootKey)
  BY <1>1 DEF IsMessage
<1> HIDE DEF cert, sig
<1>5. IsEntry([kind |-> "delegation", message |-> cert, site |-> site,
               key |-> RootKey, sig |-> sig])
  BY <1>3, <1>4 DEF IsEntry, MessageKind
<1>6. QED
  BY <1>2, <1>5, PublishStep

(* Recovery requests.                                                      *)
LEMMA RequestStep ==
  ASSUME ClientInv, NEW i \in GuardianIndex, NEW site \in Site,
         SupportOldRoot(i, site)
  PROVE  ClientInv'
<1> DEFINE req == RequestAt(site)
           sig == SignRecovery(req, site.contract, GuardianKey(i))
<1>1. Publish("recovery", req, site, GuardianKey(i), sig)
  BY DEF SupportOldRoot
<1>2. sig = Sign(Digest(site, "recovery", req), GuardianKey(i))
  <2>1. req.chainId = site.chain
    BY RequestFields
  <2> HIDE DEF req
  <2>2. QED
    BY <2>1 DEF SignRecovery, RecoverySigningHash, Digest, StructHash
<1>3. IsMessage("recovery", req, site, GuardianKey(i))
  BY DEF IsMessage
<1> HIDE DEF req, sig
<1>4. IsEntry([kind |-> "recovery", message |-> req, site |-> site,
               key |-> GuardianKey(i), sig |-> sig])
  BY <1>2, <1>3 DEF IsEntry, MessageKind
<1>5. QED
  BY <1>1, <1>4, PublishStep

(* A step that publishes nothing and changes nothing on chain.             *)
LEMMA QuietStep ==
  ASSUME ClientInv, UNCHANGED <<gvars, ledger>>, KeyOK'
  PROVE  ClientInv'
<1>1. UNCHANGED <<ledger, signed, issued, callStack, storeVars, usedSessionKeys,
                  executed>>
  BY DEF gvars, gatewayVars, vars
<1>2. LedgerOK'
  BY <1>1 DEF ClientInv, LedgerOK
<1>3. PublishedOK'
  BY <1>1 DEF ClientInv, PublishedOK, SubmittedRequests, Submitted
<1>4. ledger \subseteq ledger'
  BY <1>1
<1>5. StackOK'
  BY <1>1, <1>4, StackStays DEF ClientInv
<1>6. Genuine(Storage)'
  <2>1. PICK store : store = Storage
    OBVIOUS
  <2>2. Genuine(store)' /\ Storage' = store
    BY <1>1, <1>4, <2>1, StaysGenuine, StorageStays DEF ClientInv
  <2>3. QED
    BY <2>2
<1>7. QED
  BY <1>2, <1>3, <1>5, <1>6 DEF ClientInv

(* Every step of the client preserves the invariant.                       *)
LEMMA ClientStepKeeps ==
  ASSUME ClientInv, ClientStep
  PROVE  ClientInv'
<1>1. CASE NextActionKey
  <2>1. /\ action_index \in ActionIndexes /\ action_key' = ActionKey(action_index)
        /\ action_index' = action_index + 1 /\ UNCHANGED <<gvars, ledger>>
    BY <1>1, ClientAssumption
    DEF NextActionKey, ClientInv, KeyOK, ActionIndexes, ActionKey
  <2>2. action_index' \in 0..MaxActionIndex
    BY <2>1, ClientAssumption DEF ActionIndexes
  <2>3. KeyOK'
    BY <2>1, <2>2 DEF KeyOK
  <2>4. QED
    BY <2>1, <2>3, QuietStep
<1>2. CASE Restart
  <2>1. KeyOK' /\ UNCHANGED <<gvars, ledger>>
    BY <1>2, ClientAssumption DEF Restart, KeyOK
  <2>2. QED
    BY <2>1, QuietStep
<1>3. QED
  BY <1>1, <1>2, CertifyStep, IntentStep, DelegateStep, RequestStep
  DEF ClientStep

-----------------------------------------------------------------------------
(* What is submitted.                                                      *)

(* One more call that was signed for.                                      *)
LEMMA FrameAdded ==
  ASSUME StackOK, UNCHANGED ledger, NEW f, FrameSigned(f),
         callStack' = Append(callStack, f)
  PROVE  StackOK'
<1>1. /\ IsStack' /\ Len(callStack) \in Nat
      /\ Len(callStack') = Len(callStack) + 1
      /\ callStack'[Len(callStack) + 1] = f
      /\ \A i \in 1..Len(callStack) : callStack'[i] = callStack[i]
  BY Pushed DEF StackOK
<1>2. ASSUME NEW i \in 1..Len(callStack')
      PROVE  FrameSigned(callStack[i])'
  <2>1. PICK x : x = callStack'[i]
    OBVIOUS
  <2>2. i \in 1..Len(callStack) \/ i = Len(callStack) + 1
    BY <1>1
  <2>3. FrameSigned(x)
    BY <1>1, <2>1, <2>2 DEF StackOK
  <2>4. FrameSigned(x)'
    BY <2>3, StaysSigned
  <2>5. QED
    BY <2>1, <2>4
<1>3. QED
  BY <1>1, <1>2 DEF StackOK

(* One call less, which was signed for.                                    *)
LEMMA FrameRemoved ==
  ASSUME StackOK, UNCHANGED ledger, callStack # <<>>, callStack' = Pop
  PROVE  StackOK' /\ FrameSigned(Top)
<1>1. /\ IsStack' /\ Len(callStack) \in Nat \ {0}
      /\ Top = callStack[Len(callStack)]
      /\ Len(callStack') = Len(callStack) - 1
      /\ \A i \in 1..(Len(callStack) - 1) : callStack'[i] = callStack[i]
  BY Popped DEF StackOK
<1>2. FrameSigned(Top)
  BY <1>1 DEF StackOK
<1>3. ASSUME NEW i \in 1..Len(callStack')
      PROVE  FrameSigned(callStack[i])'
  <2>1. PICK x : x = callStack'[i]
    OBVIOUS
  <2>2. FrameSigned(x)
    BY <1>1, <2>1 DEF StackOK
  <2>3. FrameSigned(x)'
    BY <2>2, StaysSigned
  <2>4. QED
    BY <2>1, <2>3
<1>4. QED
  BY <1>1, <1>2, <1>3 DEF StackOK

(* The ledger and what is public stand still.                              *)
LEMMA NothingPublished ==
  ASSUME ClientInv, UNCHANGED <<clientVars, signed, issued>>
  PROVE  LedgerOK' /\ KeyOK' /\ PublishedOK' /\ ledger \subseteq ledger'
<1>1. UNCHANGED <<ledger, action_index, action_key>>
  BY DEF clientVars
<1>2. QED
  BY <1>1 DEF ClientInv, LedgerOK, KeyOK, PublishedOK, SubmittedRequests,
     Submitted

(* A call begins: certificate and intent were signed here, and the session *)
(* key that is burned names this chain.                                    *)
LEMMA ExecuteKeeps ==
  ASSUME ClientInv, UNCHANGED clientVars, NEW c \in issued,
         NEW intent \in Submitted("intent", ledger), NEW data, NEW value,
         Execute(c[1], intent, App, data, value)
  PROVE  ClientInv'
<1> DEFINE session == c[1]
           frame == [session |-> session, intent |-> intent, target |-> App,
                     data |-> data, value |-> value, saved |-> Storage]
<1>0. LedgerOK /\ session \in Submitted("session", ledger)
  BY DEF ClientInv, PublishedOK
<1>1. PICK i \in ActionIndexes, n \in Counter, site \in Site :
        /\ session.session = EthAddress(DeriveSessionKey(ActionKey(i), n, site.chain))
        /\ session.parent = EthAddress(ActionKey(i)) /\ session.chainId = site.chain
  BY <1>0, SubmittedSession
<1>2. /\ session.signer \in ActionAddress /\ session.signer = session.parent
      /\ session.chainId = Here.chain /\ intent.signer = session.session
  BY ClientAssumption
  DEF Execute, ExecuteAllowed, SessionAuthorized, IntentAuthorized, ClientInv,
      Genuine, Storage
<1>3. /\ callStack' = Append(callStack, frame)
      /\ usedSessionKeys' = usedSessionKeys \cup {session.session}
      /\ UNCHANGED <<vars, executed, issued>>
  BY DEF Execute, BurnSessionKey
<1> HIDE DEF session
<1>4. session.signer # Stranger
  BY <1>2, ClientAssumption
<1>5. \E cert \in SignedFor(Here, "session", session.parent) :
        session = WithSigner(cert, session.parent)
  BY <1>0, <1>2, <1>4, SubmittedWasSigned DEF MessageKind
<1>6. session.session \in HereKeys /\ session.session \in SessionAddress
  <2>1. session.session = EthAddress(DeriveSessionKey(ActionKey(i), n, Here.chain))
    BY <1>1, <1>2
  <2>2. session.session \in HereKeys
    BY <2>1 DEF HereKeys
  <2>3. session.session \in SessionAddress
    BY <1>1 DEF SessionAddress, ActionIndexes
  <2>4. QED
    BY <2>2, <2>3
<1>7. intent.signer # Stranger
  BY <1>2, <1>6, ClientAssumption
<1>8. \E m \in SignedFor(Here, "intent", session.session) :
        intent = WithSigner(m, session.session)
  BY <1>0, <1>2, <1>7, SubmittedIntent
<1>9. FrameSigned(frame)
  BY <1>5, <1>8 DEF FrameSigned, ClientInv
<1> HIDE DEF frame
<1>10. /\ UNCHANGED ledger /\ LedgerOK' /\ KeyOK' /\ PublishedOK'
       /\ ledger \subseteq ledger'
  BY <1>3, NothingPublished DEF clientVars, vars
<1>11. StackOK'
  BY <1>3, <1>9, <1>10, FrameAdded DEF ClientInv
<1>12. Genuine(Storage)'
  <2>1. PICK store : store = Storage
    OBVIOUS
  <2>2. Genuine(store)'
    BY <1>10, <2>1, StaysGenuine DEF ClientInv
  <2>3. UNCHANGED <<storeVars, executed>>
    BY <1>3 DEF vars
  <2>4. usedSessionKeys' \subseteq HereKeys
    BY <1>3, <1>6 DEF ClientInv, Genuine, Storage
  <2>5. QED
    BY <2>1, <2>2, <2>3, <2>4
    DEF Genuine, Storage, storeVars, keyVars, recoveryVars
<1>13. QED
  BY <1>10, <1>11, <1>12 DEF ClientInv

(* A call ends, and what it put back was signed as well.                   *)
LEMMA ReturnKeeps ==
  ASSUME ClientInv, UNCHANGED clientVars, CallSucceeds \/ CallFails
  PROVE  ClientInv'
<1>1. /\ callStack # <<>> /\ callStack' = Pop /\ UNCHANGED <<signed, issued, ledger>>
  BY DEF CallSucceeds, CallFails, vars, clientVars
<1>2. LedgerOK' /\ KeyOK' /\ PublishedOK' /\ ledger \subseteq ledger'
  BY <1>1, NothingPublished
<1>3. StackOK' /\ FrameSigned(Top)
  BY <1>1, FrameRemoved DEF ClientInv
<1>4. Genuine(Storage)'
  <2>1. CASE CallSucceeds
    <3>1. PICK store : store = Storage
      OBVIOUS
    <3>2. Genuine(store)'
      BY <1>2, <3>1, StaysGenuine DEF ClientInv
    <3>3. UNCHANGED <<storeVars, usedSessionKeys>>
      BY <2>1 DEF CallSucceeds, vars
    <3>4. QED
      BY <3>1, <3>2, <3>3 DEF Genuine, Storage, storeVars, keyVars,
         recoveryVars
  <2>2. CASE CallFails
    <3>1. PICK store : store = Top.saved
      OBVIOUS
    <3>2. Genuine(store)'
      BY <1>2, <1>3, <3>1, StaysGenuine DEF FrameSigned
    <3>3. Restore(store)
      BY <2>2, <3>1 DEF CallFails
    <3>4. QED
      BY <3>2, <3>3 DEF Genuine, Storage, Restore, RestoreStore
  <2>3. QED
    BY <2>1, <2>2
<1>5. QED
  BY <1>2, <1>3, <1>4 DEF ClientInv

(* One more nonce is used, by a message that names it.                     *)
LEMMA OneMoreNonce ==
  ASSUME NEW counts \in [Address -> Nat], NEW a \in Address, NEW after,
         after = [counts EXCEPT ![a] = @ + 1], NEW named,
         \A x \in Address : \A n \in 0..(counts[x] - 1) : n \in named[x],
         counts[a] \in named[a]
  PROVE  /\ after \in [Address -> Nat]
         /\ \A x \in Address : \A n \in 0..(after[x] - 1) : n \in named[x]
<1>1. after \in [Address -> Nat]
  OBVIOUS
<1>2. ASSUME NEW x \in Address, NEW n \in 0..(after[x] - 1)
      PROVE  n \in named[x]
  <2>1. CASE x = a
    <3>1. n \in 0..(counts[a] - 1) \/ n = counts[a]
      BY <1>2, <2>1
    <3>2. QED
      BY <2>1, <3>1
  <2>2. CASE x # a
    BY <1>2, <2>2
  <2>3. QED
    BY <2>1, <2>2
<1>3. QED
  BY <1>1, <1>2

(* What a call of the store leaves alone.                                  *)
LEMMA StoreCall ==
  ASSUME ClientInv,
         UNCHANGED <<clientVars, gatewayVars, signed, authorizedKeys,
                     authorizedProvers, _guardians>>,
         Genuine(Storage)'
  PROVE  ClientInv'
<1>1. LedgerOK' /\ KeyOK' /\ PublishedOK' /\ ledger \subseteq ledger'
  BY NothingPublished DEF gatewayVars
<1>2. StackOK'
  BY <1>1, StackStays DEF ClientInv, gatewayVars
<1>3. QED
  BY <1>1, <1>2 DEF ClientInv

(* The keys with power at the contract are known.                          *)
LEMMA ActionSignerKnown ==
  ASSUME NEW a \in ActionAddress \cup {RootAddress}
  PROVE  a # Stranger /\ a \in Address
BY ClientAssumption

(* A direct intent that is admitted was signed with its nonce, so that the *)
(* nonces used up stay those of messages signed here.                      *)
LEMMA IntentConsumed ==
  ASSUME ClientInv, UNCHANGED ledger, NEW intent \in Submitted("intent", ledger),
         intent.signer \in ActionAddress, intent.nonce = nonces[intent.signer],
         nonces' = [nonces EXCEPT ![intent.signer] = @ + 1]
  PROVE  /\ nonces' \in [Address -> Nat]
         /\ \A x \in Address : \A n \in 0..(nonces'[x] - 1) :
              \E m \in SignedFor(Here, "intent", x)' : m.nonce = n
<1> DEFINE named ==
      [x \in Address |-> {m.nonce : m \in SignedFor(Here, "intent", x)}]
<1>1. /\ nonces \in [Address -> Nat]
      /\ \A a \in Address : \A n \in 0..(nonces[a] - 1) :
           \E m \in SignedFor(Here, "intent", a) : m.nonce = n
  BY DEF ClientInv, Genuine, Storage
<1>2. \E m \in SignedFor(Here, "intent", intent.signer) :
        m.nonce = nonces[intent.signer]
  BY ActionSignerKnown, SubmittedIntent DEF ClientInv
<1>3. /\ \A x \in Address : \A n \in 0..(nonces[x] - 1) : n \in named[x]
      /\ nonces[intent.signer] \in named[intent.signer]
      /\ intent.signer \in Address
  BY <1>1, <1>2, ActionSignerKnown
<1>4. /\ nonces' \in [Address -> Nat]
      /\ \A x \in Address : \A n \in 0..(nonces'[x] - 1) : n \in named[x]
  <2> HIDE DEF named
  <2>1. QED
    BY <1>1, <1>3, OneMoreNonce
<1>5. \A x \in Address : \A n \in 0..(nonces'[x] - 1) :
        \E m \in SignedFor(Here, "intent", x)' : m.nonce = n
  BY <1>4 DEF SignedFor
<1>6. QED
  BY <1>4, <1>5

(* The same of a delegation.                                               *)
LEMMA DelegationConsumed ==
  ASSUME ClientInv, UNCHANGED ledger, NEW d \in SubmittedDelegations,
         d.prover = RootAddress, d.nonce = delegationNonces[d.prover],
         delegationNonces' = [delegationNonces EXCEPT ![d.prover] = @ + 1]
  PROVE  /\ delegationNonces' \in [Address -> Nat]
         /\ \A x \in Address : \A n \in 0..(delegationNonces'[x] - 1) :
              \E m \in SignedFor(Here, "delegation", x)' : m.nonce = n
<1> DEFINE named ==
      [x \in Address |-> {m.nonce : m \in SignedFor(Here, "delegation", x)}]
<1>1. /\ delegationNonces \in [Address -> Nat]
      /\ \A a \in Address : \A n \in 0..(delegationNonces[a] - 1) :
           \E m \in SignedFor(Here, "delegation", a) : m.nonce = n
  BY DEF ClientInv, Genuine, Storage
<1>2. \E m \in SignedFor(Here, "delegation", d.prover) :
        m.nonce = delegationNonces[d.prover]
  BY ActionSignerKnown, SubmittedDelegation DEF ClientInv
<1>3. /\ \A x \in Address : \A n \in 0..(delegationNonces[x] - 1) : n \in named[x]
      /\ delegationNonces[d.prover] \in named[d.prover] /\ d.prover \in Address
  BY <1>1, <1>2, ActionSignerKnown
<1>4. /\ delegationNonces' \in [Address -> Nat]
      /\ \A x \in Address : \A n \in 0..(delegationNonces'[x] - 1) : n \in named[x]
  <2> HIDE DEF named
  <2>1. QED
    BY <1>1, <1>3, OneMoreNonce
<1>5. \A x \in Address : \A n \in 0..(delegationNonces'[x] - 1) :
        \E m \in SignedFor(Here, "delegation", x)' : m.nonce = n
  BY <1>4 DEF SignedFor
<1>6. QED
  BY <1>4, <1>5

(* validateIntent preserves the invariant.                                 *)
LEMMA ValidateKeeps ==
  ASSUME ClientInv, UNCHANGED <<clientVars, gatewayVars>>,
         NEW intent \in Submitted("intent", ledger), NEW value,
         ValidateIntent(intent, value)
  PROVE  ClientInv'
<1>1. /\ intent.signer \in ActionAddress /\ intent.nonce = nonces[intent.signer]
      /\ nonces' = [nonces EXCEPT ![intent.signer] = @ + 1]
      /\ UNCHANGED <<now, signed, authorizedKeys, delegationNonces, _gateOpen,
                     recoveryVars, authorizedProvers, _guardians, recoveryNonces,
                     identityState, sessionEpoch>>
  BY DEF ValidateIntent, ConsumeNonce, ClientInv, Genuine, Storage
<1>2. UNCHANGED <<ledger, usedSessionKeys>>
  BY DEF clientVars, gatewayVars
<1>3. Genuine(Storage)'
  <2>1. /\ nonces' \in [Address -> Nat]
        /\ \A x \in Address : \A n \in 0..(nonces'[x] - 1) :
             \E m \in SignedFor(Here, "intent", x)' : m.nonce = n
    BY <1>1, <1>2, IntentConsumed
  <2>2. PICK store : store = Storage
    OBVIOUS
  <2>3. Genuine(store)'
    BY <1>2, <2>2, StaysGenuine DEF ClientInv
  <2>4. QED
    BY <1>1, <1>2, <2>1, <2>2, <2>3 DEF Genuine, Storage, recoveryVars
<1>4. QED
  BY <1>1, <1>3, StoreCall

(* validateDelegatedIntent preserves it: a delegation and an intent are    *)
(* used up at once.                                                        *)
LEMMA DelegatedKeeps ==
  ASSUME ClientInv, UNCHANGED <<clientVars, gatewayVars>>,
         NEW d \in SubmittedDelegations,
         NEW intent \in Submitted("intent", ledger), NEW value,
         ValidateDelegatedIntent(d, intent, value)
  PROVE  ClientInv'
<1>1. /\ d.prover = RootAddress /\ d.nonce = delegationNonces[d.prover]
      /\ intent.signer = d.delegate /\ intent.nonce = nonces[intent.signer]
      /\ delegationNonces' = [delegationNonces EXCEPT ![d.prover] = @ + 1]
      /\ nonces' = [nonces EXCEPT ![intent.signer] = @ + 1]
      /\ UNCHANGED <<now, signed, authorizedKeys, recoveryVars,
                     authorizedProvers, _guardians, recoveryNonces,
                     identityState, sessionEpoch>>
  BY DEF ValidateDelegatedIntent, ConsumeNonce, ClientInv, Genuine, Storage
<1>2. UNCHANGED <<ledger, usedSessionKeys>>
  BY DEF clientVars, gatewayVars
<1>3. intent.signer \in ActionAddress
  BY <1>1, SubmittedDelegation DEF ClientInv
<1>4. Genuine(Storage)'
  <2>1. /\ nonces' \in [Address -> Nat]
        /\ \A x \in Address : \A n \in 0..(nonces'[x] - 1) :
             \E m \in SignedFor(Here, "intent", x)' : m.nonce = n
    BY <1>1, <1>2, <1>3, IntentConsumed
  <2>2. /\ delegationNonces' \in [Address -> Nat]
        /\ \A x \in Address : \A n \in 0..(delegationNonces'[x] - 1) :
             \E m \in SignedFor(Here, "delegation", x)' : m.nonce = n
    BY <1>1, <1>2, DelegationConsumed
  <2>3. PICK store : store = Storage
    OBVIOUS
  <2>4. Genuine(store)'
    BY <1>2, <2>3, StaysGenuine DEF ClientInv
  <2>5. QED
    BY <1>1, <1>2, <2>1, <2>2, <2>3, <2>4 DEF Genuine, Storage, recoveryVars
<1>5. QED
  BY <1>1, <1>4, StoreCall

(* An approval is a request that a guardian signed for this deployment.    *)
LEMMA ApprovalKeeps ==
  ASSUME ClientInv, UNCHANGED <<clientVars, gatewayVars>>, NEW req \in signed,
         \/ InitiateRecovery(req.oldRoot, req.newRoot, req)
         \/ SupportRecovery(req.oldRoot, req)
  PROVE  ClientInv'
<1>1. /\ req.oldRoot = RootAddress /\ req.newRoot = NewRoot
      /\ req.signer # Stranger =>
           \E m \in SignedFor(Here, "recovery", req.signer) :
             m.oldRoot = RootAddress /\ m.newRoot = NewRoot
  BY SubmittedRequest DEF ClientInv, PublishedOK
<1>2. req.signer # Stranger
  <2>1. req.signer \in Guardians(_guardians[RootAddress])
    BY <1>1 DEF InitiateRecovery, SupportRecovery, IsGuardian
  <2>2. Stranger \notin Guardians(_guardians[RootAddress])
    BY ActionSignerKnown DEF ClientInv, Genuine, Storage
  <2>3. QED
    BY <2>1, <2>2
<1>3. /\ recoveryApproved' =
           [recoveryApproved EXCEPT ![RootAddress] = @ \cup {req.signer}]
      /\ \/ pendingNewRoot' = [pendingNewRoot EXCEPT ![RootAddress] = NewRoot]
         \/ pendingNewRoot' = pendingNewRoot /\ pendingNewRoot[RootAddress] = NewRoot
      /\ UNCHANGED <<now, signed, keyVars, authorizedProvers, _guardians>>
  BY <1>1 DEF InitiateRecovery, SupportRecovery, IsCurrentRequest
<1>4. UNCHANGED <<ledger, usedSessionKeys>>
  BY DEF clientVars, gatewayVars
<1>5. /\ DOMAIN pendingNewRoot = Address /\ DOMAIN recoveryApproved = Address
      /\ \A root \in Address : \A g \in recoveryApproved[root] :
           /\ pendingNewRoot[root] = NewRoot
           /\ \E m \in SignedFor(Here, "recovery", g) :
                m.oldRoot = root /\ m.newRoot = pendingNewRoot[root]
  BY DEF ClientInv, Genuine, Storage
<1>6. /\ DOMAIN pendingNewRoot' = Address /\ DOMAIN recoveryApproved' = Address
      /\ pendingNewRoot'[RootAddress] = NewRoot
      /\ recoveryApproved'[RootAddress] = recoveryApproved[RootAddress] \cup {req.signer}
      /\ \A root \in Address \ {RootAddress} :
           /\ pendingNewRoot'[root] = pendingNewRoot[root]
           /\ recoveryApproved'[root] = recoveryApproved[root]
  BY <1>3, <1>5, ActionSignerKnown
<1>7. ASSUME NEW root \in Address, NEW g \in recoveryApproved'[root]
      PROVE  /\ pendingNewRoot'[root] = NewRoot
             /\ \E m \in SignedFor(Here, "recovery", g)' :
                  m.oldRoot = root /\ m.newRoot = pendingNewRoot'[root]
  <2>1. SignedFor(Here, "recovery", g) \subseteq SignedFor(Here, "recovery", g)'
    BY <1>4, MoreSigned
  <2>2. CASE root = RootAddress
    <3>1. pendingNewRoot'[root] = NewRoot
      BY <1>6, <2>2
    <3>2. CASE g = req.signer
      BY <1>1, <1>2, <2>1, <2>2, <3>1, <3>2
    <3>3. CASE g \in recoveryApproved[root]
      BY <1>5, <2>1, <3>1, <3>3
    <3>4. QED
      BY <1>6, <1>7, <2>2, <3>1, <3>2, <3>3
  <2>3. CASE root # RootAddress
    BY <1>5, <1>6, <1>7, <2>1, <2>3
  <2>4. QED
    BY <2>2, <2>3
<1>8. Genuine(Storage)'
  <2>1. PICK store : store = Storage
    OBVIOUS
  <2>2. Genuine(store)'
    BY <1>4, <2>1, StaysGenuine DEF ClientInv
  <2>3. /\ store.authorizedKeys = authorizedKeys'
        /\ store.authorizedProvers = authorizedProvers'
        /\ store.guardians = _guardians'
        /\ store.nonces = nonces' /\ store.delegationNonces = delegationNonces'
    BY <1>3, <2>1 DEF Storage, keyVars
  <2> DEFINE after == Storage'
  <2>4. /\ after.authorizedKeys = authorizedKeys'
        /\ after.authorizedProvers = authorizedProvers'
        /\ after.guardians = _guardians'
        /\ after.nonces = nonces' /\ after.delegationNonces = delegationNonces'
        /\ after.pendingNewRoot = pendingNewRoot'
        /\ after.recoveryApproved = recoveryApproved'
        /\ after.usedSessionKeys = usedSessionKeys'
    BY DEF Storage
  <2> HIDE DEF after
  <2>5. store.usedSessionKeys = usedSessionKeys'
    BY <1>4, <2>1 DEF Storage
  <2>6. QED
    BY <1>6, <1>7, <2>2, <2>3, <2>4, <2>5 DEF Genuine, after
<1>9. QED
  BY <1>3, <1>8, StoreCall DEF keyVars

(* Every step preserves the invariant.                                     *)
LEMMA ClientInvStep ==
  ASSUME ClientInv, [CNext]_cvars
  PROVE  ClientInv'
<1>1. CASE ClientStep
  BY <1>1, ClientStepKeeps
<1>2. CASE Submission /\ UNCHANGED clientVars
  BY <1>2, ExecuteKeeps, ReturnKeeps, ValidateKeeps, DelegatedKeeps,
     ApprovalKeeps
  DEF Submission
<1>3. CASE UNCHANGED cvars
  <2>1. UNCHANGED <<gvars, ledger>> /\ KeyOK'
    BY <1>3 DEF cvars, clientVars, ClientInv, KeyOK
  <2>2. QED
    BY <2>1, QuietStep
<1>4. QED
  BY <1>1, <1>2, <1>3 DEF CNext

(* So it holds in every state that is reached.                             *)
LEMMA ClientInvariant == CSpec => []ClientInv
BY InitialInv, ClientInvStep, PTL DEF CSpec

-----------------------------------------------------------------------------
(* Library, browser interface and contract agree on every message: what    *)
(* was signed for a deployment recovers, by both, to the key that signed   *)
(* it (recover_signer and its kin, _recover of the contracts).             *)
THEOREM SignaturesAgree == CSpec => []SignaturesVerify
<1>1. ClientInv => SignaturesVerify
  BY LedgerVerifies DEF ClientInv
<1>2. QED
  BY <1>1, ClientInvariant, PTL

(* Nothing takes effect here that was not signed for this very deployment, *)
(* in whatever combination messages and signatures are submitted.          *)
THEOREM NothingForeignTakesEffect == CSpec => []OnlyWhatWasSignedHere
<1>1. ASSUME ClientInv
      PROVE  OnlyWhatWasSignedHere
  <2>1. ASSUME NEW i \in DOMAIN callStack
        PROVE  FrameSigned(callStack[i])
    <3>1. i \in 1..Len(callStack)
      BY <1>1, <2>1 DEF ClientInv, StackOK, IsStack
    <3>2. QED
      BY <1>1, <3>1 DEF ClientInv, StackOK
  <2>2. QED
    BY <1>1, <2>1
    DEF OnlyWhatWasSignedHere, ClientInv, Genuine, Storage, FrameSigned
<1>2. QED
  BY <1>1, ClientInvariant, PTL

(* All certificates for a session key that is burned here are for this     *)
(* chain (derive_session_key).                                             *)
THEOREM BurnedKeysNameThisChain == CSpec => []BurnedKeysAreOfThisChain
<1>1. ASSUME ClientInv
      PROVE  BurnedKeysAreOfThisChain
  <2> SUFFICES ASSUME NEW k \in usedSessionKeys, NEW e \in ledger,
                      e.kind = "session", e.message.session = k
               PROVE  e.site.chain = Here.chain
    BY DEF BurnedKeysAreOfThisChain
  <2>1. PICK i1, n1 : k = EthAddress(DeriveSessionKey(ActionKey(i1), n1, Here.chain))
    BY <1>1 DEF ClientInv, Genuine, Storage, HereKeys
  <2>2. PICK i2, n2, selector :
          e.message = Certificate(ActionKey(i2), n2, e.site, selector)
    BY <1>1 DEF ClientInv, LedgerOK, IsEntry, IsMessage
  <2>3. k = EthAddress(DeriveSessionKey(ActionKey(i2), n2, e.site.chain))
    BY <2>2, CertificateFields
  <2>4. <<ActionKey(i1), n1, Here.chain>> = <<ActionKey(i2), n2, e.site.chain>>
    BY <2>1, <2>3 DEF EthAddress, DeriveSessionKey
  <2>5. QED
    BY <2>4
<1>2. QED
  BY <1>1, ClientInvariant, PTL

-----------------------------------------------------------------------------
(* The keys are accounted for as in the gateway by itself, although the    *)
(* certificates are those the client signs as it goes.                     *)
SpentHere ==
  /\ KeysSpentOnce
  /\ executed \in [SessionKey -> Nat]
  /\ \A i \in 1..Len(callStack) :
       callStack[i].saved.executed \in [SessionKey -> Nat]

(* A call under way is under a key that the client derived.                *)
LEMMA FrameKeyDerived ==
  ASSUME ClientInv, NEW i \in 1..Len(callStack)
  PROVE  KeyOf(callStack[i]) \in SessionKey
<1>1. PICK f : f = callStack[i]
  OBVIOUS
<1>2. FrameSigned(f)
  BY <1>1 DEF ClientInv, StackOK
<1>3. PICK cert \in SignedFor(Here, "session", f.session.parent) :
        f.session = WithSigner(cert, f.session.parent)
  BY <1>2 DEF FrameSigned
<1>4. PICK e \in ledger : e.kind = "session" /\ e.message = cert
  BY <1>3 DEF SignedFor
<1>5. PICK j \in ActionIndexes, n \in Counter, selector \in Selector :
        cert = Certificate(ActionKey(j), n, e.site, selector)
  BY <1>4 DEF ClientInv, LedgerOK, IsEntry, IsMessage
<1>6. e.site \in Site /\ "session" \in DOMAIN cert \ {"signer"}
  BY <1>4, <1>5, MessageDomains DEF ClientInv, LedgerOK, IsEntry
<1>7. f.session.session = cert.session
  BY <1>3, <1>6, SignerAdded
<1>8. cert.session \in SessionAddress
  BY <1>5, <1>6, CertificateFields DEF SessionAddress, ActionIndexes
<1>9. QED
  BY <1>1, <1>7, <1>8, ClientAssumption DEF KeyOf

(* A call begins, under a key that the client derived and nobody used.     *)
LEMMA ExecuteSpends ==
  ASSUME ClientInv, SpentHere, NEW c \in issued,
         NEW intent, NEW data, NEW value,
         Execute(c[1], intent, App, data, value)
  PROVE  SpentHere'
<1> DEFINE frame == [session |-> c[1], intent |-> intent, target |-> App,
                     data |-> data, value |-> value, saved |-> Storage]
<1>1. c[1].session \in SessionKey
  <2>1. c[1] \in Submitted("session", ledger) /\ LedgerOK
    BY DEF ClientInv, PublishedOK
  <2>2. c[1].session \in SessionAddress
    BY <2>1, SubmittedSession DEF SessionAddress, ActionIndexes
  <2>3. QED
    BY <2>2, ClientAssumption
<1>2. /\ callStack' = Append(callStack, frame)
      /\ usedSessionKeys' = usedSessionKeys \cup {c[1].session}
      /\ executed' = executed /\ c[1].session \notin usedSessionKeys
  BY DEF Execute, BurnSessionKey, ExecuteAllowed, SessionAuthorized
<1>3. /\ KeyOf(frame) = c[1].session
      /\ frame.saved.usedSessionKeys = usedSessionKeys
      /\ frame.saved.executed = executed
  BY DEF KeyOf, Storage
<1> HIDE DEF frame
<1>4. IsStack /\ executed \in [SessionKey -> Nat] /\ KeysSpentOnce
  BY DEF ClientInv, StackOK, SpentHere
<1>5. KeysSpentOnce'
  BY <1>1, <1>2, <1>3, <1>4, SpentByCall
<1>6. /\ Len(callStack) \in Nat /\ Len(callStack') = Len(callStack) + 1
      /\ callStack'[Len(callStack) + 1] = frame
      /\ \A i \in 1..Len(callStack) : callStack'[i] = callStack[i]
  BY <1>2, <1>4, Pushed
<1>7. ASSUME NEW i \in 1..Len(callStack')
      PROVE  callStack'[i].saved.executed \in [SessionKey -> Nat]
  <2>1. i \in 1..Len(callStack) \/ i = Len(callStack) + 1
    BY <1>6
  <2>2. QED
    BY <1>3, <1>4, <1>6, <2>1 DEF SpentHere
<1>8. QED
  BY <1>2, <1>4, <1>5, <1>7 DEF SpentHere

(* A call ends.                                                            *)
LEMMA ReturnSpends ==
  ASSUME ClientInv, SpentHere, CallSucceeds \/ CallFails
  PROVE  SpentHere'
<1>1. /\ IsStack /\ executed \in [SessionKey -> Nat] /\ KeysSpentOnce
      /\ callStack # <<>> /\ callStack' = Pop
  BY DEF ClientInv, StackOK, SpentHere, CallSucceeds, CallFails
<1>2. KeysSpentOnce'
  BY <1>1, FrameKeyDerived, SpentByReturn
<1>3. /\ Len(callStack) \in Nat \ {0} /\ Top = callStack[Len(callStack)]
      /\ Len(callStack') = Len(callStack) - 1
      /\ \A i \in 1..(Len(callStack) - 1) : callStack'[i] = callStack[i]
  BY <1>1, Popped
<1>4. executed' \in [SessionKey -> Nat]
  <2>1. CASE CallSucceeds
    <3>1. PICK k \in SessionKey : executed' = [executed EXCEPT ![k] = @ + 1]
      <4>1. Len(callStack) \in 1..Len(callStack)
        BY <1>3
      <4>2. KeyOf(Top) \in SessionKey
        BY <1>3, <4>1, FrameKeyDerived
      <4>3. executed' = [executed EXCEPT ![KeyOf(Top)] = @ + 1]
        BY <2>1 DEF CallSucceeds, KeyOf
      <4>4. QED
        BY <4>2, <4>3
    <3>2. QED
      BY <1>1, <3>1
  <2>2. CASE CallFails
    <3>1. executed' = callStack[Len(callStack)].saved.executed
      BY <1>3, <2>2 DEF CallFails, Restore
    <3>2. Len(callStack) \in 1..Len(callStack)
      BY <1>3
    <3>3. QED
      BY <3>1, <3>2 DEF SpentHere
  <2>3. QED
    BY <2>1, <2>2
<1>5. \A i \in 1..Len(callStack') :
        callStack'[i].saved.executed \in [SessionKey -> Nat]
  BY <1>3 DEF SpentHere
<1>6. QED
  BY <1>2, <1>4, <1>5 DEF SpentHere

(* Deriving, restarting and signing leave the contract alone.              *)
LEMMA ClientLeavesContract ==
  ASSUME ClientStep
  PROVE  UNCHANGED <<usedSessionKeys, executed, callStack>>
<1>1. CASE NextActionKey \/ Restart
  BY <1>1 DEF NextActionKey, Restart, gvars, gatewayVars
<1>2. ASSUME NEW kind, NEW message, NEW site, NEW key, NEW sig,
             Publish(kind, message, site, key, sig)
      PROVE  UNCHANGED <<usedSessionKeys, executed, callStack>>
  BY <1>2 DEF Publish
<1>3. ASSUME NEW i, NEW site, SupportOldRoot(i, site)
      PROVE  UNCHANGED <<usedSessionKeys, executed, callStack>>
  BY <1>2, <1>3 DEF SupportOldRoot
<1>4. ASSUME NEW n, NEW site, NEW selector, CertifySession(n, site, selector)
      PROVE  UNCHANGED <<usedSessionKeys, executed, callStack>>
  BY <1>2, <1>4 DEF CertifySession
<1>5. ASSUME NEW n, NEW site, NEW selector, NEW length,
             CertifyInBrowser(n, site, selector, length)
      PROVE  UNCHANGED <<usedSessionKeys, executed, callStack>>
  BY <1>2, <1>5 DEF CertifyInBrowser
<1>6. ASSUME NEW n, NEW site, NEW selector, SignSessionIntent(n, site, selector)
      PROVE  UNCHANGED <<usedSessionKeys, executed, callStack>>
  BY <1>2, <1>6 DEF SignSessionIntent
<1>7. ASSUME NEW n, NEW site, NEW selector, SignDirectIntent(n, site, selector)
      PROVE  UNCHANGED <<usedSessionKeys, executed, callStack>>
  BY <1>2, <1>7 DEF SignDirectIntent
<1>8. ASSUME NEW n, NEW site, NEW selector, Delegate(n, site, selector)
      PROVE  UNCHANGED <<usedSessionKeys, executed, callStack>>
  BY <1>2, <1>8 DEF Delegate
<1>9. QED
  BY <1>1, <1>3, <1>4, <1>5, <1>6, <1>7, <1>8 DEF ClientStep

(* Every step of client and contract keeps the account of keys.            *)
LEMMA SpentHereStep ==
  ASSUME ClientInv, SpentHere, [CNext]_cvars
  PROVE  SpentHere'
<1>1. CASE UNCHANGED <<usedSessionKeys, executed, callStack>>
  BY <1>1 DEF SpentHere, KeysSpentOnce
<1>2. CASE ClientStep
  BY <1>1, <1>2, ClientLeavesContract
<1>3. CASE Submission
  BY <1>1, <1>3, ExecuteSpends, ReturnSpends DEF Submission, gatewayVars
<1>4. QED
  BY <1>1, <1>2, <1>3 DEF CNext, cvars, gvars, gatewayVars

(* So the account holds of the client's contract.                          *)
LEMMA SpentHereInvariant == CSpec => [](ClientInv /\ SpentHere)
<1>1. ASSUME CInit
      PROVE  SpentHere
  <2>1. Len(callStack) = 0 /\ \A k \in SessionKey : executed[k] = 0
    BY <1>1 DEF CInit
  <2>2. KeysSpentOnce
    BY <1>1, <2>1 DEF CInit, KeysSpentOnce, SpentOnce
  <2>3. QED
    BY <1>1, <2>1, <2>2 DEF CInit, SpentHere
<1>2. ClientInv /\ SpentHere /\ [CNext]_cvars => SpentHere'
  BY SpentHereStep
<1>3. QED
  BY <1>1, <1>2, ClientInvariant, PTL DEF CSpec

(* A session key backs one call, whatever the client signs, before and     *)
(* after it is opened again, and in whatever combination it is submitted.  *)
THEOREM ClientKeysSingleUse == CSpec => []SessionKeySingleUse
<1>1. ClientInv /\ SpentHere => SessionKeySingleUse
  BY SpentIsSingleUse DEF ClientInv, StackOK, SpentHere
<1>2. QED
  BY <1>1, SpentHereInvariant, PTL

(* And it is burned for that call only: a submission that fails costs the  *)
(* client no key.                                                          *)
THEOREM ClientKeysBurned == CSpec => []BurnedIffExecuted
<1>1. ClientInv /\ SpentHere => BurnedIffExecuted
  BY SpentIsBurned DEF ClientInv, StackOK, SpentHere
<1>2. QED
  BY <1>1, SpentHereInvariant, PTL

-----------------------------------------------------------------------------
(* The caps of what the client signs are numbers, whoever signs.           *)
LEMMA SubmittedCaps ==
  ASSUME LedgerOK, NEW kind \in {"session", "intent"},
         NEW c \in Submitted(kind, ledger)
  PROVE  c.maxValue \in Nat
<1>1. PICK e \in ledger :
        e.kind = kind /\ \E signer : c = WithSigner(e.message, signer)
  BY SubmittedIs
<1>2. \/ \E key, n, selector : e.message = Certificate(key, n, e.site, selector)
      \/ \E n, selector : e.message = IntentFor(e.site, selector, n)
  BY <1>1 DEF LedgerOK, IsEntry, IsMessage
<1>3. "maxValue" \in DOMAIN e.message \ {"signer"} /\ e.message.maxValue = 1
  <2>1. CASE \E key, n, selector : e.message = Certificate(key, n, e.site, selector)
    <3>1. PICK key, n, selector : e.message = Certificate(key, n, e.site, selector)
      BY <2>1
    <3>2. Certificate(key, n, e.site, selector).maxValue = 1
      BY DEF Certificate
    <3>3. QED
      BY <3>1, <3>2, MessageDomains
  <2>2. CASE \E n, selector : e.message = IntentFor(e.site, selector, n)
    <3>1. PICK n, selector : e.message = IntentFor(e.site, selector, n)
      BY <2>2
    <3>2. IntentFor(e.site, selector, n).maxValue = 1
      BY DEF IntentFor
    <3>3. QED
      BY <3>1, <3>2, MessageDomains
  <2>3. QED
    BY <1>2, <2>1, <2>2
<1>4. c.maxValue = 1
  BY <1>1, <1>3, SignerAdded
<1>5. QED
  BY <1>4

(* The contract makes no call that goes beyond what the client signed for  *)
(* it: target, selector, calldata, both caps, expirations and epoch, in    *)
(* whatever combination certificates and intents are submitted.            *)
THEOREM ClientCallsWithin == CSpec => []CallsWithinCertificate
<1>1. CInit => CallsWithinCertificate
  BY DEF CInit, CallsWithinCertificate
<1>2. ASSUME ClientInv, CallsWithinCertificate, [CNext]_cvars
      PROVE  CallsWithinCertificate'
  <2>1. IsStack /\ LedgerOK
    BY <1>2 DEF ClientInv, StackOK
  <2>2. CASE UNCHANGED callStack /\ (now' = now \/ callStack = <<>>)
    BY <1>2, <2>2, StillWithin
  <2>3. CASE CallSucceeds \/ CallFails
    BY <1>2, <2>1, <2>3, OthersStayWithin DEF CallSucceeds, CallFails, vars
  <2>4. ASSUME NEW c \in issued, NEW intent \in Submitted("intent", ledger),
               NEW data \in CallData, NEW value \in CallValue,
               Execute(c[1], intent, App, data, value)
        PROVE  CallsWithinCertificate'
    <3>1. c[1] \in Submitted("session", ledger)
      BY <1>2 DEF ClientInv, PublishedOK
    <3>2. c[1].maxValue \in Nat /\ intent.maxValue \in Nat
      BY <2>1, <3>1, SubmittedCaps
    <3>3. value \in Nat
      BY MessageAssumption
    <3>4. QED
      BY <1>2, <2>1, <2>4, <3>2, <3>3, CallIsWithin
  <2>5. CASE ClientStep
    BY <2>2, <2>5, ClientLeavesContract DEF ClientStep
  <2>6. CASE Submission
    BY <2>2, <2>3, <2>4, <2>6
    DEF Submission, gatewayVars, ValidateIntent, ValidateDelegatedIntent,
        InitiateRecovery, SupportRecovery
  <2>7. QED
    BY <1>2, <2>2, <2>5, <2>6 DEF CNext, cvars, gvars, gatewayVars, vars
<1>3. QED
  BY <1>1, <1>2, ClientInvariant, PTL DEF CSpec

=============================================================================
