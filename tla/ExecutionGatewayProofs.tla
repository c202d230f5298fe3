----------------------- MODULE ExecutionGatewayProofs -----------------------
(***************************************************************************)
(* Proofs about the execution gateway, for every value of its constants:   *)
(* calls nested to any depth, with any of them failing.                    *)
(***************************************************************************)
EXTENDS ExecutionGateway, IdentityStoreProofs, SequenceTheorems

(* What a frame saves has the types of the storage.                        *)
SavedStorage ==
  [authorizedKeys : SUBSET Address, nonces : [Address -> Nat],
   delegationNonces : [Address -> Nat], gateOpen : BOOLEAN,
   pendingNewRoot : [Address -> Address \cup {NoAddress}],
   recoveryApprovals : [Address -> Nat], recoveryInitiatedAt : [Address -> Nat],
   recoveryApproved : [Address -> SUBSET Address],
   authorizedProvers : SUBSET Address, guardians : [Address -> Seq(Address)],
   recoveryNonces : [Address -> Nat], identityState : [Address -> IdentityState],
   sessionEpoch : [Address -> Nat], usedSessionKeys : SUBSET Address,
   executed : [SessionKey -> Nat]]

(* A call under way, with its types.                                       *)
Frame ==
  [session : Session, intent : Intent, target : Address, data : CallData,
   value : CallValue, saved : SavedStorage]

(* The types, those of what may be put back included.                      *)
GatewayTyped == GTypeOK /\ callStack \in Seq(Frame)

(* The types of a certificate.                                             *)
LEMMA SessionKeysAreAddresses ==
  ASSUME NEW session \in Session
  PROVE  /\ session.session \in SessionKey /\ session.session \in Address
         /\ session.parent \in Address /\ session.maxValue \in Nat
BY GatewayAssumption DEF IsSession, SessionKey

(* What a new frame would save has its type.                               *)
LEMMA StorageTyped ==
  ASSUME GatewayTyped
  PROVE  Storage \in SavedStorage
BY DEF GatewayTyped, GTypeOK, TypeOK, Storage, SavedStorage

(* The innermost frame, and what is left when it is popped.                *)
LEMMA TopAndPop ==
  ASSUME GatewayTyped, callStack # <<>>
  PROVE  /\ Len(callStack) \in Nat \ {0}
         /\ Top \in Frame /\ Top = callStack[Len(callStack)]
         /\ Pop \in Seq(Frame) /\ Len(Pop) = Len(callStack) - 1
         /\ \A i \in 1..(Len(callStack) - 1) : Pop[i] = callStack[i]
<1>1. callStack \in Seq(Frame) /\ Len(callStack) \in Nat \ {0}
  BY DEF GatewayTyped
<1>2. Len(callStack) \in 1..Len(callStack) /\ Len(callStack) - 1 \in 0..Len(callStack)
  BY <1>1
<1>3. Top \in Frame /\ Top = callStack[Len(callStack)]
  BY <1>1, <1>2 DEF Top
<1>4. /\ Pop \in Seq(Frame) /\ Len(Pop) = Len(callStack) - 1
      /\ \A i \in 1..(Len(callStack) - 1) : Pop[i] = callStack[i]
  <2> DEFINE n == Len(callStack) - 1
  <2>1. n \in Nat /\ n \in 0..Len(callStack) /\ n - 1 + 1 = n /\ 1 \in 1..(Len(callStack) + 1)
    BY <1>1
  <2>2. /\ SubSeq(callStack, 1, n) \in Seq(Frame)
        /\ Len(SubSeq(callStack, 1, n)) = IF 1 <= n THEN n - 1 + 1 ELSE 0
        /\ \A i \in 1..(n - 1 + 1) : SubSeq(callStack, 1, n)[i] = callStack[1 + i - 1]
    BY <1>1, <2>1, SubSeqProperties
  <2>3. \A i \in 1..n : 1 + i - 1 = i
    BY <2>1
  <2>4. QED
    BY <2>1, <2>2, <2>3 DEF Pop
<1>5. QED
  BY <1>1, <1>3, <1>4

(* What does not touch the gateway is a step of the store.                 *)
LEMMA StoreStep ==
  ASSUME NEW callers \in SUBSET Address,
         (Environment \/ Calls(callers))
  PROVE  Next
<1>1. Environment \/ Calls(Address)
  BY DEF Calls, Administration, RecoveryEnd
<1>2. QED
  BY <1>1 DEF Next

(* Whoever calls is an address.                                            *)
LEMMA CallersAreAddresses == Callers \in SUBSET Address
BY GatewayAssumption DEF Callers

(* What GTypeOK says of frames follows from the type of the stack.         *)
LEMMA FramesTyped ==
  ASSUME NEW stack \in Seq(Frame)
  PROVE  \A i \in DOMAIN stack : stack[i] \in Frame /\ IsFrame(stack[i])
<1> SUFFICES ASSUME NEW i \in DOMAIN stack
             PROVE  stack[i] \in Frame /\ IsFrame(stack[i])
  OBVIOUS
<1>1. stack[i] \in Frame
  OBVIOUS
<1>2. QED
  BY <1>1 DEF Frame, IsFrame

(* A step of the store alone.                                              *)
LEMMA GatewayUntouched ==
  ASSUME GatewayTyped, [Next]_vars, UNCHANGED gatewayVars
  PROVE  GatewayTyped'
<1>1. TypeOK'
  BY TypeStep DEF GatewayTyped, GTypeOK
<1>2. QED
  BY <1>1 DEF GatewayTyped, GTypeOK, gatewayVars, IsFrame

(* Every step keeps the types.                                             *)
LEMMA GatewayTypeStep ==
  ASSUME GatewayTyped, [GNext]_gvars
  PROVE  GatewayTyped'
<1>2. ASSUME NEW callers \in SUBSET Address, Environment \/ Calls(callers),
             UNCHANGED gatewayVars
      PROVE  GatewayTyped'
  BY <1>2, StoreStep, GatewayUntouched
<1>3. ASSUME NEW session \in Session, IssueSession(session)
      PROVE  GatewayTyped'
  <2>1. sessionEpoch[session.parent] \in Nat
    BY SessionKeysAreAddresses DEF GatewayTyped, GTypeOK, TypeOK
  <2>2. TypeOK'
    BY <1>3, TypeStep DEF IssueSession, GatewayTyped, GTypeOK
  <2>3. issued' \subseteq Session \X Nat
    BY <1>3, <2>1 DEF IssueSession, GatewayTyped, GTypeOK
  <2>4. QED
    BY <1>3, <2>2, <2>3 DEF IssueSession, GatewayTyped, GTypeOK, IsFrame
<1>4. ASSUME NEW session \in Session, NEW intent \in Intent,
             NEW target \in Address, NEW data \in CallData,
             NEW value \in CallValue,
             Execute(session, intent, target, data, value)
      PROVE  GatewayTyped'
  <2> DEFINE frame == [session |-> session, intent |-> intent,
                       target |-> target, data |-> data, value |-> value,
                       saved |-> Storage]
  <2>1. frame \in Frame
    BY StorageTyped DEF Frame
  <2>2. callStack' = Append(callStack, frame)
    BY <1>4 DEF Execute
  <2> HIDE DEF frame
  <2>3. callStack' \in Seq(Frame)
    BY <2>1, <2>2 DEF GatewayTyped
  <2>4. TypeOK'
    BY <1>4, TypeStep DEF Execute, GatewayTyped, GTypeOK
  <2>5. usedSessionKeys' \subseteq Address
    BY <1>4, SessionKeysAreAddresses
    DEF Execute, BurnSessionKey, GatewayTyped, GTypeOK
  <2>6. \A i \in DOMAIN callStack' : IsFrame(callStack'[i])
    BY <2>3, FramesTyped
  <2>7. QED
    BY <1>4, <2>3, <2>4, <2>5, <2>6 DEF Execute, GatewayTyped, GTypeOK
<1>5. CASE CallSucceeds
  <2>1. Top.session.session \in SessionKey
    BY <1>5, TopAndPop, SessionKeysAreAddresses DEF CallSucceeds, Frame
  <2>2. executed' \in [SessionKey -> Nat]
    BY <1>5, <2>1 DEF CallSucceeds, GatewayTyped, GTypeOK
  <2>3. callStack' \in Seq(Frame)
    BY <1>5, TopAndPop DEF CallSucceeds
  <2>4. \A i \in DOMAIN callStack' : IsFrame(callStack'[i])
    BY <2>3, FramesTyped
  <2>5. TypeOK'
    BY <1>5, TypeStep DEF CallSucceeds, GatewayTyped, GTypeOK
  <2>6. QED
    BY <1>5, <2>2, <2>3, <2>4, <2>5 DEF CallSucceeds, GatewayTyped, GTypeOK
<1>6. CASE CallFails
  <2>1. Top.saved \in SavedStorage
    BY <1>6, TopAndPop DEF CallFails, Frame
  <2>2. TypeOK'
    BY <1>6, <2>1
    DEF CallFails, Restore, RestoreStore, SavedStorage, GatewayTyped, GTypeOK,
        TypeOK
  <2>3. usedSessionKeys' \subseteq Address /\ executed' \in [SessionKey -> Nat]
    BY <1>6, <2>1 DEF CallFails, Restore, SavedStorage
  <2>4. callStack' \in Seq(Frame)
    BY <1>6, TopAndPop DEF CallFails
  <2>5. \A i \in DOMAIN callStack' : IsFrame(callStack'[i])
    BY <2>4, FramesTyped
  <2>6. QED
    BY <1>6, <2>2, <2>3, <2>4, <2>5 DEF CallFails, GatewayTyped, GTypeOK
<1>7. CASE UNCHANGED gvars
  BY <1>7, GatewayUntouched DEF gvars
<1>8. QED
  BY <1>2, <1>3, <1>4, <1>5, <1>6, <1>7, CallersAreAddresses DEF GNext, Calls

(* The initial state has them.                                             *)
LEMMA GatewayInitTyped ==
  ASSUME GInit
  PROVE  GatewayTyped
<1>1. TypeOK
  BY InitTyped DEF GInit
<1>2. callStack \in Seq(Frame) /\ Len(callStack) = 0
  BY DEF GInit
<1>3. executed \in [SessionKey -> Nat]
  BY DEF GInit
<1>4. QED
  BY <1>1, <1>2, <1>3 DEF GInit, GatewayTyped, GTypeOK

(* Every variable of the gateway keeps its type, through nested calls and  *)
(* the storage that a failing one puts back.                               *)
THEOREM GatewayTypeCorrect == GSpec => []GTypeOK
<1>1. GatewayTyped => GTypeOK
  BY DEF GatewayTyped
<1>2. QED
  BY <1>1, GatewayInitTyped, GatewayTypeStep, PTL DEF GSpec

-----------------------------------------------------------------------------
(* The burned keys, now and in the storage saved by a frame: those of the  *)
(* calls executed and of the first n calls under way, each of these with a *)
(* key of its own that no executed call had.                               *)
KeyOf(frame) == frame.session.session

SpentOnce(used, exec, stack, n) ==
  /\ used = {k \in SessionKey : exec[k] > 0 \/ \E i \in 1..n : KeyOf(stack[i]) = k}
  /\ \A k \in SessionKey : exec[k] <= 1
  /\ \A i \in 1..n : exec[KeyOf(stack[i])] = 0
  /\ \A i, j \in 1..n : KeyOf(stack[i]) = KeyOf(stack[j]) => i = j

(* The same of the storage that frame n saved, for the frames further out. *)
SavedSpentOnce(stack, n) ==
  SpentOnce(stack[n].saved.usedSessionKeys, stack[n].saved.executed, stack, n - 1)

(* The account of keys, in the state and in all that may be put back.      *)
KeysSpentOnce ==
  /\ SpentOnce(usedSessionKeys, executed, callStack, Len(callStack))
  /\ \A n \in 1..Len(callStack) : SavedSpentOnce(callStack, n)

(* What was saved depends on the keys of frames further out only, so it    *)
(* stays true when frames are added or removed further in.                 *)
LEMMA OuterFramesDecide ==
  ASSUME NEW used, NEW exec, NEW s, NEW t, NEW n \in Nat,
         \A i \in 1..n : KeyOf(t[i]) = KeyOf(s[i]), SpentOnce(used, exec, s, n)
  PROVE  SpentOnce(used, exec, t, n)
BY DEF SpentOnce

(* So is what a frame saved, if the stack below it is the same.            *)
LEMMA SavedAsBefore ==
  ASSUME NEW s, NEW t, NEW m \in Nat, NEW n \in 1..m,
         \A i \in 1..m : t[i] = s[i], SavedSpentOnce(s, n)
  PROVE  SavedSpentOnce(t, n)
<1>1. n - 1 \in Nat /\ t[n] = s[n] /\ \A i \in 1..(n - 1) : t[i] = s[i]
  OBVIOUS
<1>2. \A i \in 1..(n - 1) : KeyOf(t[i]) = KeyOf(s[i])
  BY <1>1
<1>3. QED
  BY <1>1, <1>2, OuterFramesDecide DEF SavedSpentOnce

(* A call begins under a key that is not burned.                           *)
LEMMA CallBegins ==
  ASSUME NEW used, NEW exec \in [SessionKey -> Nat], NEW s, NEW t, NEW n \in Nat,
         NEW k \in SessionKey, k \notin used, SpentOnce(used, exec, s, n),
         \A i \in 1..n : KeyOf(t[i]) = KeyOf(s[i]), KeyOf(t[n + 1]) = k,
         NEW after, after = used \cup {k}
  PROVE  SpentOnce(after, exec, t, n + 1)
<1>1. SpentOnce(used, exec, t, n)
  BY OuterFramesDecide
<1>2. exec[k] = 0 /\ \A i \in 1..n : KeyOf(t[i]) # k
  BY <1>1 DEF SpentOnce
<1>3. /\ \A i \in 1..(n + 1) : i \in 1..n \/ i = n + 1
      /\ \A i \in 1..n : i \in 1..(n + 1)
      /\ n + 1 \in 1..(n + 1)
  OBVIOUS
<1>4. after =
        {x \in SessionKey : exec[x] > 0 \/ \E i \in 1..(n + 1) : KeyOf(t[i]) = x}
  BY <1>1, <1>3 DEF SpentOnce
<1>5. \A i \in 1..(n + 1) : exec[KeyOf(t[i])] = 0
  BY <1>1, <1>2, <1>3 DEF SpentOnce
<1>6. \A i, j \in 1..(n + 1) : KeyOf(t[i]) = KeyOf(t[j]) => i = j
  BY <1>1, <1>2, <1>3 DEF SpentOnce
<1>7. QED
  BY <1>1, <1>4, <1>5, <1>6 DEF SpentOnce

(* The innermost call has been executed.                                   *)
LEMMA CallEnds ==
  ASSUME NEW used, NEW exec \in [SessionKey -> Nat], NEW s, NEW n \in Nat \ {0},
         \A i \in 1..n : KeyOf(s[i]) \in SessionKey, SpentOnce(used, exec, s, n),
         NEW after, after = [exec EXCEPT ![KeyOf(s[n])] = @ + 1]
  PROVE  SpentOnce(used, after, s, n - 1)
<1> DEFINE k == KeyOf(s[n])
<1>1. /\ n \in 1..n /\ k \in SessionKey
      /\ \A i \in 1..n : i \in 1..(n - 1) \/ i = n
      /\ \A i \in 1..(n - 1) : i \in 1..n /\ i # n
  OBVIOUS
<1>2. /\ exec[k] = 0 /\ after[k] = 1
      /\ \A x \in SessionKey \ {k} : after[x] = exec[x]
      /\ \A i \in 1..(n - 1) : KeyOf(s[i]) # k
  BY <1>1 DEF SpentOnce
<1> HIDE DEF k
<1>3. \A x \in SessionKey : after[x] <= 1
  BY <1>2 DEF SpentOnce
<1>4. \A i \in 1..(n - 1) : after[KeyOf(s[i])] = 0
  BY <1>1, <1>2 DEF SpentOnce
<1>5. \A i, j \in 1..(n - 1) : KeyOf(s[i]) = KeyOf(s[j]) => i = j
  BY <1>1 DEF SpentOnce
<1>6. ASSUME NEW x \in SessionKey
      PROVE  (exec[x] > 0 \/ \E i \in 1..n : KeyOf(s[i]) = x)
               <=> (after[x] > 0 \/ \E i \in 1..(n - 1) : KeyOf(s[i]) = x)
  <2>1. CASE x = k
    BY <1>1, <1>2, <2>1 DEF k
  <2>2. CASE x # k
    <3>1. after[x] = exec[x]
      BY <1>2, <2>2
    <3>2. (\E i \in 1..n : KeyOf(s[i]) = x)
            <=> \E i \in 1..(n - 1) : KeyOf(s[i]) = x
      BY <1>1, <2>2 DEF k
    <3>3. QED
      BY <3>1, <3>2
  <2>3. QED
    BY <2>1, <2>2
<1>7. used = {x \in SessionKey :
                after[x] > 0 \/ \E i \in 1..(n - 1) : KeyOf(s[i]) = x}
  BY <1>6 DEF SpentOnce
<1>8. QED
  BY <1>3, <1>4, <1>5, <1>7 DEF SpentOnce

(* A stack of calls, whatever is kept of each: one more, and one less.     *)
IsStack == \E S : callStack \in Seq(S)

(* A call is added on the inside.                                          *)
LEMMA Pushed ==
  ASSUME IsStack, NEW frame, callStack' = Append(callStack, frame)
  PROVE  /\ IsStack' /\ Len(callStack) \in Nat
         /\ Len(callStack') = Len(callStack) + 1
         /\ callStack'[Len(callStack) + 1] = frame
         /\ \A i \in 1..Len(callStack) : callStack'[i] = callStack[i]
<1>1. PICK S : callStack \in Seq(S)
  BY DEF IsStack
<1>2. PICK T : T = S \cup {frame}
  OBVIOUS
<1>3. callStack \in Seq(T) /\ frame \in T
  <2>1. callStack \in [1..Len(callStack) -> S] /\ Len(callStack) \in Nat
    BY <1>1, LenProperties
  <2>2. callStack \in [1..Len(callStack) -> T]
    BY <1>2, <2>1
  <2>3. QED
    BY <1>2, <2>1, <2>2, SeqDef
<1>4. callStack' \in Seq(T)
  BY <1>3
<1>5. QED
  BY <1>3, <1>4 DEF IsStack

(* The innermost call is removed.                                          *)
LEMMA Popped ==
  ASSUME IsStack, callStack # <<>>, callStack' = Pop
  PROVE  /\ IsStack' /\ Len(callStack) \in Nat \ {0}
         /\ Top = callStack[Len(callStack)]
         /\ Len(callStack') = Len(callStack) - 1
         /\ \A i \in 1..(Len(callStack) - 1) : callStack'[i] = callStack[i]
<1>1. PICK S : callStack \in Seq(S)
  BY DEF IsStack
<1> DEFINE n == Len(callStack) - 1
<1>2. /\ Len(callStack) \in Nat \ {0} /\ n \in Nat /\ n \in 0..Len(callStack)
      /\ n - 1 + 1 = n /\ 1 \in 1..(Len(callStack) + 1)
  BY <1>1
<1>3. /\ SubSeq(callStack, 1, n) \in Seq(S)
      /\ Len(SubSeq(callStack, 1, n)) = IF 1 <= n THEN n - 1 + 1 ELSE 0
      /\ \A i \in 1..(n - 1 + 1) :
           SubSeq(callStack, 1, n)[i] = callStack[1 + i - 1]
  BY <1>1, <1>2, SubSeqProperties
<1>4. /\ callStack' \in Seq(S) /\ Len(callStack') = n
      /\ \A i \in 1..n : callStack'[i] = callStack[i]
  BY <1>2, <1>3 DEF Pop
<1>5. QED
  BY <1>2, <1>4 DEF IsStack, Top

(* A call begins, in the state.                                            *)
LEMMA SpentByCall ==
  ASSUME IsStack, KeysSpentOnce, executed \in [SessionKey -> Nat],
         NEW k \in SessionKey, k \notin usedSessionKeys,
         NEW frame, KeyOf(frame) = k,
         frame.saved.usedSessionKeys = usedSessionKeys,
         frame.saved.executed = executed,
         callStack' = Append(callStack, frame),
         usedSessionKeys' = usedSessionKeys \cup {k}, executed' = executed
  PROVE  KeysSpentOnce'
<1> DEFINE depth == Len(callStack)
<1>1. /\ depth \in Nat /\ Len(callStack') = depth + 1
      /\ callStack'[depth + 1] = frame
      /\ \A i \in 1..depth : callStack'[i] = callStack[i]
  BY Pushed
<1>2. /\ SpentOnce(usedSessionKeys, executed, callStack, depth)
      /\ \A i \in 1..depth : KeyOf(callStack'[i]) = KeyOf(callStack[i])
  BY <1>1 DEF KeysSpentOnce
<1>3. SpentOnce(usedSessionKeys, executed, callStack', depth)
  BY <1>1, <1>2, OuterFramesDecide
<1>4. SpentOnce(usedSessionKeys', executed', callStack', depth + 1)
  <2>1. KeyOf(callStack'[depth + 1]) = k
    BY <1>1
  <2>2. PICK used, t, n : used = usedSessionKeys /\ t = callStack' /\ n = depth
    OBVIOUS
  <2>3. /\ n \in Nat /\ k \notin used /\ SpentOnce(used, executed, callStack, n)
        /\ \A i \in 1..n : KeyOf(t[i]) = KeyOf(callStack[i])
        /\ KeyOf(t[n + 1]) = k /\ usedSessionKeys' = used \cup {k}
    BY <1>1, <1>2, <2>1, <2>2
  <2> HIDE DEF depth
  <2>4. SpentOnce(usedSessionKeys', executed, t, n + 1)
    BY <2>3, CallBegins
  <2>5. QED
    BY <2>2, <2>4
<1>5. ASSUME NEW n \in 1..(depth + 1)
      PROVE  SavedSpentOnce(callStack', n)
  <2>1. CASE n \in 1..depth
    BY <1>1, <2>1, SavedAsBefore DEF KeysSpentOnce
  <2>2. CASE n = depth + 1
    BY <1>1, <1>3, <2>2 DEF SavedSpentOnce
  <2>3. QED
    BY <1>1, <2>1, <2>2
<1>6. QED
  BY <1>1, <1>4, <1>5 DEF KeysSpentOnce

(* A call ends: it is executed, or what it found is put back.              *)
LEMMA SpentByReturn ==
  ASSUME IsStack, KeysSpentOnce, executed \in [SessionKey -> Nat],
         \A i \in 1..Len(callStack) : KeyOf(callStack[i]) \in SessionKey,
         CallSucceeds \/ CallFails
  PROVE  KeysSpentOnce'
<1> DEFINE depth == Len(callStack)
<1>1. callStack # <<>> /\ callStack' = Pop
  BY DEF CallSucceeds, CallFails
<1>2. /\ depth \in Nat \ {0} /\ Top = callStack[depth]
      /\ Len(callStack') = depth - 1
      /\ \A i \in 1..(depth - 1) : callStack'[i] = callStack[i]
  BY <1>1, Popped
<1>3. depth - 1 \in Nat /\ \A n \in 1..(depth - 1) : n \in 1..depth
  BY <1>2
<1>4. /\ \A i \in 1..(depth - 1) : KeyOf(callStack'[i]) = KeyOf(callStack[i])
      /\ \A n \in 1..(depth - 1) : SavedSpentOnce(callStack', n)
  BY <1>2, <1>3, SavedAsBefore DEF KeysSpentOnce
<1>5. CASE CallSucceeds
  <2>1. /\ usedSessionKeys' = usedSessionKeys
        /\ executed' = [executed EXCEPT ![KeyOf(callStack[depth])] = @ + 1]
    BY <1>2, <1>5 DEF CallSucceeds, KeyOf
  <2>2. SpentOnce(usedSessionKeys, executed, callStack, depth)
    BY DEF KeysSpentOnce
  <2>3. SpentOnce(usedSessionKeys', executed', callStack, depth - 1)
    BY <1>2, <2>1, <2>2, CallEnds
  <2>4. SpentOnce(usedSessionKeys', executed', callStack', depth - 1)
    BY <1>3, <1>4, <2>3, OuterFramesDecide
  <2>5. QED
    BY <1>2, <1>4, <2>4 DEF KeysSpentOnce
<1>6. CASE CallFails
  <2>1. /\ usedSessionKeys' = callStack[depth].saved.usedSessionKeys
        /\ executed' = callStack[depth].saved.executed
    BY <1>2, <1>6 DEF CallFails, Restore
  <2>2. SavedSpentOnce(callStack, depth)
    BY <1>2 DEF KeysSpentOnce
  <2>3. SpentOnce(usedSessionKeys', executed', callStack', depth - 1)
    BY <1>3, <1>4, <2>1, <2>2, OuterFramesDecide DEF SavedSpentOnce
  <2>4. QED
    BY <1>2, <1>4, <2>3 DEF KeysSpentOnce
<1>7. QED
  BY <1>5, <1>6

(* Every step keeps the account of keys.                                   *)
LEMMA KeysSpentOnceStep ==
  ASSUME GatewayTyped, KeysSpentOnce, [GNext]_gvars
  PROVE  KeysSpentOnce'
<1>0. IsStack /\ executed \in [SessionKey -> Nat]
  BY DEF GatewayTyped, GTypeOK, IsStack
<1>1. CASE UNCHANGED <<usedSessionKeys, executed, callStack>>
  BY <1>1 DEF KeysSpentOnce
<1>2. ASSUME NEW session \in Session, NEW intent \in Intent,
             NEW target \in Address, NEW data \in CallData,
             NEW value \in CallValue,
             Execute(session, intent, target, data, value)
      PROVE  KeysSpentOnce'
  <2> DEFINE frame == [session |-> session, intent |-> intent,
                       target |-> target, data |-> data, value |-> value,
                       saved |-> Storage]
             k == session.session
  <2>1. /\ callStack' = Append(callStack, frame)
        /\ usedSessionKeys' = usedSessionKeys \cup {k} /\ executed' = executed
        /\ k \notin usedSessionKeys /\ k \in SessionKey
    BY <1>2, SessionKeysAreAddresses
    DEF Execute, BurnSessionKey, ExecuteAllowed, SessionAuthorized
  <2>2. /\ KeyOf(frame) = k
        /\ frame.saved.usedSessionKeys = usedSessionKeys
        /\ frame.saved.executed = executed
    BY DEF KeyOf, Storage
  <2> HIDE DEF frame
  <2>3. QED
    BY <1>0, <2>1, <2>2, SpentByCall
<1>3. CASE CallSucceeds \/ CallFails
  <2>1. ASSUME NEW i \in 1..Len(callStack)
        PROVE  callStack[i].session \in Session
    BY <2>1, FramesTyped DEF GatewayTyped, IsFrame
  <2>2. \A i \in 1..Len(callStack) : KeyOf(callStack[i]) \in SessionKey
    BY <2>1, SessionKeysAreAddresses DEF KeyOf
  <2>3. QED
    BY <1>0, <1>3, <2>2, SpentByReturn
<1>4. QED
  BY <1>1, <1>2, <1>3 DEF GNext, gvars, gatewayVars, IssueSession

-----------------------------------------------------------------------------
(* The inductive invariant.                                                *)
GatewayInv == GatewayTyped /\ KeysSpentOnce

(* It holds in every state that is reached.                                *)
LEMMA GatewayInvariant == GSpec => []GatewayInv
<1>1. ASSUME GInit
      PROVE  GatewayInv
  <2>1. Len(callStack) = 0 /\ \A k \in SessionKey : executed[k] = 0
    BY <1>1 DEF GInit
  <2>2. KeysSpentOnce
    BY <1>1, <2>1 DEF GInit, KeysSpentOnce, SpentOnce
  <2>3. QED
    BY <1>1, <2>2, GatewayInitTyped DEF GatewayInv
<1>2. GatewayInv /\ [GNext]_gvars => GatewayInv'
  BY GatewayTypeStep, KeysSpentOnceStep DEF GatewayInv
<1>3. QED
  BY <1>1, <1>2, PTL DEF GSpec

(* Keys that are accounted for are burned for a call each.                 *)
LEMMA SpentIsBurned ==
  ASSUME IsStack, KeysSpentOnce
  PROVE  BurnedIffExecuted
<1>1. DOMAIN callStack = 1..Len(callStack)
  BY DEF IsStack
<1>2. ASSUME NEW k
      PROVE  InProgress(k) # {}
               <=> \E i \in 1..Len(callStack) : KeyOf(callStack[i]) = k
  BY <1>1 DEF InProgress, KeyOf
<1>3. QED
  BY <1>2 DEF KeysSpentOnce, SpentOnce, BurnedIffExecuted

(* A session key is burned exactly when a call it backs was executed or is *)
(* under way, at whatever depth calls fail.                                *)
THEOREM BurnedExactly == GSpec => []BurnedIffExecuted
<1>1. GatewayInv => BurnedIffExecuted
  BY SpentIsBurned DEF GatewayInv, GatewayTyped, IsStack
<1>2. QED
  BY <1>1, GatewayInvariant, PTL

(* Keys that are accounted for are used once.                              *)
LEMMA SpentIsSingleUse ==
  ASSUME IsStack, KeysSpentOnce, executed \in [SessionKey -> Nat]
  PROVE  SessionKeySingleUse
<1> SUFFICES ASSUME NEW k \in SessionKey
             PROVE  executed[k] + Cardinality(InProgress(k)) <= 1
  BY DEF SessionKeySingleUse
<1>1. /\ DOMAIN callStack = 1..Len(callStack)
      /\ executed[k] \in Nat /\ executed[k] <= 1
      /\ SpentOnce(usedSessionKeys, executed, callStack, Len(callStack))
  BY DEF IsStack, KeysSpentOnce, SpentOnce
<1>2. CASE InProgress(k) = {}
  BY <1>1, <1>2, FS_EmptySet
<1>3. CASE InProgress(k) # {}
  <2>1. PICK i : i \in InProgress(k)
    BY <1>3
  <2>2. executed[k] = 0 /\ InProgress(k) = {i}
    BY <1>1, <2>1 DEF SpentOnce, InProgress, KeyOf
  <2>3. Cardinality({i}) = 1
    BY FS_Singleton
  <2>4. QED
    BY <2>2, <2>3
<1>4. QED
  BY <1>2, <1>3

(* A session key backs one call, executed or under way (invariants.md,     *)
(* INV-1), under reentrancy and whatever fails.                            *)
THEOREM SessionKeysSingleUse == GSpec => []SessionKeySingleUse
<1>1. ASSUME GatewayInv
      PROVE  SessionKeySingleUse
  BY <1>1, SpentIsSingleUse DEF GatewayInv, GatewayTyped, GTypeOK, IsStack
<1>2. QED
  BY <1>1, GatewayInvariant, PTL

-----------------------------------------------------------------------------
(* No call of a function of the store takes time.                          *)
LEMMA CallsTakeNoTime ==
  ASSUME NEW callers, Calls(callers)
  PROVE  now' = now
<1>1. CASE Administration(callers)
  BY <1>1
  DEF Administration, AuthorizeKey, RevokeKey, RegisterProver, RevokeProver,
      SetGuardians, FreezeIdentity, UnfreezeIdentity, CancelAllSessions
<1>2. CASE IntentValidation
  BY <1>2
  DEF IntentValidation, Validation, ValidateIntent, ValidateDelegatedIntent,
      GatedPurchase
<1>3. CASE GuardianCalls
  BY <1>3 DEF GuardianCalls, InitiateRecovery, SupportRecovery
<1>4. CASE RecoveryEnd(callers)
  BY <1>4 DEF RecoveryEnd, CancelRecovery, FinalizeRecovery
<1>5. QED
  BY <1>1, <1>2, <1>3, <1>4 DEF Calls

(* With the same calls under way and no time passed, all is as it was.     *)
LEMMA StillWithin ==
  ASSUME CallsWithinCertificate, callStack' = callStack,
         now' = now \/ callStack = <<>>
  PROVE  CallsWithinCertificate'
<1>1. CASE now' = now
  BY <1>1 DEF CallsWithinCertificate
<1>2. CASE callStack = <<>>
  BY <1>2 DEF CallsWithinCertificate
<1>3. QED
  BY <1>1, <1>2

(* A call that execute() lets through is within what was signed for it.    *)
LEMMA CallIsWithin ==
  ASSUME IsStack, CallsWithinCertificate,
         NEW session, NEW intent, NEW target, NEW data, NEW value,
         {value, intent.maxValue, session.maxValue} \subseteq Nat,
         Execute(session, intent, target, data, value)
  PROVE  CallsWithinCertificate'
<1> DEFINE frame == [session |-> session, intent |-> intent,
                     target |-> target, data |-> data, value |-> value,
                     saved |-> Storage]
<1>1. /\ frame.session.signer = frame.session.parent
      /\ frame.intent.signer = frame.session.session
      /\ frame.target = frame.session.target
      /\ frame.data.selector = frame.session.scope
      /\ frame.intent.callDataHash = Keccak(frame.data)
      /\ frame.value <= frame.intent.maxValue
  BY DEF Execute, ExecuteAllowed, SessionAuthorized, IntentAuthorized, WithinScope
<1>2. /\ now <= frame.session.expiration /\ now <= frame.intent.expiration
      /\ frame.saved.identityState[frame.session.parent] = "Active"
      /\ frame.session.signer \in frame.saved.authorizedKeys
      /\ frame.intent.sessionEpoch = frame.saved.sessionEpoch[frame.session.parent]
  BY DEF Execute, ExecuteAllowed, SessionAuthorized, IntentAuthorized,
         WithinCapAndEpoch, Storage
<1>3. frame.value <= frame.session.maxValue
  <2>1. value <= intent.maxValue /\ intent.maxValue <= session.maxValue
    BY DEF Execute, ExecuteAllowed, WithinCapAndEpoch
  <2>2. QED
    BY <2>1
<1>4. callStack' = Append(callStack, frame) /\ now' = now
  BY DEF Execute, vars
<1> HIDE DEF frame
<1>5. \A i \in DOMAIN callStack' :
        \/ i \in DOMAIN callStack /\ callStack'[i] = callStack[i]
        \/ callStack'[i] = frame
  <2>1. IsStack' /\ DOMAIN callStack = 1..Len(callStack)
    BY <1>4, Pushed DEF IsStack
  <2>2. DOMAIN callStack' = 1..Len(callStack')
    BY <2>1 DEF IsStack
  <2>3. QED
    BY <1>4, <2>1, <2>2, Pushed
<1>6. QED
  BY <1>1, <1>2, <1>3, <1>4, <1>5 DEF CallsWithinCertificate

(* Those that are left when one ends are.                                  *)
LEMMA OthersStayWithin ==
  ASSUME IsStack, CallsWithinCertificate, callStack # <<>>, callStack' = Pop,
         now' = now
  PROVE  CallsWithinCertificate'
<1>1. /\ IsStack' /\ Len(callStack) \in Nat \ {0}
      /\ Len(callStack') = Len(callStack) - 1
      /\ \A i \in 1..(Len(callStack) - 1) : callStack'[i] = callStack[i]
  BY Popped
<1>2. /\ DOMAIN callStack = 1..Len(callStack)
      /\ DOMAIN callStack' = 1..Len(callStack')
  BY <1>1 DEF IsStack
<1>3. \A i \in DOMAIN callStack' :
        i \in DOMAIN callStack /\ callStack'[i] = callStack[i]
  BY <1>1, <1>2
<1>4. QED
  BY <1>3 DEF CallsWithinCertificate

(* Every call under way lies within the chain of signatures it was made    *)
(* with, before either of them expires, and was made for an active         *)
(* identity, whatever happened since.                                      *)
THEOREM WithinCertificate == GSpec => []CallsWithinCertificate
<1>1. GInit => CallsWithinCertificate
  BY DEF GInit, CallsWithinCertificate
<1>2. ASSUME GatewayTyped, CallsWithinCertificate, [GNext]_gvars
      PROVE  CallsWithinCertificate'
  <2>1. IsStack
    BY <1>2 DEF GatewayTyped, IsStack
  <2>2. CASE UNCHANGED callStack /\ (now' = now \/ callStack = <<>>)
    BY <1>2, <2>2, StillWithin
  <2>3. CASE CallSucceeds \/ CallFails
    BY <1>2, <2>1, <2>3, OthersStayWithin DEF CallSucceeds, CallFails, vars
  <2>4. ASSUME NEW session \in Session, NEW intent \in Intent,
               NEW target \in Address, NEW data \in CallData,
               NEW value \in CallValue,
               Execute(session, intent, target, data, value)
        PROVE  CallsWithinCertificate'
    <3>1. {value, intent.maxValue, session.maxValue} \subseteq Nat
      BY MessageAssumption, SessionKeysAreAddresses DEF IsIntent
    <3>2. QED
      BY <1>2, <2>1, <2>4, <3>1, CallIsWithin
  <2>5. CASE Calls(Callers) /\ UNCHANGED gatewayVars
    BY <2>2, <2>5, CallsTakeNoTime DEF gatewayVars
  <2>6. QED
    BY <1>2, <2>2, <2>3, <2>4, <2>5
    DEF GNext, gvars, gatewayVars, vars, IssueSession
<1>3. QED
  BY <1>1, <1>2, GatewayInitTyped, GatewayTypeStep, PTL DEF GSpec

=============================================================================
