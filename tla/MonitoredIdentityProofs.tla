----------------------- MODULE MonitoredIdentityProofs -----------------------
(***************************************************************************)
(* Proofs about the watcher that follows an identity, for every value of   *)
(* the constants: any number of identities, guardians and events, in any   *)
(* order, with any interleaving of handlers, drains and registrations.     *)
(***************************************************************************)
EXTENDS MonitoredIdentity, IdentityStoreProofs, SequenceTheorems,
        WellFoundedInduction

-----------------------------------------------------------------------------
(* Induction over data, from the least element of a set of numbers.        *)
LEMMA LeastNumber ==
  ASSUME NEW T \in SUBSET Nat, T # {}
  PROVE  \E x \in T : \A y \in T : x <= y
<1>1. \E x \in T : \A y \in T : ~ (<<y, x>> \in OpToRel(<, Nat))
  BY NatLessThanWellFounded, WFMin, Zenon
<1>2. \A x, y \in Nat : <<y, x>> \in OpToRel(<, Nat) <=> y < x
  BY DEF OpToRel
<1>3. \E x \in T : \A y \in T : ~ (y < x)
  BY <1>1, <1>2, Zenon
<1>4. QED
  BY <1>3

(* Induction over the natural numbers, for a set G instead of a predicate. *)
LEMMA NumberInduction ==
  ASSUME NEW G, 0 \in G, \A n \in Nat : n \in G => n + 1 \in G
  PROVE  Nat \subseteq G
<1> SUFFICES ASSUME NEW m \in Nat, m \notin G
             PROVE  FALSE
  OBVIOUS
<1>1. PICK n \in Nat \ G : \A k \in Nat \ G : n <= k
  BY LeastNumber
<1>2. n - 1 \in Nat /\ n - 1 \in G /\ (n - 1) + 1 = n
  BY <1>1
<1>3. QED
  BY <1>1, <1>2

(* Induction over finite sequences, from their ends.                       *)
LEMMA SequenceInduction ==
  ASSUME NEW T, NEW G, <<>> \in G,
         \A s \in Seq(T), e \in T : s \in G => Append(s, e) \in G
  PROVE  Seq(T) \subseteq G
<1> DEFINE L == {n \in Nat : \A s \in Seq(T) : Len(s) = n => s \in G}
<1>1. 0 \in L
  OBVIOUS
<1>2. ASSUME NEW n \in Nat, n \in L
      PROVE  n + 1 \in L
  <2> SUFFICES ASSUME NEW s \in Seq(T), Len(s) = n + 1
               PROVE  s \in G
    OBVIOUS
  <2> DEFINE front == SubSeq(s, 1, n)
  <2>1. front \in Seq(T) /\ Len(front) = n /\ s[n + 1] \in T
    OBVIOUS
  <2>2. s = Append(front, s[n + 1])
    OBVIOUS
  <2>3. QED
    BY <1>2, <2>1, <2>2
<1>3. Nat \subseteq L
  BY <1>1, <1>2, NumberInduction
<1>4. QED
  BY <1>3

(* The recursive function in Kept is defined, and depends on no more of    *)
(* log and I than what it has passed.                                      *)
Keeps(f, log, I, n) ==
  /\ f[0] = <<>>
  /\ \A m \in 1..n : f[m] = IF m \in I THEN Append(f[m - 1], log[m]) ELSE f[m - 1]

(* Two functions that filter logs with the same beginning agree on it.     *)
LEMMA KeepsUnique ==
  ASSUME NEW n \in Nat, NEW s, NEW t, NEW I, NEW J,
         \A m \in 1..n : s[m] = t[m] /\ (m \in I <=> m \in J),
         NEW f, Keeps(f, s, I, n), NEW g, Keeps(g, t, J, n)
  PROVE  f[n] = g[n]
<1> DEFINE G == {k \in Nat : k <= n => f[k] = g[k]}
<1>1. 0 \in G
  BY DEF Keeps
<1>2. ASSUME NEW k \in Nat, k \in G
      PROVE  k + 1 \in G
  BY <1>2 DEF Keeps
<1>3. Nat \subseteq G
  BY <1>1, <1>2, NumberInduction
<1>4. QED
  BY <1>3

(* The function that filters a log exists, for every length.               *)
LEMMA KeepsExists ==
  ASSUME NEW s, NEW I, NEW n \in Nat
  PROVE  \E f : Keeps(f, s, I, n)
<1> DEFINE G == {k \in Nat : \E f : Keeps(f, s, I, k)}
<1>1. 0 \in G
  <2>1. Keeps([i \in Nat |-> <<>>], s, I, 0)
    BY DEF Keeps
  <2>2. QED
    BY <2>1
<1>2. ASSUME NEW k \in Nat, k \in G
      PROVE  k + 1 \in G
  <2>1. PICK f : Keeps(f, s, I, k)
    BY <1>2
  <2> DEFINE next == IF k + 1 \in I THEN Append(f[k], s[k + 1]) ELSE f[k]
             g == [i \in Nat |-> IF i = k + 1 THEN next ELSE f[i]]
  <2>2. Keeps(g, s, I, k + 1)
    <3>1. g[0] = <<>> /\ g[k + 1] = next
      BY <2>1 DEF Keeps
    <3>2. \A m \in 0..k : g[m] = f[m]
      OBVIOUS
    <3>3. \A m \in 1..k : g[m] = IF m \in I THEN Append(g[m - 1], s[m]) ELSE g[m - 1]
      <4> SUFFICES ASSUME NEW m \in 1..k
                   PROVE  g[m] = IF m \in I THEN Append(g[m - 1], s[m]) ELSE g[m - 1]
        OBVIOUS
      <4>1. m \in 0..k /\ m - 1 \in 0..k
        OBVIOUS
      <4>2. QED BY <2>1, <3>2, <4>1 DEF Keeps
    <3>4. g[k + 1] = IF k + 1 \in I THEN Append(g[(k + 1) - 1], s[k + 1]) ELSE g[(k + 1) - 1]
      <4>1. (k + 1) - 1 = k /\ k \in 0..k
        OBVIOUS
      <4>2. QED BY <3>1, <3>2, <4>1
    <3> HIDE DEF g
    <3>5. QED
      BY <3>1, <3>3, <3>4 DEF Keeps
  <2>3. QED
    BY <2>2
<1>3. QED
  BY <1>1, <1>2, NumberInduction

(* So the CHOOSE behind Kept picks such a function.                        *)
LEMMA KeptIsDefined ==
  ASSUME NEW T, NEW s \in Seq(T), NEW I
  PROVE  \E f : Keeps(f, s, I, Len(s)) /\ Kept(s, I) = f[Len(s)]
<1> DEFINE Def(f) == [n \in Nat |-> IF n = 0 THEN <<>>
                        ELSE IF n \in I THEN Append(f[n - 1], s[n]) ELSE f[n - 1]]
           kept == CHOOSE f : f = Def(f)
           Part(n) == CHOOSE f : Keeps(f, s, I, n)
           whole == [n \in Nat |-> Part(n)[n]]
<1>1. \A n \in Nat : Keeps(Part(n), s, I, n)
  BY KeepsExists, Zenon
<1>2. ASSUME NEW n \in Nat
      PROVE  whole[n] = Def(whole)[n]
  <2>1. whole[n] = Part(n)[n]
    BY Zenon
  <2>2. CASE n = 0
    BY <1>1, <2>1, <2>2 DEF Keeps
  <2>3. CASE n # 0
    <3>1. n - 1 \in Nat /\ n \in 1..n /\ 1..(n-1) \subseteq 1..n
      BY <2>3
    <3>2. Keeps(Part(n), s, I, n) /\ Keeps(Part(n - 1), s, I, n - 1)
      BY <1>1, <3>1, Zenon
    <3>3. whole[n - 1] = Part(n - 1)[n - 1]
      BY <3>1, Zenon
    <3> HIDE DEF Part
    <3>4. Keeps(Part(n), s, I, n - 1)
      BY <3>1, <3>2 DEF Keeps
    <3>5. Part(n)[n - 1] = Part(n - 1)[n - 1]
      BY <3>1, <3>2, <3>4, KeepsUnique
    <3>6. Part(n)[n] = IF n \in I THEN Append(Part(n)[n - 1], s[n]) ELSE Part(n)[n - 1]
      BY <3>1, <3>2 DEF Keeps
    <3>7. QED
      BY <2>1, <2>3, <3>3, <3>5, <3>6
  <2>4. QED
    BY <2>2, <2>3
<1> HIDE DEF Part
<1>3. whole = Def(whole)
  <2>1. whole = [n \in Nat |-> whole[n]] 
    OBVIOUS
  <2>2. Def(whole) = [n \in Nat |-> Def(whole)[n]]
    OBVIOUS
  <2> HIDE DEF whole
  <2>3. QED
    BY <1>2, <2>1, <2>2
<1> HIDE DEF whole
<1>4. kept = Def(kept)
  BY <1>3, Zenon
<1>5. Kept(s, I) = kept[Len(s)]
  BY Zenon DEF Kept
<1> HIDE DEF kept
<1>6. Keeps(kept, s, I, Len(s))
  <2>1. Len(s) \in Nat
    OBVIOUS
  <2>2. kept[0] = <<>>
    BY <1>4
  <2>3. ASSUME NEW m \in 1..Len(s)
        PROVE kept[m] = IF m \in I THEN Append(kept[m - 1], s[m]) ELSE kept[m - 1]
    <3>1. m \in Nat /\ m # 0
      OBVIOUS
    <3>2. QED BY <1>4, <3>1
  <2>4. QED
    BY <2>2, <2>3 DEF Keeps
<1>7. QED
  BY <1>5, <1>6

-----------------------------------------------------------------------------
(* Nothing is kept of nothing.                                             *)
LEMMA KeptEmpty ==
  ASSUME NEW I
  PROVE  Kept(<<>>, I) = <<>>
<1>1. <<>> \in Seq({}) /\ Len(<<>>) = 0
  OBVIOUS
<1>2. \E f : Keeps(f, <<>>, I, Len(<<>>)) /\ Kept(<<>>, I) = f[Len(<<>>)]
  BY <1>1, KeptIsDefined
<1>3. QED
  BY <1>1, <1>2 DEF Keeps

(* A record more: it is kept or not, and so are the earlier ones as before. *)
LEMMA KeptAppend ==
  ASSUME NEW T, NEW s \in Seq(T), NEW e \in T, NEW I, NEW J,
         \A i \in 1..Len(s) : i \in I <=> i \in J
  PROVE  Kept(Append(s, e), J) =
           IF Len(s) + 1 \in J THEN Append(Kept(s, I), e) ELSE Kept(s, I)
<1> DEFINE t == Append(s, e)
           n == Len(s)
<1>1. /\ t \in Seq(T) /\ n \in Nat /\ Len(t) = n + 1
      /\ \A i \in 1..n : t[i] = s[i]
      /\ t[n + 1] = e
  OBVIOUS
<1> HIDE DEF t
<1>2. PICK f : Keeps(f, s, I, n) /\ Kept(s, I) = f[n]
  BY KeptIsDefined
<1>3. PICK g : Keeps(g, t, J, Len(t)) /\ Kept(t, J) = g[Len(t)]
  BY <1>1, KeptIsDefined
<1>4. /\ Keeps(g, t, J, n)
      /\ g[n + 1] = IF n + 1 \in J THEN Append(g[n], t[n + 1]) ELSE g[n]
  <2>1. n + 1 \in 1..(n + 1) /\ (n + 1) - 1 = n /\ 1..n \subseteq 1..(n + 1)
    BY <1>1
  <2>2. Keeps(g, t, J, n + 1)
    BY <1>1, <1>3
  <2>3. QED
    BY <2>1, <2>2 DEF Keeps
<1>5. f[n] = g[n]
  <2>1. \A i \in 1..n : s[i] = t[i] /\ (i \in I <=> i \in J)
    BY <1>1
  <2> HIDE DEF n
  <2>2. QED
    BY <1>1, <1>2, <1>4, <2>1, KeepsUnique
<1>6. QED
  BY <1>1, <1>2, <1>3, <1>4, <1>5 DEF t

(* The records that are kept are records of the log. *)
LEMMA KeptTyped ==
  ASSUME NEW T, NEW s \in Seq(T), NEW I
  PROVE  Kept(s, I) \in Seq(T)
<1> DEFINE G == {r \in Seq(T) : Kept(r, I) \in Seq(T)}
<1>1. <<>> \in G
  <2>1. <<>> \in Seq(T)
    OBVIOUS
  <2>2. Kept(<<>>, I) = <<>>
    BY KeptEmpty
  <2>3. QED
    BY <2>1, <2>2
<1>2. ASSUME NEW r \in Seq(T), NEW e \in T, r \in G
      PROVE  Append(r, e) \in G
  <2>1. r \in Seq(T) /\ Kept(r, I) \in Seq(T) /\ Append(r, e) \in Seq(T)
    BY <1>2
  <2>2. \A i \in 1..Len(r) : i \in I <=> i \in I
    OBVIOUS
  <2>3. Kept(Append(r, e), I) =
          IF Len(r) + 1 \in I THEN Append(Kept(r, I), e) ELSE Kept(r, I)
    BY <2>1, <2>2, KeptAppend
  <2>4. Append(Kept(r, I), e) \in Seq(T)
    BY <2>1
  <2>5. QED
    BY <2>1, <2>3, <2>4
<1>3. Seq(T) \subseteq G
  BY <1>1, <1>2, SequenceInduction
<1>4. QED
  BY <1>3

-----------------------------------------------------------------------------
(* The queries, one record at a time.                                      *)
LEMMA ForIdentityAppend ==
  ASSUME NEW T, NEW s \in Seq(T), NEW e \in T, NEW identity
  PROVE  EntriesForIdentity(Append(s, e), identity) =
           IF e.identity = identity
           THEN Append(EntriesForIdentity(s, identity), e)
           ELSE EntriesForIdentity(s, identity)
<1> DEFINE I == {i \in DOMAIN s : s[i].identity = identity}
           t == Append(s, e)
           J == {i \in DOMAIN t : t[i].identity = identity}
<1>1. /\ \A i \in 1..Len(s) : i \in I <=> i \in J
      /\ Len(s) + 1 \in J <=> e.identity = identity
  OBVIOUS
<1> HIDE DEF I, J
<1>2. Kept(t, J) = IF Len(s) + 1 \in J THEN Append(Kept(s, I), e) ELSE Kept(s, I)
  BY <1>1, KeptAppend
<1>3. QED
  BY <1>1, <1>2 DEF EntriesForIdentity, I, J

(* One more entry, and the query by its type.                              *)
LEMMA ByTypeAppend ==
  ASSUME NEW T, NEW s \in Seq(T), NEW e \in T, NEW event_type
  PROVE  EntriesByType(Append(s, e), event_type) =
           IF e.event_type = event_type
           THEN Append(EntriesByType(s, event_type), e)
           ELSE EntriesByType(s, event_type)
<1> DEFINE I == {i \in DOMAIN s : s[i].event_type = event_type}
           t == Append(s, e)
           J == {i \in DOMAIN t : t[i].event_type = event_type}
<1>1. /\ \A i \in 1..Len(s) : i \in I <=> i \in J
      /\ Len(s) + 1 \in J <=> e.event_type = event_type
  OBVIOUS
<1> HIDE DEF I, J
<1>2. Kept(t, J) = IF Len(s) + 1 \in J THEN Append(Kept(s, I), e) ELSE Kept(s, I)
  BY <1>1, KeptAppend
<1>3. QED
  BY <1>1, <1>2 DEF EntriesByType, I, J

(* One more entry, and the query by its time.                              *)
LEMMA InRangeAppend ==
  ASSUME NEW T, NEW s \in Seq(T), NEW e \in T, NEW from, NEW to
  PROVE  EntriesInRange(Append(s, e), from, to) =
           IF from <= e.timestamp /\ e.timestamp <= to
           THEN Append(EntriesInRange(s, from, to), e)
           ELSE EntriesInRange(s, from, to)
<1> DEFINE I == {i \in DOMAIN s : from <= s[i].timestamp /\ s[i].timestamp <= to}
           t == Append(s, e)
           J == {i \in DOMAIN t : from <= t[i].timestamp /\ t[i].timestamp <= to}
<1>1. /\ \A i \in 1..Len(s) : i \in I <=> i \in J
      /\ Len(s) + 1 \in J <=> from <= e.timestamp /\ e.timestamp <= to
  OBVIOUS
<1> HIDE DEF I, J
<1>2. Kept(t, J) = IF Len(s) + 1 \in J THEN Append(Kept(s, I), e) ELSE Kept(s, I)
  BY <1>1, KeptAppend
<1>3. QED
  BY <1>1, <1>2 DEF EntriesInRange, I, J

(* The entries that a snapshot counts as recoveries under way.             *)
IsPendingEntry(entry) ==
  /\ entry.event_type = "RecoveryStateChanged"
  /\ entry.metadata.new_state = "RecoveryPending"

(* One more entry, and the recoveries that a snapshot counts.              *)
LEMMA PendingRecoveriesAppend ==
  ASSUME NEW T, NEW s \in Seq(T), NEW e \in T
  PROVE  PendingRecoveries(Append(s, e)) =
           IF IsPendingEntry(e) THEN Append(PendingRecoveries(s), e)
           ELSE PendingRecoveries(s)
<1> DEFINE I == {i \in DOMAIN s : IsPendingEntry(s[i])}
           t == Append(s, e)
           J == {i \in DOMAIN t : IsPendingEntry(t[i])}
<1>1. /\ \A i \in 1..Len(s) : i \in I <=> i \in J
      /\ Len(s) + 1 \in J <=> IsPendingEntry(e)
  OBVIOUS
<1>2. PendingRecoveries(s) = Kept(s, I) /\ PendingRecoveries(t) = Kept(t, J)
  BY DEF PendingRecoveries, IsPendingEntry
<1> HIDE DEF I, J
<1>3. Kept(t, J) = IF Len(s) + 1 \in J THEN Append(Kept(s, I), e) ELSE Kept(s, I)
  BY <1>1, KeptAppend
<1>4. QED
  BY <1>1, <1>2, <1>3

(* Every query answers with a sequence of entries of the log.              *)
LEMMA QueriesTyped ==
  ASSUME NEW T, NEW s \in Seq(T)
  PROVE  /\ \A x : EntriesForIdentity(s, x) \in Seq(T)
         /\ \A x : EntriesByType(s, x) \in Seq(T)
         /\ \A x, y : EntriesInRange(s, x, y) \in Seq(T)
         /\ PendingRecoveries(s) \in Seq(T)
BY KeptTyped DEF EntriesForIdentity, EntriesByType, EntriesInRange,
   PendingRecoveries

(* Nothing is found in an empty log.                                       *)
LEMMA QueriesOfNone ==
  /\ \A x : EntriesForIdentity(<<>>, x) = <<>> /\ EntriesByType(<<>>, x) = <<>>
  /\ \A x, y : EntriesInRange(<<>>, x, y) = <<>>
  /\ PendingRecoveries(<<>>) = <<>>
BY KeptEmpty DEF EntriesForIdentity, EntriesByType, EntriesInRange,
   PendingRecoveries

(* The last record that both queries keep is the newest that fits them.    *)
Fits(entry, identity, event_type) ==
  entry.identity = identity /\ entry.event_type = event_type

(* Entry i is the last one of its type about the identity.                 *)
Newest(log, i, identity, event_type) ==
  /\ i \in 1..Len(log)
  /\ Fits(log[i], identity, event_type)
  /\ \A j \in (i + 1)..Len(log) : ~ Fits(log[j], identity, event_type)

(* What LogTellsState reads is the last entry of the log that fits.        *)
LEMMA LastIsNewest ==
  ASSUME NEW T, NEW log \in Seq(T), NEW identity, NEW event_type,
         EntriesByType(EntriesForIdentity(log, identity), event_type) # <<>>
  PROVE  \E i : /\ Newest(log, i, identity, event_type)
                /\ Last(EntriesByType(EntriesForIdentity(log, identity), event_type))
                     = log[i]
<1> DEFINE Own(s) == EntriesForIdentity(s, identity)
           Found(s) == EntriesByType(Own(s), event_type)
           G == {s \in Seq(T) :
                   Found(s) # <<>> =>
                     \E i : Newest(s, i, identity, event_type) /\ Last(Found(s)) = s[i]}
<1>1. <<>> \in G
  <2>1. Found(<<>>) = <<>>
    BY QueriesOfNone
  <2>2. QED
    BY <2>1
<1>2. ASSUME NEW s \in Seq(T), NEW e \in T, s \in G
      PROVE  Append(s, e) \in G
  <2> DEFINE t == Append(s, e)
  <2>1. /\ t \in Seq(T) /\ Len(t) = Len(s) + 1 /\ Len(s) \in Nat
        /\ \A i \in 1..Len(s) : t[i] = s[i]
        /\ t[Len(s) + 1] = e
    OBVIOUS
  <2>2. /\ Own(s) \in Seq(T) /\ Found(s) \in Seq(T)
        /\ Own(t) = IF e.identity = identity THEN Append(Own(s), e) ELSE Own(s)
    BY QueriesTyped, ForIdentityAppend
  <2> HIDE DEF t, Own
  <2>3. Found(t) = IF Fits(e, identity, event_type)
                   THEN Append(Found(s), e) ELSE Found(s)
    <3>1. EntriesByType(Append(Own(s), e), event_type) =
            IF e.event_type = event_type THEN Append(Found(s), e) ELSE Found(s)
      BY <2>2, ByTypeAppend
    <3>2. QED
      BY <2>2, <3>1 DEF Fits
  <2> HIDE DEF Found
  <2>4. CASE Fits(e, identity, event_type)
    <3>1. Last(Found(t)) = e
      BY <2>2, <2>3, <2>4 DEF Last
    <3>2. Newest(t, Len(s) + 1, identity, event_type)
      BY <2>1, <2>4 DEF Newest
    <3>3. QED
      BY <2>1, <3>1, <3>2 DEF t
  <2>5. CASE ~ Fits(e, identity, event_type)
    <3> SUFFICES ASSUME Found(t) # <<>>
                 PROVE  \E i : Newest(t, i, identity, event_type) /\ Last(Found(t)) = t[i]
      BY <2>1 DEF t
    <3>1. PICK i : Newest(s, i, identity, event_type) /\ Last(Found(s)) = s[i]
      BY <1>2, <2>3, <2>5
    <3>2. Newest(t, i, identity, event_type) /\ t[i] = s[i]
      <4>1. i \in 1..Len(t) /\ t[i] = s[i]
        BY <2>1, <3>1 DEF Newest
      <4>2. ASSUME NEW j \in (i + 1)..Len(t)
            PROVE  ~ Fits(t[j], identity, event_type)
        <5>1. j \in (i + 1)..Len(s) \/ j = Len(s) + 1
          BY <2>1
        <5>2. ASSUME j \in (i + 1)..Len(s)
              PROVE  t[j] = s[j] /\ ~ Fits(s[j], identity, event_type)
          BY <2>1, <3>1, <5>2 DEF Newest
        <5>3. QED
          BY <2>1, <2>5, <5>1, <5>2
      <4>3. QED
        BY <3>1, <4>1, <4>2 DEF Newest
    <3>3. QED
      BY <2>3, <2>5, <3>1, <3>2
  <2>6. QED
    BY <2>4, <2>5
<1>3. Seq(T) \subseteq G
  BY <1>1, <1>2, SequenceInduction
<1>4. QED
  BY <1>3

(* A log whose records are all of a time up to MaxTime, cut in two.        *)
LEMMA PartsAddUp ==
  ASSUME NEW T, \A e \in T : e.timestamp \in 1..MaxTime,
         NEW log \in Seq(T), NEW time \in 1..MaxTime
  PROVE  LET before == EntriesInRange(log, 1, time)
             after  == EntriesInRange(log, time + 1, MaxTime)
         IN  /\ \A ty : Len(EntriesByType(log, ty))
                          = Len(EntriesByType(before, ty)) + Len(EntriesByType(after, ty))
             /\ Len(PendingRecoveries(log))
                  = Len(PendingRecoveries(before)) + Len(PendingRecoveries(after))
<1> DEFINE Before(s) == EntriesInRange(s, 1, time)
           After(s) == EntriesInRange(s, time + 1, MaxTime)
           Sums(s) ==
             /\ \A ty : Len(EntriesByType(s, ty))
                  = Len(EntriesByType(Before(s), ty)) + Len(EntriesByType(After(s), ty))
             /\ Len(PendingRecoveries(s))
                  = Len(PendingRecoveries(Before(s))) + Len(PendingRecoveries(After(s)))
           G == {s \in Seq(T) : Sums(s)}
<1>1. <<>> \in G
  <2>1. /\ Before(<<>>) = <<>> /\ After(<<>>) = <<>> /\ Len(<<>>) = 0
        /\ PendingRecoveries(<<>>) = <<>>
        /\ \A ty : EntriesByType(<<>>, ty) = <<>>
    BY QueriesOfNone
  <2>2. QED
    BY <2>1
<1>2. ASSUME NEW s \in Seq(T), NEW e \in T, s \in G
      PROVE  Append(s, e) \in G
  <2> DEFINE t == Append(s, e)
  <2>1. t \in Seq(T) /\ Before(s) \in Seq(T) /\ After(s) \in Seq(T)
    <3>1. t \in Seq(T)
      OBVIOUS
    <3>2. \A x, y : EntriesInRange(s, x, y) \in Seq(T)
      BY QueriesTyped
    <3>3. QED
      BY <3>1, <3>2
  <2>2. e.timestamp \in Nat /\ 1 <= e.timestamp /\ e.timestamp <= MaxTime
    BY ParameterAssumption
  <2>3. /\ Before(t) = IF e.timestamp <= time THEN Append(Before(s), e) ELSE Before(s)
        /\ After(t) = IF e.timestamp <= time THEN After(s) ELSE Append(After(s), e)
    <3>0. ASSUME NEW from, NEW to
          PROVE  EntriesInRange(t, from, to) =
                   IF from <= e.timestamp /\ e.timestamp <= to
                   THEN Append(EntriesInRange(s, from, to), e)
                   ELSE EntriesInRange(s, from, to)
      BY InRangeAppend
    <3> HIDE DEF t
    <3>1. Before(t) = IF 1 <= e.timestamp /\ e.timestamp <= time
                      THEN Append(Before(s), e) ELSE Before(s)
      BY <3>0
    <3>2. After(t) = IF time + 1 <= e.timestamp /\ e.timestamp <= MaxTime
                     THEN Append(After(s), e) ELSE After(s)
      BY <3>0
    <3>3. time \in Nat
      OBVIOUS
    <3> HIDE DEF Before, After, t
    <3>4. QED
      BY <2>2, <3>1, <3>2, <3>3
  <2> HIDE DEF t, Before, After
  <2>4. ASSUME NEW r \in Seq(T)
        PROVE  /\ \A ty : EntriesByType(r, ty) \in Seq(T)
               /\ PendingRecoveries(r) \in Seq(T)
               /\ \A ty : Len(EntriesByType(Append(r, e), ty)) =
                            Len(EntriesByType(r, ty)) + (IF e.event_type = ty THEN 1 ELSE 0)
               /\ Len(PendingRecoveries(Append(r, e))) =
                    Len(PendingRecoveries(r)) + (IF IsPendingEntry(e) THEN 1 ELSE 0)
    <3>1. /\ \A ty : EntriesByType(r, ty) \in Seq(T)
          /\ PendingRecoveries(r) \in Seq(T)
      BY QueriesTyped
    <3>2. ASSUME NEW ty
          PROVE  Len(EntriesByType(Append(r, e), ty)) =
                   Len(EntriesByType(r, ty)) + (IF e.event_type = ty THEN 1 ELSE 0)
      <4>1. EntriesByType(Append(r, e), ty) =
              IF e.event_type = ty THEN Append(EntriesByType(r, ty), e)
              ELSE EntriesByType(r, ty)
        BY ByTypeAppend
      <4>2. QED
        BY <3>1, <4>1
    <3>3. Len(PendingRecoveries(Append(r, e))) =
            Len(PendingRecoveries(r)) + (IF IsPendingEntry(e) THEN 1 ELSE 0)
      <4>1. PendingRecoveries(Append(r, e)) =
              IF IsPendingEntry(e) THEN Append(PendingRecoveries(r), e)
              ELSE PendingRecoveries(r)
        BY PendingRecoveriesAppend
      <4>2. QED
        BY <3>1, <4>1
    <3>4. QED
      BY <3>1, <3>2, <3>3
  <2>5. ASSUME NEW r \in Seq(T)
        PROVE  /\ \A ty : Len(EntriesByType(r, ty)) \in Nat
               /\ Len(PendingRecoveries(r)) \in Nat
    BY <2>4
  <2>6. Sums(t)
    <3> DEFINE b == Before(s)
               a == After(s)
               More(x) == IF x THEN 1 ELSE 0
    <3>1. /\ \A ty : Len(EntriesByType(s, ty))
                       = Len(EntriesByType(b, ty)) + Len(EntriesByType(a, ty))
          /\ Len(PendingRecoveries(s))
               = Len(PendingRecoveries(b)) + Len(PendingRecoveries(a))
      BY <1>2 DEF Before, After
    <3>2. /\ \A ty : Len(EntriesByType(t, ty))
                       = Len(EntriesByType(s, ty)) + More(e.event_type = ty)
          /\ Len(PendingRecoveries(t))
               = Len(PendingRecoveries(s)) + More(IsPendingEntry(e))
      BY <2>4 DEF t
    <3>3. /\ b \in Seq(T) /\ a \in Seq(T)
          /\ \A ty : /\ Len(EntriesByType(b, ty)) \in Nat
                     /\ Len(EntriesByType(a, ty)) \in Nat
          /\ Len(PendingRecoveries(b)) \in Nat /\ Len(PendingRecoveries(a)) \in Nat
      BY <2>1, <2>5
    <3>5. \A x : More(x) \in Nat
      OBVIOUS
    <3> HIDE DEF a, b, More
    <3>6. CASE e.timestamp <= time
      <4>1. Before(t) = Append(b, e) /\ After(t) = a
        BY <2>3, <3>6 DEF a, b
      <4>2. /\ \A ty : Len(EntriesByType(Before(t), ty))
                         = Len(EntriesByType(b, ty)) + More(e.event_type = ty)
            /\ Len(PendingRecoveries(Before(t)))
                 = Len(PendingRecoveries(b)) + More(IsPendingEntry(e))
        BY <2>4, <3>3, <4>1 DEF More
      <4>3. ASSUME NEW ty
            PROVE  Len(EntriesByType(t, ty))
                     = Len(EntriesByType(Before(t), ty)) + Len(EntriesByType(After(t), ty))
        <5> DEFINE x == Len(EntriesByType(b, ty))
                   y == Len(EntriesByType(a, ty))
                   n == More(e.event_type = ty)
        <5>1. x \in Nat /\ y \in Nat /\ n \in Nat
          BY <3>3, <3>5
        <5>2. Len(EntriesByType(t, ty)) = (x + y) + n
          <6>1. Len(EntriesByType(t, ty)) = Len(EntriesByType(s, ty)) + n
            BY <3>2, Zenon
          <6>2. Len(EntriesByType(s, ty)) = x + y
            BY <3>1, Zenon
          <6>3. QED
            BY <6>1, <6>2, Zenon
        <5>3. /\ Len(EntriesByType(Before(t), ty)) = x + n
              /\ Len(EntriesByType(After(t), ty)) = y
          BY <4>1, <4>2, Zenon
        <5> HIDE DEF x, y, n
        <5>4. QED
          BY <5>1, <5>2, <5>3
      <4>4. Len(PendingRecoveries(t)) =
              Len(PendingRecoveries(Before(t))) + Len(PendingRecoveries(After(t)))
        <5> DEFINE x == Len(PendingRecoveries(b))
                   y == Len(PendingRecoveries(a))
                   n == More(IsPendingEntry(e))
        <5>1. x \in Nat /\ y \in Nat /\ n \in Nat
          BY <3>3, <3>5
        <5>2. Len(PendingRecoveries(t)) = (x + y) + n
          BY <3>1, <3>2, Zenon
        <5>3. /\ Len(PendingRecoveries(Before(t))) = x + n
              /\ Len(PendingRecoveries(After(t))) = y
          BY <4>1, <4>2, Zenon
        <5> HIDE DEF x, y, n
        <5>4. QED
          BY <5>1, <5>2, <5>3
      <4>5. QED
        BY <4>3, <4>4
    <3>7. CASE ~ (e.timestamp <= time)
      <4>1. Before(t) = b /\ After(t) = Append(a, e)
        BY <2>3, <3>7 DEF a, b
      <4>2. /\ \A ty : Len(EntriesByType(After(t), ty))
                         = Len(EntriesByType(a, ty)) + More(e.event_type = ty)
            /\ Len(PendingRecoveries(After(t)))
                 = Len(PendingRecoveries(a)) + More(IsPendingEntry(e))
        BY <2>4, <3>3, <4>1 DEF More
      <4>3. ASSUME NEW ty
            PROVE  Len(EntriesByType(t, ty))
                     = Len(EntriesByType(Before(t), ty)) + Len(EntriesByType(After(t), ty))
        <5> DEFINE x == Len(EntriesByType(b, ty))
                   y == Len(EntriesByType(a, ty))
                   n == More(e.event_type = ty)
        <5>1. x \in Nat /\ y \in Nat /\ n \in Nat
          BY <3>3, <3>5
        <5>2. Len(EntriesByType(t, ty)) = (x + y) + n
          <6>1. Len(EntriesByType(t, ty)) = Len(EntriesByType(s, ty)) + n
            BY <3>2, Zenon
          <6>2. Len(EntriesByType(s, ty)) = x + y
            BY <3>1, Zenon
          <6>3. QED
            BY <6>1, <6>2, Zenon
        <5>3. /\ Len(EntriesByType(Before(t), ty)) = x
              /\ Len(EntriesByType(After(t), ty)) = y + n
          BY <4>1, <4>2, Zenon
        <5> HIDE DEF x, y, n
        <5>4. QED
          BY <5>1, <5>2, <5>3
      <4>4. Len(PendingRecoveries(t)) =
              Len(PendingRecoveries(Before(t))) + Len(PendingRecoveries(After(t)))
        <5> DEFINE x == Len(PendingRecoveries(b))
                   y == Len(PendingRecoveries(a))
                   n == More(IsPendingEntry(e))
        <5>1. x \in Nat /\ y \in Nat /\ n \in Nat
          BY <3>3, <3>5
        <5>2. Len(PendingRecoveries(t)) = (x + y) + n
          BY <3>1, <3>2, Zenon
        <5>3. /\ Len(PendingRecoveries(Before(t))) = x
              /\ Len(PendingRecoveries(After(t))) = y + n
          BY <4>1, <4>2, Zenon
        <5> HIDE DEF x, y, n
        <5>4. QED
          BY <5>1, <5>2, <5>3
      <4>5. QED
        BY <4>3, <4>4
    <3>8. QED
      BY <3>6, <3>7
  <2>7. QED
    BY <2>1, <2>6 DEF t, Before, After
<1>3. Seq(T) \subseteq G
  BY <1>1, <1>2, SequenceInduction
<1>4. QED
  BY <1>3

-----------------------------------------------------------------------------
(* The inductive invariant, part by part.                                  *)

(* Events are about known identities, of a time that has come; those of a  *)
(* recovery name the guardian and, if it is new, the new root.             *)
EventOK(event) ==
  /\ event.identity \in Identity
  /\ event.at \in 1..now
  /\ event.type \in {"RecoveryInitiated", "RecoverySupported"} =>
       event.guardian \in Address
  /\ event.type = "RecoveryInitiated" => event.arg \in Address

(* Every event of a sequence is one that the contract emits.               *)
EventsOK(events) ==
  /\ \E S : events \in Seq(S)
  /\ \A i \in 1..Len(events) : EventOK(events[i])

FeedOK == EventsOK(feed)

(* The types of what the watcher keeps.                                    *)
WatcherOK ==
  /\ \A identity \in Identity : known_guardians[identity] \in Seq(Address)
  /\ DOMAIN known_guardians = Identity
  /\ \E S : pending_notifications \in Seq(S) /\ delivered \in Seq(S)

(* An alert names a severity and a category of the source.                 *)
AlertOK(alert) ==
  alert.severity \in AlertSeverity /\ alert.category \in AlertCategory

AlertsOK ==
  /\ \E S : alerts \in Seq(S)
  /\ \A i \in 1..Len(alerts) : AlertOK(alerts[i])

(* A log entry names an event type and a moment that has passed.           *)
EntryOK(entry) ==
  entry.event_type \in EventType /\ entry.timestamp \in 1..now

EntriesOK ==
  /\ \E S : entries \in Seq(S)
  /\ \A i \in 1..Len(entries) : EntryOK(entries[i])

(* No more events are received than the model lets happen.                 *)
CountsOK == received \in Nat /\ received + Len(feed) <= MaxEvents

(* What an entry says of a root, and what is true of it.                   *)
StateTypes == {"RecoveryStateChanged", "SessionInvalidated"}

(* What the entry says.                                                    *)
SaysOf(entry, event_type) ==
  IF event_type = "RecoveryStateChanged" THEN entry.metadata.new_state
  ELSE entry.metadata.new_epoch

(* What the contract says.                                                 *)
IsSo(root, event_type) ==
  IF event_type = "RecoveryStateChanged" THEN identityState[root]
  ELSE sessionEpoch[root]

(* The newest entry about a root, on its way or logged, tells the truth.   *)
NewestIsTrue ==
  \A root \in Address, event_type \in StateTypes, i \in Nat :
    Newest(LogAndFeed, i, root, event_type) =>
      SaysOf(LogAndFeed[i], event_type) = IsSo(root, event_type)

(* The recovery that a holder keeps is the one of the contract.  Approvals *)
(* that the contract no longer counts may still be in recoveryApproved.    *)
AgreesWith(pending) ==
  IF pending = NoRecovery THEN ~ Pending(OurRoot)
  ELSE /\ pending \in TrackedRecovery
       /\ pending.request.new_root = pendingNewRoot[OurRoot]
       /\ Len(pending.approvals) = recoveryApprovals[OurRoot]
       /\ \A i \in 1..Len(pending.approvals) :
            pending.approvals[i] \in recoveryApproved[OurRoot]
       /\ pending.initiated_at = IF recoveryInitiatedAt[OurRoot] = 0 THEN Unset
                                 ELSE recoveryInitiatedAt[OurRoot]

(* f is what a holder keeps while it handles events one after the other.   *)
IsReplay(f, pending, events) ==
  /\ f[0] = pending
  /\ \A i \in 1..Len(events) : f[i] = Followed(f[i - 1], events[i])

(* Having handled what is on its way, the holder will agree.               *)
WillAgree ==
  \E f, last : /\ IsReplay(f, tracker, feed)
               /\ last = f[Len(feed)]
               /\ AgreesWith(last)

(* The inductive invariant.                                                *)
MonitorInv ==
  /\ TypeOK /\ RecoveryCoherent
  /\ FeedOK /\ CountsOK /\ WatcherOK /\ AlertsOK /\ EntriesOK
  /\ NoticesAreOwed /\ AlertsMatchLog /\ NewestIsTrue /\ WillAgree

-----------------------------------------------------------------------------
(* What the events of one call say of the new state of the contract.       *)
SaysState(events) ==
  \A root \in Address, event_type \in StateTypes :
    /\ \A i \in 1..Len(events) :
         Fits(EntryOf(events[i]), root, event_type) =>
           SaysOf(EntryOf(events[i]), event_type) = IsSo(root, event_type)'
    /\ \/ IsSo(root, event_type)' = IsSo(root, event_type)
       \/ \E i \in 1..Len(events) : Fits(EntryOf(events[i]), root, event_type)

(* A tracker that agrees with the contract before a call does so after it, *)
(* once it has followed the events of the call.                            *)
SaysRecovery(events) ==
  \A pending :
    AgreesWith(pending) =>
      \E f, next : /\ IsReplay(f, pending, events)
                   /\ next = f[Len(events)]
                   /\ AgreesWith(next)'

(* A call appends truthful events and leaves the watcher be.               *)
Emitted ==
  /\ UNCHANGED now
  /\ \E events : /\ Emit(events) /\ EventsOK(events)
                 /\ SaysState(events) /\ SaysRecovery(events)

(* A call that emits one event, and what has to be shown of it.            *)
LEMMA OneEvent ==
  ASSUME UNCHANGED now, NEW e, Emit(<<e>>), EventOK(e),
         \A root \in Address, event_type \in StateTypes :
           IF Fits(EntryOf(e), root, event_type)
           THEN SaysOf(EntryOf(e), event_type) = IsSo(root, event_type)'
           ELSE IsSo(root, event_type)' = IsSo(root, event_type),
         \A pending, next :
           AgreesWith(pending) /\ next = Followed(pending, e) => AgreesWith(next)'
  PROVE  Emitted
<1>1. <<e>> \in Seq({e}) /\ Len(<<e>>) = 1 /\ <<e>>[1] = e
  OBVIOUS
<1>2. EventsOK(<<e>>)
  <2>1. \A i \in 1..Len(<<e>>) : EventOK(<<e>>[i])
    BY <1>1
  <2>2. QED
    BY <1>1, <2>1, Zenon DEF EventsOK
<1>3. SaysState(<<e>>)
  BY <1>1 DEF SaysState
<1>4. SaysRecovery(<<e>>)
  <2> SUFFICES ASSUME NEW pending, AgreesWith(pending)
               PROVE  \E f, next : /\ IsReplay(f, pending, <<e>>)
                                   /\ next = f[Len(<<e>>)]
                                   /\ AgreesWith(next)'
    BY DEF SaysRecovery
  <2>1. PICK next : next = Followed(pending, e)
    OBVIOUS
  <2>2. AgreesWith(next)'
    BY <2>1
  <2> DEFINE f == [i \in 0..1 |-> IF i = 0 THEN pending ELSE next]
  <2>3. f[0] = pending /\ f[1] = next
    OBVIOUS
  <2> HIDE DEF f
  <2>4. IsReplay(f, pending, <<e>>)
    BY <1>1, <2>1, <2>3 DEF IsReplay
  <2>5. next = f[Len(<<e>>)]
    BY <1>1, <2>3
  <2>6. QED
    BY <2>2, <2>4, <2>5
<1>5. QED
  BY <1>2, <1>3, <1>4, Zenon DEF Emitted

(* A call that emits two.                                                  *)
LEMMA TwoEvents ==
  ASSUME UNCHANGED now, NEW e, NEW f, Emit(<<e, f>>), EventOK(e), EventOK(f),
         \A root \in Address, event_type \in StateTypes :
           /\ Fits(EntryOf(e), root, event_type) =>
                SaysOf(EntryOf(e), event_type) = IsSo(root, event_type)'
           /\ Fits(EntryOf(f), root, event_type) =>
                SaysOf(EntryOf(f), event_type) = IsSo(root, event_type)'
           /\ \/ Fits(EntryOf(e), root, event_type)
              \/ Fits(EntryOf(f), root, event_type)
              \/ IsSo(root, event_type)' = IsSo(root, event_type),
         \A pending, next :
           AgreesWith(pending) /\ next = Followed(pending, e) => AgreesWith(next)',
         \A pending : Followed(pending, f) = pending
  PROVE  Emitted
<1>1. /\ <<e, f>> \in Seq({e, f}) /\ Len(<<e, f>>) = 2
      /\ <<e, f>>[1] = e /\ <<e, f>>[2] = f
  OBVIOUS
<1>2. EventsOK(<<e, f>>)
  <2>1. \A i \in 1..Len(<<e, f>>) : EventOK(<<e, f>>[i])
    BY <1>1
  <2>2. QED
    BY <1>1, <2>1, Zenon DEF EventsOK
<1>3. SaysState(<<e, f>>)
  BY <1>1 DEF SaysState
<1>4. SaysRecovery(<<e, f>>)
  <2> SUFFICES ASSUME NEW pending, AgreesWith(pending)
               PROVE  \E g, next : /\ IsReplay(g, pending, <<e, f>>)
                                   /\ next = g[Len(<<e, f>>)]
                                   /\ AgreesWith(next)'
    BY DEF SaysRecovery
  <2>1. PICK next : next = Followed(pending, e)
    OBVIOUS
  <2>2. AgreesWith(next)'
    BY <2>1
  <2> DEFINE g == [i \in 0..2 |-> IF i = 0 THEN pending ELSE next]
  <2>3. g[0] = pending /\ g[1] = next /\ g[2] = next
    OBVIOUS
  <2> HIDE DEF g
  <2>4. IsReplay(g, pending, <<e, f>>)
    BY <1>1, <2>1, <2>3 DEF IsReplay
  <2>5. next = g[Len(<<e, f>>)]
    BY <1>1, <2>3
  <2>6. QED
    BY <2>2, <2>4, <2>5
<1>5. QED
  BY <1>2, <1>3, <1>4, Zenon DEF Emitted

-----------------------------------------------------------------------------
(* What the entry of an event says, and of which event it is one.          *)
LEMMA EntryOfEvent ==
  ASSUME NEW event
  PROVE  LET entry == EntryOf(event) IN
         /\ entry.identity = event.identity /\ entry.timestamp = event.at
         /\ event.type = "SessionInvalidated" =>
              /\ entry.event_type = "SessionInvalidated"
              /\ entry.metadata.new_epoch = event.arg
         /\ event.type \in {"RecoveryInitiated", "RecoveryOver", "RecoveryStateChanged"} =>
              /\ entry.event_type = "RecoveryStateChanged"
              /\ entry.metadata.new_state = event.what
         /\ event.type \notin {"SessionInvalidated", "RecoveryInitiated",
                               "RecoveryOver", "RecoveryStateChanged"} =>
              entry.event_type \notin StateTypes
BY DEF EntryOf, EventLogEntry, StateTypes

(* A recovery is followed by the events of its beginning and end alone.    *)
LEMMA FollowedUnmoved ==
  ASSUME NEW pending, NEW event,
         \/ event.type \notin {"RecoveryInitiated", "RecoverySupported", "RecoveryOver"}
         \/ event.identity # OurRoot
  PROVE  Followed(pending, event) = pending
BY DEF Followed, IsAlert, NewPendingRecovery

(* A tracker agrees with the contract as long as the recovery of the root  *)
(* it watches stays as it is.                                              *)
LEMMA AgreementUnmoved ==
  ASSUME pendingNewRoot'[OurRoot] = pendingNewRoot[OurRoot],
         recoveryApprovals'[OurRoot] = recoveryApprovals[OurRoot],
         recoveryApproved'[OurRoot] = recoveryApproved[OurRoot],
         recoveryInitiatedAt'[OurRoot] = recoveryInitiatedAt[OurRoot],
         NEW pending, AgreesWith(pending)
  PROVE  AgreesWith(pending)'
BY DEF AgreesWith, Pending

(* One step per call: its events are true of the state that it leaves.     *)
LEMMA InitiateEmits ==
  ASSUME TypeOK, RecoveryCoherent, NEW req \in RecoveryRequest, Initiate(req)
  PROVE  Emitted
<1> DEFINE root == req.oldRoot
           e == Event("RecoveryInitiated", root, "RecoveryPending",
                      req.signer, req.newRoot)
<1>1. /\ root \in Address /\ root \in Identity /\ req.signer \in Address
      /\ req.newRoot \in Address
  BY WatchAssumption, MessageAssumption
  DEF IsRecoveryRequest, Initiate, InitiateRecovery
<1>2. /\ UNCHANGED <<now, sessionEpoch, recoveryInitiatedAt>>
      /\ pendingNewRoot[root] = NoAddress
      /\ pendingNewRoot' = [pendingNewRoot EXCEPT ![root] = req.newRoot]
      /\ recoveryApprovals' = [recoveryApprovals EXCEPT ![root] = 1]
      /\ recoveryApproved' = [recoveryApproved EXCEPT ![root] = @ \cup {req.signer}]
      /\ identityState' = [identityState EXCEPT ![root] = "RecoveryPending"]
      /\ Emit(<<e>>)
  BY DEF Initiate, InitiateRecovery
<1>3. /\ e.type = "RecoveryInitiated" /\ e.identity = root /\ e.at = now
      /\ e.what = "RecoveryPending" /\ e.guardian = req.signer
      /\ e.arg = req.newRoot
  BY DEF Event
<1> HIDE DEF e
<1>4. EventOK(e)
  BY <1>1, <1>3 DEF EventOK, TypeOK
<1>5. ASSUME NEW r \in Address, NEW event_type \in StateTypes
      PROVE  IF Fits(EntryOf(e), r, event_type)
             THEN SaysOf(EntryOf(e), event_type) = IsSo(r, event_type)'
             ELSE IsSo(r, event_type)' = IsSo(r, event_type)
  <2>1. /\ EntryOf(e).identity = root
        /\ EntryOf(e).event_type = "RecoveryStateChanged"
        /\ EntryOf(e).metadata.new_state = "RecoveryPending"
    BY <1>3, EntryOfEvent
  <2>2. QED
    BY <1>1, <1>2, <2>1 DEF Fits, SaysOf, IsSo, StateTypes, TypeOK
<1>6. ASSUME NEW pending, NEW next, AgreesWith(pending), next = Followed(pending, e)
      PROVE  AgreesWith(next)'
  <2>1. CASE root # OurRoot
    BY <1>2, <1>3, <1>6, <2>1, FollowedUnmoved, AgreementUnmoved,
       WatchAssumption DEF TypeOK
  <2>2. CASE root = OurRoot
    <3>1. recoveryInitiatedAt[OurRoot] = 0
      <4>1. RecoveryCoherentAt(OurRoot)
        BY WatchAssumption DEF RecoveryCoherent
      <4>2. QED
        BY <1>2, <2>2, <4>1, WatchAssumption, ParameterAssumption
        DEF RecoveryCoherentAt, Pending, TypeOK
    <3>2. next = [request |-> [old_root |-> root, new_root |-> req.newRoot],
                  approvals |-> <<req.signer>>, initiated_at |-> Unset]
      BY <1>3, <1>6, <2>2 DEF Followed, IsAlert, NewPendingRecovery,
         AddApproval, HasApproved
    <3>3. next \in TrackedRecovery
      BY <1>1, <2>2, <3>2 DEF TrackedRecovery
    <3>4. next # NoRecovery
      BY <3>3, TrackerAssumption
    <3>5. /\ pendingNewRoot'[OurRoot] = req.newRoot
          /\ recoveryApprovals'[OurRoot] = 1
          /\ req.signer \in recoveryApproved'[OurRoot]
          /\ recoveryInitiatedAt'[OurRoot] = 0
      BY <1>2, <2>2, <3>1, WatchAssumption DEF TypeOK
    <3>6. QED
      BY <3>2, <3>3, <3>4, <3>5 DEF AgreesWith, Pending
  <2>3. QED
    BY <2>1, <2>2
<1>7. QED
  BY <1>2, <1>4, <1>5, <1>6, OneEvent

(* supportRecovery emits RecoverySupported, and at the threshold           *)
(* RecoveryReady, in this order.                                           *)
LEMMA SupportEmits ==
  ASSUME TypeOK, RecoveryCoherent, NEW req \in RecoveryRequest, Support(req)
  PROVE  Emitted
<1> DEFINE root == req.oldRoot
           approvals == recoveryApprovals[root] + 1
           e == Event("RecoverySupported", root, "RecoveryPending", req.signer, 0)
<1>1. root \in Address /\ root \in Identity /\ req.signer \in Address
  BY WatchAssumption, MessageAssumption DEF IsRecoveryRequest
<1>2. /\ UNCHANGED <<now, sessionEpoch, identityState, pendingNewRoot>>
      /\ pendingNewRoot[root] # NoAddress
      /\ req.signer \notin recoveryApproved[root]
      /\ recoveryApprovals' = [recoveryApprovals EXCEPT ![root] = approvals]
      /\ recoveryApproved' = [recoveryApproved EXCEPT ![root] = @ \cup {req.signer}]
      /\ recoveryInitiatedAt' =
           [recoveryInitiatedAt EXCEPT ![root] = TimelockStart(root, approvals)]
      /\ Emit(<<e>>)
  BY DEF Support, SupportRecovery, NotYetApproved
<1>3. /\ e.type = "RecoverySupported" /\ e.identity = root /\ e.at = now
      /\ e.guardian = req.signer
  BY DEF Event
<1> HIDE DEF e
<1>4. EventOK(e)
  BY <1>1, <1>3 DEF EventOK, TypeOK
<1>5. ASSUME NEW r \in Address, NEW event_type \in StateTypes
      PROVE  IF Fits(EntryOf(e), r, event_type)
             THEN SaysOf(EntryOf(e), event_type) = IsSo(r, event_type)'
             ELSE IsSo(r, event_type)' = IsSo(r, event_type)
  <2>1. EntryOf(e).event_type \notin StateTypes
    BY <1>3, EntryOfEvent
  <2>2. QED
    BY <1>2, <2>1 DEF Fits, IsSo
<1>6. ASSUME NEW pending, NEW next, AgreesWith(pending), next = Followed(pending, e)
      PROVE  AgreesWith(next)'
  <2>1. CASE root # OurRoot
    BY <1>2, <1>3, <1>6, <2>1, FollowedUnmoved, AgreementUnmoved,
       WatchAssumption DEF TypeOK
  <2>2. CASE root = OurRoot
    <3> DEFINE with == [pending EXCEPT !.approvals = Append(@, req.signer)]
    <3>1. /\ pending # NoRecovery /\ pending \in TrackedRecovery
          /\ pending.request.new_root = pendingNewRoot[OurRoot]
          /\ Len(pending.approvals) = recoveryApprovals[OurRoot]
          /\ \A i \in 1..Len(pending.approvals) :
               pending.approvals[i] \in recoveryApproved[OurRoot]
          /\ pending.initiated_at = IF recoveryInitiatedAt[OurRoot] = 0 THEN Unset
                                    ELSE recoveryInitiatedAt[OurRoot]
      BY <1>2, <1>6, <2>2 DEF AgreesWith, Pending
    <3>2. pending.approvals \in Seq(Address)
      BY <3>1 DEF TrackedRecovery
    <3>3. AddApproval(pending, req.signer) = with
      <4>1. DOMAIN pending.approvals = 1..Len(pending.approvals)
        BY <3>2
      <4>2. ~ HasApproved(pending, req.signer)
        BY <1>2, <2>2, <3>1, <4>1 DEF HasApproved
      <4>3. QED
        BY <4>2 DEF AddApproval
    <3>4. next = StartTimelock(with, now)
      BY <1>3, <1>6, <2>2, <3>3 DEF Followed, IsAlert, NewPendingRecovery
    <3>5. /\ with \in TrackedRecovery
          /\ with.request = pending.request /\ with.initiated_at = pending.initiated_at
          /\ with.approvals = Append(pending.approvals, req.signer)
      <4>1. Append(pending.approvals, req.signer) \in Seq(Address)
        BY <1>1, <3>2
      <4>2. QED
        BY <3>1, <4>1 DEF TrackedRecovery
    <3> HIDE DEF with
    <3>0. /\ recoveryApprovals[OurRoot] \in Nat
          /\ recoveryApprovals'[OurRoot] = recoveryApprovals[OurRoot] + 1
          /\ recoveryApproved'[OurRoot] = recoveryApproved[OurRoot] \cup {req.signer}
          /\ recoveryInitiatedAt'[OurRoot] =
               TimelockStart(OurRoot, recoveryApprovals[OurRoot] + 1)
          /\ recoveryInitiatedAt[OurRoot] \in Nat /\ now \in Nat \ {0}
      BY <1>1, <1>2, <2>2, ParameterAssumption DEF TypeOK
    <3>6. /\ Len(with.approvals) = recoveryApprovals'[OurRoot]
          /\ \A i \in 1..Len(with.approvals) :
               with.approvals[i] \in recoveryApproved'[OurRoot]
      BY <3>0, <3>1, <3>2, <3>5, <1>1
    <3>7. /\ now \in Nat \ {0} /\ recoveryInitiatedAt[OurRoot] \in Nat
          /\ recoveryInitiatedAt'[OurRoot] =
               IF recoveryApprovals'[OurRoot] >= GuardianThreshold
                    /\ recoveryInitiatedAt[OurRoot] = 0
               THEN now ELSE recoveryInitiatedAt[OurRoot]
      BY <3>0 DEF TimelockStart
    <3>8. /\ next \in TrackedRecovery /\ next.request = pending.request
          /\ next.approvals = with.approvals
          /\ next.initiated_at = IF recoveryInitiatedAt'[OurRoot] = 0 THEN Unset
                                 ELSE recoveryInitiatedAt'[OurRoot]
      <4>1. with.initiated_at = Unset <=> recoveryInitiatedAt[OurRoot] = 0
        BY <3>1, <3>5, <3>7, TrackerAssumption
      <4>2. CASE with.initiated_at = Unset /\ Len(with.approvals) >= GuardianThreshold
        <5>1. next = [with EXCEPT !.initiated_at = now]
          BY <3>4, <4>2 DEF StartTimelock, ThresholdMet, StartTimelockAt
        <5>2. QED
          BY <3>5, <3>6, <3>7, <4>1, <4>2, <5>1 DEF TrackedRecovery
      <4>3. CASE ~ (with.initiated_at = Unset /\ Len(with.approvals) >= GuardianThreshold)
        <5>1. next = with
          BY <3>4, <4>3 DEF StartTimelock, ThresholdMet
        <5>2. recoveryInitiatedAt'[OurRoot] = recoveryInitiatedAt[OurRoot]
          BY <3>6, <3>7, <4>1, <4>3
        <5>3. QED
          BY <3>1, <3>5, <5>1, <5>2
      <4>4. QED
        BY <4>2, <4>3
    <3>9. QED
      <4>1. next # NoRecovery
        BY <3>8, TrackerAssumption
      <4>2. pendingNewRoot' = pendingNewRoot
        BY <1>2
      <4>3. QED
        BY <3>1, <3>6, <3>8, <4>1, <4>2 DEF AgreesWith
  <2>3. QED
    BY <2>1, <2>2
<1>7. QED
  BY <1>2, <1>4, <1>5, <1>6, OneEvent

-----------------------------------------------------------------------------
(* cancelRecovery.                                                         *)
LEMMA CancelEmits ==
  ASSUME TypeOK, NEW root \in Root, Cancel(root)
  PROVE  Emitted
<1> DEFINE e == Event("RecoveryOver", root, "Active", NoGuardian, 0)
<1>1. root \in Address /\ root \in Identity
  BY WatchAssumption, AddressAssumption
<1>2. /\ UNCHANGED <<now, sessionEpoch>>
      /\ ClearRecovery(root, _guardians[root])
      /\ identityState' = [identityState EXCEPT ![root] = "Active"]
      /\ Emit(<<e>>)
  BY DEF Cancel, CancelRecovery
<1>3. e.type = "RecoveryOver" /\ e.identity = root /\ e.at = now /\ e.what = "Active"
  BY DEF Event
<1> HIDE DEF e
<1>4. EventOK(e)
  BY <1>1, <1>3 DEF EventOK, TypeOK
<1>5. ASSUME NEW r \in Address, NEW event_type \in StateTypes
      PROVE  IF Fits(EntryOf(e), r, event_type)
             THEN SaysOf(EntryOf(e), event_type) = IsSo(r, event_type)'
             ELSE IsSo(r, event_type)' = IsSo(r, event_type)
  <2>1. /\ EntryOf(e).identity = root
        /\ EntryOf(e).event_type = "RecoveryStateChanged"
        /\ EntryOf(e).metadata.new_state = "Active"
    BY <1>3, EntryOfEvent
  <2>2. QED
    BY <1>1, <1>2, <2>1 DEF Fits, SaysOf, IsSo, StateTypes, TypeOK
<1>6. ASSUME NEW pending, NEW next, AgreesWith(pending), next = Followed(pending, e)
      PROVE  AgreesWith(next)'
  <2>1. CASE root # OurRoot
    BY <1>2, <1>3, <1>6, <2>1, FollowedUnmoved, AgreementUnmoved, WatchAssumption
    DEF TypeOK, ClearRecovery
  <2>2. CASE root = OurRoot
    <3>1. next = NoRecovery
      BY <1>3, <1>6, <2>2 DEF Followed
    <3>2. pendingNewRoot'[OurRoot] = NoAddress
      BY <1>1, <1>2, <2>2 DEF ClearRecovery, TypeOK
    <3>3. QED
      BY <3>1, <3>2 DEF AgreesWith, Pending
  <2>3. QED
    BY <2>1, <2>2
<1>7. QED
  BY <1>2, <1>4, <1>5, <1>6, OneEvent

(* finalizeRecovery, whether the new root is another account or the old    *)
(* one.                                                                    *)
LEMMA FinalizeEmits ==
  ASSUME TypeOK, NEW root \in Root, Finalize(root)
  PROVE  Emitted
<1> DEFINE newRoot == pendingNewRoot[root]
           e == Event("RecoveryOver", root, "Active", NoGuardian, 0)
           f == StateChange(newRoot, "Active")
<1>1. /\ root \in Address /\ root \in Identity
      /\ newRoot \in Address /\ newRoot \in Identity
  BY WatchAssumption, AddressAssumption DEF Finalize, FinalizeRecovery, TypeOK
<1>2. /\ UNCHANGED <<now, sessionEpoch>>
      /\ \E list : ClearRecovery(root, list)
      /\ identityState' =
           [identityState EXCEPT ![root] = "Active", ![newRoot] = "Active"]
      /\ Emit(<<e, f>>)
  BY DEF Finalize, FinalizeRecovery
<1>3. /\ e.type = "RecoveryOver" /\ e.identity = root /\ e.at = now /\ e.what = "Active"
      /\ f.type = "RecoveryStateChanged" /\ f.identity = newRoot /\ f.at = now
      /\ f.what = "Active"
  BY DEF Event, StateChange
<1> HIDE DEF e, f, newRoot
<1>4. EventOK(e) /\ EventOK(f)
  BY <1>1, <1>3 DEF EventOK, TypeOK
<1>5. ASSUME NEW r \in Address, NEW event_type \in StateTypes
      PROVE  /\ Fits(EntryOf(e), r, event_type) =>
                  SaysOf(EntryOf(e), event_type) = IsSo(r, event_type)'
             /\ Fits(EntryOf(f), r, event_type) =>
                  SaysOf(EntryOf(f), event_type) = IsSo(r, event_type)'
             /\ \/ Fits(EntryOf(e), r, event_type)
                \/ Fits(EntryOf(f), r, event_type)
                \/ IsSo(r, event_type)' = IsSo(r, event_type)
  <2>1. /\ EntryOf(e).identity = root
        /\ EntryOf(e).event_type = "RecoveryStateChanged"
        /\ EntryOf(e).metadata.new_state = "Active"
        /\ EntryOf(f).identity = newRoot
        /\ EntryOf(f).event_type = "RecoveryStateChanged"
        /\ EntryOf(f).metadata.new_state = "Active"
    BY <1>3, EntryOfEvent
  <2>2. /\ identityState'[root] = "Active" /\ identityState'[newRoot] = "Active"
        /\ r \notin {root, newRoot} => identityState'[r] = identityState[r]
    BY <1>1, <1>2 DEF TypeOK
  <2>3. QED
    BY <1>2, <2>1, <2>2 DEF Fits, SaysOf, IsSo, StateTypes
<1>6. ASSUME NEW pending, NEW next, AgreesWith(pending), next = Followed(pending, e)
      PROVE  AgreesWith(next)'
  <2>1. CASE root # OurRoot
    BY <1>2, <1>3, <1>6, <2>1, FollowedUnmoved, AgreementUnmoved, WatchAssumption
    DEF TypeOK, ClearRecovery
  <2>2. CASE root = OurRoot
    <3>1. next = NoRecovery
      BY <1>3, <1>6, <2>2 DEF Followed
    <3>2. pendingNewRoot'[OurRoot] = NoAddress
      BY <1>1, <1>2, <2>2 DEF ClearRecovery, TypeOK
    <3>3. QED
      BY <3>1, <3>2 DEF AgreesWith, Pending
  <2>3. QED
    BY <2>1, <2>2
<1>7. \A pending : Followed(pending, f) = pending
  BY <1>3, FollowedUnmoved
<1>8. QED
  BY <1>2, <1>4, <1>5, <1>6, <1>7, TwoEvents

(* Calls that leave recoveries alone: what they emit is about no recovery. *)
LEMMA AsideEmits ==
  ASSUME TypeOK, UNCHANGED <<now, recoveryVars>>, NEW e, Emit(<<e>>),
         e.identity \in Identity, e.at = now,
         e.type \notin {"RecoveryInitiated", "RecoverySupported", "RecoveryOver"},
         \A root \in Address, event_type \in StateTypes :
           IF Fits(EntryOf(e), root, event_type)
           THEN SaysOf(EntryOf(e), event_type) = IsSo(root, event_type)'
           ELSE IsSo(root, event_type)' = IsSo(root, event_type)
  PROVE  Emitted
<1>1. EventOK(e)
  BY DEF EventOK, TypeOK
<1>2. ASSUME NEW pending, NEW next, AgreesWith(pending), next = Followed(pending, e)
      PROVE  AgreesWith(next)'
  BY <1>2, FollowedUnmoved, AgreementUnmoved DEF recoveryVars
<1>3. QED
  BY <1>1, <1>2, OneEvent

(* freezeIdentity and unfreezeIdentity.                                    *)
LEMMA StateCallEmits ==
  ASSUME TypeOK, NEW root \in Root, Freeze(root) \/ Unfreeze(root)
  PROVE  Emitted
<1>1. root \in Address /\ root \in Identity
  BY WatchAssumption, AddressAssumption
<1>2. PICK state : /\ identityState' = [identityState EXCEPT ![root] = state]
                   /\ Emit(<<StateChange(root, state)>>)
                   /\ UNCHANGED <<now, recoveryVars, sessionEpoch>>
  BY DEF Freeze, Unfreeze, FreezeIdentity, UnfreezeIdentity
<1> DEFINE e == StateChange(root, state)
<1>3. /\ e.type = "RecoveryStateChanged" /\ e.identity = root /\ e.at = now
      /\ e.what = state
  BY DEF Event, StateChange
<1> HIDE DEF e
<1>4. /\ EntryOf(e).identity = root
      /\ EntryOf(e).event_type = "RecoveryStateChanged"
      /\ EntryOf(e).metadata.new_state = state
  BY <1>3, EntryOfEvent
<1>5. ASSUME NEW r \in Address, NEW event_type \in StateTypes
      PROVE  IF Fits(EntryOf(e), r, event_type)
             THEN SaysOf(EntryOf(e), event_type) = IsSo(r, event_type)'
             ELSE IsSo(r, event_type)' = IsSo(r, event_type)
  BY <1>1, <1>2, <1>4 DEF Fits, SaysOf, IsSo, StateTypes, TypeOK
<1>6. Emit(<<e>>)
  BY <1>2 DEF e
<1>7. QED
  BY <1>1, <1>2, <1>3, <1>5, <1>6, AsideEmits

(* cancelAllSessions.                                                      *)
LEMMA InvalidateEmits ==
  ASSUME TypeOK, NEW root \in Root, Invalidate(root)
  PROVE  Emitted
<1>1. root \in Address /\ root \in Identity
  BY WatchAssumption, AddressAssumption
<1> DEFINE e == Event("SessionInvalidated", root, "", NoGuardian, sessionEpoch[root] + 1)
<1>2. /\ sessionEpoch' = [sessionEpoch EXCEPT ![root] = @ + 1]
      /\ Emit(<<e>>)
      /\ UNCHANGED <<now, recoveryVars, identityState>>
  BY DEF Invalidate, CancelAllSessions
<1>3. /\ e.type = "SessionInvalidated" /\ e.identity = root /\ e.at = now
      /\ e.arg = sessionEpoch[root] + 1
  BY DEF Event
<1> HIDE DEF e
<1>4. /\ EntryOf(e).identity = root
      /\ EntryOf(e).event_type = "SessionInvalidated"
      /\ EntryOf(e).metadata.new_epoch = sessionEpoch[root] + 1
  BY <1>3, EntryOfEvent
<1>5. ASSUME NEW r \in Address, NEW event_type \in StateTypes
      PROVE  IF Fits(EntryOf(e), r, event_type)
             THEN SaysOf(EntryOf(e), event_type) = IsSo(r, event_type)'
             ELSE IsSo(r, event_type)' = IsSo(r, event_type)
  BY <1>1, <1>2, <1>4 DEF Fits, SaysOf, IsSo, StateTypes, TypeOK
<1>6. QED
  BY <1>1, <1>2, <1>3, <1>5, AsideEmits

(* validateDelegatedIntent.                                                *)
LEMMA EndorseEmits ==
  ASSUME TypeOK, NEW delegation \in Delegation, NEW intent \in Intent,
         NEW value \in CallValue, Endorse(delegation, intent, value)
  PROVE  Emitted
<1> DEFINE e == Event("DelegationEndorsed", delegation.prover, delegation.scope,
                      NoGuardian, delegation.delegate)
<1>1. delegation.prover \in Identity
  BY WatchAssumption, MessageAssumption DEF IsDelegation
<1>2. Emit(<<e>>) /\ UNCHANGED <<now, recoveryVars, identityState, sessionEpoch>>
  BY DEF Endorse, ValidateDelegatedIntent
<1>3. /\ e.type = "DelegationEndorsed" /\ e.identity = delegation.prover /\ e.at = now
  BY DEF Event
<1> HIDE DEF e
<1>4. EntryOf(e).event_type \notin StateTypes
  BY <1>3, EntryOfEvent
<1>5. ASSUME NEW r \in Address, NEW event_type \in StateTypes
      PROVE  IF Fits(EntryOf(e), r, event_type)
             THEN SaysOf(EntryOf(e), event_type) = IsSo(r, event_type)'
             ELSE IsSo(r, event_type)' = IsSo(r, event_type)
  BY <1>2, <1>4 DEF Fits, IsSo
<1>6. QED
  BY <1>1, <1>2, <1>3, <1>5, AsideEmits

(* What the gateway and the fallback report changes nothing of the store.  *)
LEMMA ReportEmits ==
  ASSUME TypeOK, NEW root \in Root, NEW session, NEW value,
         Execute(root, session, value) \/ ReportOffline(root, session)
  PROVE  Emitted
<1> DEFINE Report(type, arg) == Event(type, root, session, NoGuardian, arg)
           Types == {"IntentExecuted", "HighValueIntent", "OfflineSession"}
<1>1. root \in Identity
  BY WatchAssumption, AddressAssumption
<1>2. UNCHANGED <<now, recoveryVars, identityState, sessionEpoch>>
  BY DEF Execute, ReportOffline, vars, storeVars
<1>3. ASSUME NEW type \in Types, NEW arg
      PROVE  /\ EventOK(Report(type, arg))
             /\ Report(type, arg).identity \in Identity /\ Report(type, arg).at = now
             /\ Report(type, arg).type = type
             /\ EntryOf(Report(type, arg)).event_type \notin StateTypes
             /\ \A pending : Followed(pending, Report(type, arg)) = pending
  <2> DEFINE e == Report(type, arg)
  <2>1. e.type = type /\ e.identity = root /\ e.at = now
    BY DEF Event
  <2> HIDE DEF e
  <2>2. EventOK(e) /\ EntryOf(e).event_type \notin StateTypes
    <3>1. e.type \notin {"SessionInvalidated", "RecoveryInitiated", "RecoverySupported",
                        "RecoveryOver", "RecoveryStateChanged"}
      BY <2>1
    <3>2. EntryOf(e).event_type \notin StateTypes
      BY <3>1, EntryOfEvent
    <3>3. EventOK(e)
      BY <1>1, <2>1, <3>1 DEF EventOK, TypeOK
    <3>4. QED
      BY <3>2, <3>3
  <2>3. \A pending : Followed(pending, e) = pending
    BY <2>1, FollowedUnmoved
  <2>4. QED
    BY <1>1, <2>1, <2>2, <2>3 DEF e
<1> HIDE DEF Report
<1>4. CASE ReportOffline(root, session)
  <2> DEFINE e == Report("OfflineSession", 0)
  <2>1. Emit(<<e>>)
    BY <1>4 DEF ReportOffline, Report
  <2> HIDE DEF e
  <2>2. /\ e.identity \in Identity /\ e.at = now /\ e.type = "OfflineSession"
        /\ EntryOf(e).event_type \notin StateTypes
    BY <1>3 DEF e
  <2>3. ASSUME NEW r \in Address, NEW event_type \in StateTypes
        PROVE  ~ Fits(EntryOf(e), r, event_type)
               /\ IsSo(r, event_type)' = IsSo(r, event_type)
    BY <1>2, <2>2 DEF Fits, IsSo
  <2>4. QED
    BY <1>2, <2>1, <2>2, <2>3, AsideEmits
<1>5. CASE Execute(root, session, value)
  <2> DEFINE e == Report("IntentExecuted", value)
             f == Report("HighValueIntent", value)
  <2>1. Emit(<<e, f>>)
    BY <1>5 DEF Execute, Report
  <2> HIDE DEF e, f
  <2>2. /\ EventOK(e) /\ EventOK(f)
        /\ EntryOf(e).event_type \notin StateTypes
        /\ EntryOf(f).event_type \notin StateTypes
        /\ \A pending : Followed(pending, e) = pending /\ Followed(pending, f) = pending
    BY <1>3 DEF e, f
  <2>3. ASSUME NEW r \in Address, NEW event_type \in StateTypes
        PROVE  /\ ~ Fits(EntryOf(e), r, event_type)
               /\ ~ Fits(EntryOf(f), r, event_type)
               /\ IsSo(r, event_type)' = IsSo(r, event_type)
    BY <1>2, <2>2 DEF Fits, IsSo
  <2>4. ASSUME NEW pending, NEW next, AgreesWith(pending), next = Followed(pending, e)
        PROVE  AgreesWith(next)'
    BY <1>2, <2>2, <2>4, AgreementUnmoved DEF recoveryVars
  <2>5. QED
    BY <1>2, <2>1, <2>2, <2>3, <2>4, TwoEvents
<1>6. QED
  BY <1>4, <1>5

(* Every call of the contract that emits events emits truthful ones.       *)
LEMMA CallEmits ==
  ASSUME TypeOK, RecoveryCoherent, ChainCall
  PROVE  Emitted
BY InitiateEmits, SupportEmits, CancelEmits, FinalizeEmits, StateCallEmits,
   InvalidateEmits, EndorseEmits, ReportEmits DEF ChainCall

-----------------------------------------------------------------------------
(* Reducing notifications to notices commutes with concatenation.          *)
LEMMA NoticesOfConcat ==
  ASSUME NEW S, NEW a \in Seq(S), NEW b \in Seq(S)
  PROVE  Notices(a \o b) = Notices(a) \o Notices(b)
<1> DEFINE N(x) == [guardian  |-> x.guardian,
                    identity  |-> x.alert.identity,
                    timestamp |-> x.alert.timestamp]
           T == {N(x) : x \in S}
<1>1. Notices(a) = [i \in 1..Len(a) |-> N(a[i])] /\ Notices(a) \in Seq(T)
  BY DEF Notices
<1>2. Notices(b) = [i \in 1..Len(b) |-> N(b[i])] /\ Notices(b) \in Seq(T)
  BY DEF Notices
<1>3. /\ a \o b \in Seq(S) /\ Len(a \o b) = Len(a) + Len(b)
      /\ \A i \in 1..(Len(a) + Len(b)) :
           (a \o b)[i] = IF i <= Len(a) THEN a[i] ELSE b[i - Len(a)]
  OBVIOUS
<1>4. Notices(a \o b) = [i \in 1..(Len(a) + Len(b)) |-> N((a \o b)[i])]
  BY <1>3 DEF Notices
<1>5. Notices(a) \o Notices(b) =
        [i \in 1..(Len(a) + Len(b)) |->
           IF i <= Len(a) THEN N(a[i]) ELSE N(b[i - Len(a)])]
  BY <1>1, <1>2
<1>6. QED
  BY <1>3, <1>4, <1>5

-----------------------------------------------------------------------------
(* Whatever the monitored system does, the contract takes one of its own   *)
(* steps or none, so what holds of the contract's steps holds here.        *)
LEMMA ContractStep ==
  ASSUME [MNext]_mvars
  PROVE  [Next]_vars
<1>1. CASE ChainCall
  <2>1. ASSUME NEW req \in RecoveryRequest, Initiate(req) \/ Support(req)
        PROVE  Next
    BY <2>1 DEF Initiate, Support, Next, Calls, GuardianCalls
  <2>2. ASSUME NEW root \in Root, Cancel(root) \/ Finalize(root)
        PROVE  Next
    BY <2>2, AddressAssumption DEF Cancel, Finalize, Next, Calls, RecoveryEnd
  <2>3. ASSUME NEW root \in Root, Freeze(root) \/ Unfreeze(root) \/ Invalidate(root)
        PROVE  Next
    BY <2>3, AddressAssumption
    DEF Freeze, Unfreeze, Invalidate, Next, Calls, Administration
  <2>4. ASSUME NEW root, NEW session, NEW value,
               ReportOffline(root, session) \/ Execute(root, session, value)
        PROVE  UNCHANGED vars
    BY <2>4 DEF ReportOffline, Execute
  <2>5. ASSUME NEW delegation \in Delegation, NEW intent \in Intent,
               NEW value \in CallValue, Endorse(delegation, intent, value)
        PROVE  Next
    BY <2>5 DEF Endorse, Next, Calls, IntentValidation, Validation
  <2>6. QED
    BY <1>1, <2>1, <2>2, <2>3, <2>4, <2>5 DEF ChainCall
<1>2. CASE Quietly
  BY <1>2 DEF Quietly, Next, Environment
<1>3. CASE Deliver \/ Drain \/ Housekeeping
  BY <1>3 DEF Deliver, Drain, Housekeeping
<1>4. CASE \E registration \in Registration : Register(registration)
  BY <1>4 DEF Register
<1>5. CASE UNCHANGED mvars
  BY <1>5 DEF mvars
<1>6. QED
  BY <1>1, <1>2, <1>3, <1>4, <1>5 DEF MNext

(* The steps as the watcher sees them.                                     *)
LEMMA WaysToStep ==
  ASSUME TypeOK, RecoveryCoherent, [MNext]_mvars
  PROVE  \/ Emitted
         \/ Deliver
         \/ Drain
         \/ \E registration \in Registration : Register(registration)
         \/ Housekeeping
         \/ Quietly
         \/ UNCHANGED mvars
BY CallEmits DEF MNext

(* The clock runs forward.                                                 *)
LEMMA TimePasses ==
  ASSUME TypeOK, RecoveryCoherent, [MNext]_mvars
  PROVE  /\ now \in Nat /\ now' \in Nat /\ now <= now'
<1>1. now \in Nat
  BY ParameterAssumption DEF TypeOK
<1>2. CASE Emitted
  BY <1>1, <1>2 DEF Emitted
<1>3. CASE Quietly
  BY <1>1, <1>3 DEF Quietly, Tick, storeVars, recoveryVars
<1>4. CASE \/ Deliver \/ Drain \/ Housekeeping \/ UNCHANGED mvars
           \/ \E registration \in Registration : Register(registration)
  BY <1>1, <1>4
  DEF Deliver, Drain, Housekeeping, Register, mvars, vars, storeVars, recoveryVars
<1>5. QED
  BY <1>2, <1>3, <1>4, WaysToStep

-----------------------------------------------------------------------------
(* What handling one event adds to the alerts and to the log: an alert and *)
(* the entry of that event, an alert alone, or nothing.                    *)
TellsAs(entry, event) ==
  /\ entry.identity = event.identity /\ entry.timestamp = event.at
  /\ entry.event_type = EntryOf(event).event_type
  /\ \A event_type \in StateTypes :
       entry.event_type = event_type =>
         SaysOf(entry, event_type) = SaysOf(EntryOf(event), event_type)

(* What a handler that logs an event does: one alert and one entry.        *)
Logged(event) ==
  \E alert, entry :
    /\ alerts' = Append(alerts, alert) /\ entries' = Append(entries, entry)
    /\ AlertOK(alert) /\ IsLogged(alert)
    /\ alert.identity = event.identity /\ alert.timestamp = event.at
    /\ entry.event_type \in EventType /\ TellsAs(entry, event)

(* What the other handlers do: nothing to the log, and at most an alert of *)
(* a kind that is not logged.                                              *)
NotLogged(event) ==
  /\ entries' = entries
  /\ \/ alerts' = alerts
     \/ \E alert : /\ alerts' = Append(alerts, alert)
                   /\ AlertOK(alert) /\ ~ IsLogged(alert)
  /\ EntryOf(event).event_type \notin StateTypes

(* Every handler is of one of these two kinds.                             *)
LEMMA HandlerLogs ==
  ASSUME NEW event, Dispatch(event)
  PROVE  Logged(event) \/ NotLogged(event)
<1> USE DEF AlertOK, AlertSeverity, AlertCategory, IsLogged, SecurityAlert
<1>1. CASE /\ event.type \in {"RecoveryInitiated", "RecoveryOver",
                               "RecoveryStateChanged"}
           /\ OnRecoveryStateChanged(event.identity, event.what,
                                     event.guardian, event.at)
  <2> DEFINE alert == RecoveryAlert(event.identity, event.what,
                                    event.guardian, event.at)
             entry == EventLogEntry("RecoveryStateChanged", event.identity,
                        event.at,
                        [new_state |-> event.what, guardian |-> event.guardian])
  <2>1. /\ AlertOK(alert) /\ IsLogged(alert)
        /\ alert.identity = event.identity /\ alert.timestamp = event.at
    BY DEF RecoveryAlert
  <2>2. entry.event_type \in EventType /\ TellsAs(entry, event)
    BY <1>1, EntryOfEvent DEF EventLogEntry, EventType, TellsAs, SaysOf,
       StateTypes
  <2>3. alerts' = Append(alerts, alert) /\ entries' = Append(entries, entry)
    BY <1>1 DEF OnRecoveryStateChanged, Raise, Record
  <2> HIDE DEF alert, entry
  <2>4. QED
    BY <2>1, <2>2, <2>3 DEF Logged
<1>2. CASE /\ event.type = "SessionInvalidated"
           /\ OnSessionInvalidated(event.identity, event.arg, event.at)
  <2> DEFINE alert == SecurityAlert("Warning", "SessionsInvalidated",
                                    event.identity, event.at)
             entry == EventLogEntry("SessionInvalidated", event.identity,
                                    event.at, [new_epoch |-> event.arg])
  <2>1. /\ AlertOK(alert) /\ IsLogged(alert)
        /\ alert.identity = event.identity /\ alert.timestamp = event.at
    OBVIOUS
  <2>2. entry.event_type \in EventType /\ TellsAs(entry, event)
    BY <1>2, EntryOfEvent DEF EventLogEntry, EventType, TellsAs, SaysOf,
       StateTypes
  <2>3. alerts' = Append(alerts, alert) /\ entries' = Append(entries, entry)
    BY <1>2 DEF OnSessionInvalidated, Raise, Record
  <2> HIDE DEF alert, entry
  <2>4. QED
    BY <2>1, <2>2, <2>3 DEF Logged
<1>3. CASE /\ event.type = "DelegationEndorsed"
           /\ OnDelegationEndorsed(event.identity, event.arg, event.what, event.at)
  <2>1. EntryOf(event).event_type \notin StateTypes
    BY <1>3, EntryOfEvent
  <2>2. PICK alert : alerts' = Append(alerts, alert) /\ AlertOK(alert) /\ ~ IsLogged(alert)
    BY <1>3 DEF OnDelegationEndorsed, Raise
  <2>3. QED
    BY <1>3, <2>1, <2>2 DEF NotLogged, OnDelegationEndorsed
<1>4. CASE /\ event.type = "IntentExecuted"
           /\ OnIntentExecuted(event.identity, event.what, "", event.at)
  <2> DEFINE alert == SecurityAlert("Info", "ExecutionRecorded",
                                    event.identity, event.at)
             entry == EventLogEntry("IntentExecuted", event.identity, event.at,
                        [session_key |-> event.what, selector |-> ""])
  <2>1. /\ AlertOK(alert) /\ IsLogged(alert)
        /\ alert.identity = event.identity /\ alert.timestamp = event.at
    OBVIOUS
  <2>2. entry.event_type \in EventType /\ TellsAs(entry, event)
    BY <1>4 DEF EntryOf, EventLogEntry, EventType, TellsAs, StateTypes
  <2>3. alerts' = Append(alerts, alert) /\ entries' = Append(entries, entry)
    BY <1>4 DEF OnIntentExecuted, Raise, Record
  <2> HIDE DEF alert, entry
  <2>4. QED
    BY <2>1, <2>2, <2>3 DEF Logged
<1>5. CASE /\ event.type = "HighValueIntent"
           /\ OnHighValueIntent(event.identity, event.what, event.arg, "",
                                event.at)
  <2> DEFINE alert == SecurityAlert("Warning", "HighValueIntent",
                                    event.identity, event.at)
             entry == EventLogEntry("HighValueIntent", event.identity, event.at,
                        [session_key |-> event.what, selector |-> "",
                         value_wei |-> event.arg])
  <2>1. /\ AlertOK(alert) /\ IsLogged(alert)
        /\ alert.identity = event.identity /\ alert.timestamp = event.at
    OBVIOUS
  <2>2. entry.event_type \in EventType /\ TellsAs(entry, event)
    BY <1>5 DEF EntryOf, EventLogEntry, EventType, TellsAs, StateTypes
  <2>3. IF IsHighValue(event.arg)
        THEN alerts' = Append(alerts, alert) /\ entries' = Append(entries, entry)
        ELSE alerts' = alerts /\ entries' = entries
    BY <1>5 DEF OnHighValueIntent, Raise, Record, watcherVars
  <2>4. EntryOf(event).event_type \notin StateTypes
    BY <1>5, EntryOfEvent
  <2> HIDE DEF alert, entry
  <2>5. QED
    BY <2>1, <2>2, <2>3, <2>4 DEF Logged, NotLogged
<1>6. CASE /\ event.type = "OfflineSession"
           /\ OnOfflineSessionDetected(event.identity, event.what, event.at)
  <2>1. EntryOf(event).event_type \notin StateTypes
    BY <1>6, EntryOfEvent
  <2>2. PICK alert : alerts' = Append(alerts, alert) /\ AlertOK(alert) /\ ~ IsLogged(alert)
    BY <1>6 DEF OnOfflineSessionDetected, Raise
  <2>3. QED
    BY <1>6, <2>1, <2>2 DEF NotLogged, OnOfflineSessionDetected
<1>7. CASE event.type = "RecoverySupported" /\ UNCHANGED watcherVars
  <2>1. EntryOf(event).event_type \notin StateTypes
    BY <1>7, EntryOfEvent
  <2>2. QED
    BY <1>7, <2>1 DEF NotLogged, watcherVars
<1>8. QED
  BY <1>1, <1>2, <1>3, <1>4, <1>5, <1>6, <1>7 DEF Dispatch
-----------------------------------------------------------------------------
(* Handling one event adds to the queue exactly the notices that it calls  *)
(* for, whichever handler it goes to.                                      *)
Notified(event) ==
  \E notes, S :
    /\ notes \in Seq(S)
    /\ Notices(notes) = Due(event)
    /\ pending_notifications' = pending_notifications \o notes

(* NotifyGuardians queues one notification for each known guardian.        *)
LEMMA NotificationsAreDue ==
  ASSUME WatcherOK, NEW event, event.identity \in Identity, NEW alert,
         alert.identity = event.identity, alert.timestamp = event.at,
         CallsForNotice(event), NotifyGuardians(event.identity, alert)
  PROVE  Notified(event)
<1> DEFINE guardians == known_guardians[event.identity]
           notes == Notifications(guardians, alert)
           S == {[guardian |-> g, alert |-> alert] : g \in Address}
<1>1. guardians \in Seq(Address)
  BY DEF WatcherOK
<1>2. notes \in Seq(S) /\ DOMAIN notes = DOMAIN guardians
  BY <1>1 DEF Notifications
<1>3. Notices(notes) = Due(event)
  BY <1>1, <1>2 DEF Notices, Due, Notice, Notifications
<1>4. pending_notifications' = pending_notifications \o notes
  BY DEF NotifyGuardians
<1> HIDE DEF notes, S
<1>5. QED
  BY <1>2, <1>3, <1>4, Zenon DEF Notified

(* A handler that leaves the queue alone may, for events that concern no   *)
(* guardian.                                                               *)
LEMMA NothingIsDue ==
  ASSUME WatcherOK, NEW event, ~ CallsForNotice(event),
         UNCHANGED pending_notifications
  PROVE  Notified(event)
<1>1. \E S : pending_notifications \in Seq(S)
  BY DEF WatcherOK
<1>2. pending_notifications \o <<>> = pending_notifications
  BY <1>1
<1>3. <<>> \in Seq({}) /\ Notices(<<>>) = <<>>
  BY DEF Notices
<1>4. Due(event) = <<>>
  BY DEF Due
<1>5. QED
  BY <1>2, <1>3, <1>4, Zenon DEF Notified

(* Every handler notifies whom the event concerns and nobody else.         *)
LEMMA HandlerNotifies ==
  ASSUME WatcherOK, NEW event, event.identity \in Identity, Dispatch(event)
  PROVE  Notified(event) /\ UNCHANGED known_guardians
<1>1. CASE /\ event.type \in {"RecoveryInitiated", "RecoveryOver",
                               "RecoveryStateChanged"}
           /\ OnRecoveryStateChanged(event.identity, event.what,
                                     event.guardian, event.at)
  <2> DEFINE alert == RecoveryAlert(event.identity, event.what,
                                    event.guardian, event.at)
  <2>1. /\ alert.identity = event.identity /\ alert.timestamp = event.at
        /\ alert.severity \in {"Warning", "Critical"}
             <=> event.what \in {"RecoveryPending", "Frozen"}
    BY DEF RecoveryAlert, SecurityAlert
  <2>2. NotifyIfSerious(alert) /\ UNCHANGED known_guardians
    BY <1>1 DEF OnRecoveryStateChanged
  <2>3. CallsForNotice(event) <=> event.what \in {"RecoveryPending", "Frozen"}
    BY <1>1 DEF CallsForNotice
  <2> HIDE DEF alert
  <2>4. CASE CallsForNotice(event)
    BY <2>1, <2>2, <2>3, <2>4, NotificationsAreDue DEF NotifyIfSerious
  <2>5. CASE ~ CallsForNotice(event)
    BY <2>1, <2>2, <2>3, <2>5, NothingIsDue DEF NotifyIfSerious
  <2>6. QED
    BY <2>2, <2>4, <2>5
<1>2. CASE /\ event.type = "HighValueIntent"
           /\ OnHighValueIntent(event.identity, event.what, event.arg, "",
                                event.at)
  <2> DEFINE alert == SecurityAlert("Warning", "HighValueIntent",
                                    event.identity, event.at)
  <2>1. alert.identity = event.identity /\ alert.timestamp = event.at
    BY DEF SecurityAlert
  <2>2. CallsForNotice(event) <=> IsHighValue(event.arg)
    BY <1>2 DEF CallsForNotice, IsHighValue
  <2>3. IF IsHighValue(event.arg)
        THEN NotifyGuardians(event.identity, alert) /\ UNCHANGED known_guardians
        ELSE UNCHANGED <<pending_notifications, known_guardians>>
    BY <1>2 DEF OnHighValueIntent, watcherVars
  <2> HIDE DEF alert
  <2>4. CASE CallsForNotice(event)
    BY <2>1, <2>2, <2>3, <2>4, NotificationsAreDue
  <2>5. CASE ~ CallsForNotice(event)
    BY <2>2, <2>3, <2>5, NothingIsDue
  <2>6. QED
    BY <2>4, <2>5, <2>2, <2>3
<1>3. CASE /\ event.type \in {"SessionInvalidated", "DelegationEndorsed",
                              "IntentExecuted", "OfflineSession",
                              "RecoverySupported"}
           /\ UNCHANGED <<pending_notifications, known_guardians>>
  <2>1. ~ CallsForNotice(event)
    BY <1>3 DEF CallsForNotice
  <2>2. QED
    BY <1>3, <2>1, NothingIsDue
<1>4. QED
  BY <1>1, <1>2, <1>3
  DEF Dispatch, OnSessionInvalidated, OnDelegationEndorsed, OnIntentExecuted,
      OnOfflineSessionDetected, watcherVars

-----------------------------------------------------------------------------
(* The feed: a call appends to it, a delivery takes its first event off.   *)
LEMMA HeadOfFeed ==
  ASSUME FeedOK, Deliver
  PROVE  \E S : /\ feed \in Seq(S) /\ feed # <<>> /\ Len(feed) \in Nat
                /\ Len(feed) >= 1 /\ Head(feed) = feed[1] /\ EventOK(Head(feed))
                /\ feed' \in Seq(S) /\ Len(feed') = Len(feed) - 1
                /\ \A i \in 1..(Len(feed) - 1) : feed'[i] = feed[i + 1]
<1>1. PICK S : feed \in Seq(S)
  BY DEF FeedOK, EventsOK
<1>2. feed # <<>> /\ feed' = Tail(feed)
  BY DEF Deliver
<1>3. /\ Len(feed) \in Nat /\ Len(feed) >= 1 /\ Head(feed) = feed[1]
      /\ Tail(feed) \in Seq(S) /\ Len(Tail(feed)) = Len(feed) - 1
      /\ \A i \in 1..(Len(feed) - 1) : Tail(feed)[i] = feed[i + 1]
  BY <1>1, <1>2
<1>4. EventOK(Head(feed))
  BY <1>3 DEF FeedOK, EventsOK
<1>5. QED
  BY <1>1, <1>2, <1>3, <1>4

(* What a call emits comes after what was on its way.                      *)
LEMMA EmittedFeed ==
  ASSUME FeedOK, NEW events, EventsOK(events), Emit(events)
  PROVE  \E S : /\ feed \in Seq(S) /\ events \in Seq(S) /\ feed' \in Seq(S)
                /\ Len(feed) \in Nat /\ Len(events) \in Nat
                /\ Len(feed') = Len(feed) + Len(events)
                /\ \A i \in 1..Len(feed) : feed'[i] = feed[i]
                /\ \A i \in 1..Len(events) : feed'[Len(feed) + i] = events[i]
<1>1. PICK S : feed \in Seq(S)
  BY DEF FeedOK, EventsOK
<1>2. PICK T : events \in Seq(T)
  BY DEF EventsOK
<1>3. feed \in Seq(S \cup T) /\ events \in Seq(S \cup T)
  BY <1>1, <1>2
<1>4. feed' = feed \o events
  BY DEF Emit
<1>5. /\ feed \o events \in Seq(S \cup T)
      /\ Len(feed) \in Nat /\ Len(events) \in Nat
      /\ Len(feed \o events) = Len(feed) + Len(events)
      /\ \A i \in 1..Len(feed) : (feed \o events)[i] = feed[i]
      /\ \A i \in 1..Len(events) : (feed \o events)[Len(feed) + i] = events[i]
  BY <1>3
<1>6. QED
  BY <1>3, <1>4, <1>5

(* FeedOK is preserved.                                                    *)
LEMMA FeedStep ==
  ASSUME TypeOK, RecoveryCoherent, FeedOK, [MNext]_mvars
  PROVE  FeedOK'
<1>0. ASSUME NEW e, EventOK(e)
      PROVE  EventOK(e)'
  BY <1>0, TimePasses DEF EventOK
<1>1. CASE Emitted
  <2>1. PICK events : Emit(events) /\ EventsOK(events)
    BY <1>1 DEF Emitted
  <2>2. PICK S : /\ feed' \in Seq(S) /\ Len(feed) \in Nat /\ Len(events) \in Nat
                 /\ Len(feed') = Len(feed) + Len(events)
                 /\ \A i \in 1..Len(feed) : feed'[i] = feed[i]
                 /\ \A i \in 1..Len(events) : feed'[Len(feed) + i] = events[i]
    BY <2>1, EmittedFeed
  <2>3. ASSUME NEW i \in 1..Len(feed')
        PROVE  EventOK(feed'[i])
    <3>1. CASE i <= Len(feed)
      BY <2>2, <3>1 DEF FeedOK, EventsOK
    <3>2. CASE i > Len(feed)
      <4>1. i - Len(feed) \in 1..Len(events) /\ i = Len(feed) + (i - Len(feed))
        BY <2>2, <3>2
      <4>2. feed'[i] = events[i - Len(feed)]
        BY <2>2, <4>1
      <4>3. QED
        BY <2>1, <4>1, <4>2 DEF EventsOK
    <3>3. QED
      BY <2>2, <3>1, <3>2
  <2>4. \A i \in 1..Len(feed') : \E e : e = feed'[i] /\ EventOK(e)'
    BY <1>0, <2>3
  <2>5. QED
    BY <2>2, <2>4 DEF FeedOK, EventsOK, EventOK
<1>2. CASE Deliver
  <2>1. PICK S : /\ feed' \in Seq(S) /\ Len(feed) \in Nat
                 /\ Len(feed') = Len(feed) - 1
                 /\ \A i \in 1..(Len(feed) - 1) : feed'[i] = feed[i + 1]
    BY <1>2, HeadOfFeed
  <2>2. \A i \in 1..Len(feed') : EventOK(feed'[i])
    BY <2>1 DEF FeedOK, EventsOK
  <2>3. \A i \in 1..Len(feed') : \E e : e = feed'[i] /\ EventOK(e)'
    BY <1>0, <2>2
  <2>4. QED
    BY <2>1, <2>3 DEF FeedOK, EventsOK, EventOK
<1>3. CASE \/ Drain \/ Housekeeping \/ Quietly \/ UNCHANGED mvars
           \/ \E registration \in Registration : Register(registration)
  <2>1. feed' = feed
    BY <1>3 DEF Drain, Housekeeping, Quietly, Register, mvars, monitorVars
  <2>2. \A i \in 1..Len(feed) : \E e : e = feed[i] /\ EventOK(e)'
    BY <1>0 DEF FeedOK, EventsOK
  <2>3. QED
    BY <2>1, <2>2 DEF FeedOK, EventsOK, EventOK
<1>4. QED
  BY <1>1, <1>2, <1>3, WaysToStep

(* CountsOK is preserved.                                                  *)
LEMMA CountsStep ==
  ASSUME TypeOK, RecoveryCoherent, FeedOK, CountsOK, [MNext]_mvars
  PROVE  CountsOK'
<1>1. CASE Emitted
  <2>1. PICK events : Emit(events) /\ EventsOK(events)
    BY <1>1 DEF Emitted
  <2>2. Len(feed') = Len(feed) + Len(events) /\ Len(feed) \in Nat /\ Len(events) \in Nat
    BY <2>1, EmittedFeed
  <2>3. received' = received /\ received + Len(feed) + Len(events) <= MaxEvents
    BY <2>1 DEF Emit
  <2>4. QED
    BY <2>2, <2>3, WatchAssumption DEF CountsOK
<1>2. CASE Deliver
  <2>1. Len(feed') = Len(feed) - 1 /\ Len(feed) \in Nat
    BY <1>2, HeadOfFeed
  <2>2. received' = received + 1
    BY <1>2 DEF Deliver
  <2>3. QED
    BY <2>1, <2>2, WatchAssumption DEF CountsOK
<1>3. CASE \/ Drain \/ Housekeeping \/ Quietly \/ UNCHANGED mvars
           \/ \E registration \in Registration : Register(registration)
  BY <1>3 DEF Drain, Housekeeping, Quietly, Register, mvars, monitorVars, CountsOK
<1>4. QED
  BY <1>1, <1>2, <1>3, WaysToStep

(* The log and the alerts, each by what the steps do to it.                *)
LEMMA WaysOfLogs ==
  ASSUME TypeOK, RecoveryCoherent, FeedOK, [MNext]_mvars
  PROVE  \/ Deliver /\ (Logged(Head(feed)) \/ NotLogged(Head(feed)))
         \/ UNCHANGED <<alerts, entries, feed, tracker, identityState, sessionEpoch>>
         \/ /\ alerts' = <<>>
            /\ UNCHANGED <<entries, feed, tracker, identityState, sessionEpoch>>
         \/ /\ entries' = <<>>
            /\ UNCHANGED <<alerts, feed, tracker, identityState, sessionEpoch>>
         \/ Emitted /\ UNCHANGED <<alerts, entries, tracker>>
<1>1. CASE Emitted
  BY <1>1 DEF Emitted, Emit, watcherVars
<1>2. CASE Deliver
  BY <1>2, HandlerLogs DEF Deliver
<1>3. CASE \/ Drain \/ Quietly \/ UNCHANGED mvars
           \/ \E registration \in Registration : Register(registration)
  BY <1>3
  DEF Drain, DrainNotifications, Quietly, Tick, Register, RegisterGuardians,
      mvars, monitorVars, watcherVars, vars, storeVars
<1>4. CASE Housekeeping
  BY <1>4 DEF Housekeeping, RegisterDelegate, ClearAlerts, ClearLog, vars,
     storeVars
<1>5. QED
  BY <1>1, <1>2, <1>3, <1>4, WaysToStep

(* AlertsOK is preserved.                                                  *)
LEMMA AlertsStep ==
  ASSUME TypeOK, RecoveryCoherent, FeedOK, AlertsOK, [MNext]_mvars
  PROVE  AlertsOK'
<1>1. ASSUME NEW alert, alerts' = Append(alerts, alert), AlertOK(alert)
      PROVE  AlertsOK'
  <2>1. PICK S : alerts \in Seq(S)
    BY DEF AlertsOK
  <2>2. alerts \in Seq(S \cup {alert}) /\ alert \in S \cup {alert}
    BY <2>1
  <2>3. /\ alerts' \in Seq(S \cup {alert}) /\ Len(alerts) \in Nat
        /\ Len(alerts') = Len(alerts) + 1
        /\ \A i \in 1..Len(alerts) : alerts'[i] = alerts[i]
        /\ alerts'[Len(alerts) + 1] = alert
    BY <1>1, <2>2
  <2>4. \A i \in 1..Len(alerts') : AlertOK(alerts'[i])
    BY <1>1, <2>3 DEF AlertsOK
  <2>5. QED
    BY <2>3, <2>4 DEF AlertsOK, AlertOK
<1>2. CASE alerts' = <<>>
  <2>1. alerts' \in Seq({}) /\ Len(alerts') = 0
    BY <1>2
  <2>2. QED
    BY <2>1 DEF AlertsOK
<1>3. CASE alerts' = alerts
  BY <1>3 DEF AlertsOK, AlertOK
<1>4. QED
  BY <1>1, <1>2, <1>3, WaysOfLogs DEF Logged, NotLogged

(* EntriesOK is preserved: the clock never goes back.                      *)
LEMMA EntriesStep ==
  ASSUME TypeOK, RecoveryCoherent, FeedOK, EntriesOK, [MNext]_mvars
  PROVE  EntriesOK'
<1>0. ASSUME NEW e, EntryOK(e)
      PROVE  EntryOK(e)'
  BY <1>0, TimePasses DEF EntryOK
<1>1. ASSUME NEW entry, entries' = Append(entries, entry), EntryOK(entry)
      PROVE  EntriesOK'
  <2>1. PICK S : entries \in Seq(S)
    BY DEF EntriesOK
  <2>2. entries \in Seq(S \cup {entry}) /\ entry \in S \cup {entry}
    BY <2>1
  <2>3. /\ entries' \in Seq(S \cup {entry}) /\ Len(entries) \in Nat
        /\ Len(entries') = Len(entries) + 1
        /\ \A i \in 1..Len(entries) : entries'[i] = entries[i]
        /\ entries'[Len(entries) + 1] = entry
    BY <1>1, <2>2
  <2>4. \A i \in 1..Len(entries') : EntryOK(entries'[i])
    BY <1>1, <2>3 DEF EntriesOK
  <2>5. \A i \in 1..Len(entries') : \E e : e = entries'[i] /\ EntryOK(e)'
    BY <1>0, <2>4
  <2>6. QED
    BY <2>3, <2>5 DEF EntriesOK, EntryOK
<1>2. CASE entries' = <<>>
  <2>1. entries' \in Seq({}) /\ Len(entries') = 0
    BY <1>2
  <2>2. QED
    BY <2>1 DEF EntriesOK
<1>3. CASE entries' = entries
  <2>1. \A i \in 1..Len(entries) : \E e : e = entries[i] /\ EntryOK(e)'
    BY <1>0 DEF EntriesOK
  <2>2. QED
    BY <1>3, <2>1 DEF EntriesOK, EntryOK
<1>4. CASE Deliver /\ Logged(Head(feed))
  <2>1. PICK entry : /\ entries' = Append(entries, entry)
                     /\ entry.event_type \in EventType /\ TellsAs(entry, Head(feed))
    BY <1>4 DEF Logged
  <2>2. EventOK(Head(feed))
    BY <1>4, HeadOfFeed
  <2>3. EntryOK(entry)
    BY <2>1, <2>2 DEF TellsAs, EntryOK, EventOK
  <2>4. QED
    BY <1>1, <2>1, <2>3
<1>5. QED
  BY <1>2, <1>3, <1>4, WaysOfLogs DEF NotLogged

-----------------------------------------------------------------------------
(* The log followed by the entries of a sequence of events.                *)
Joined(log, events) == log \o [i \in DOMAIN events |-> EntryOf(events[i])]

(* The log, followed by the entries of the events on their way.            *)
IsJoined(joined, log, events) ==
  /\ \E U : joined \in Seq(U)
  /\ Len(log) \in Nat /\ Len(events) \in Nat
  /\ Len(joined) = Len(log) + Len(events)
  /\ \A i \in 1..Len(log) : joined[i] = log[i]
  /\ \A i \in 1..Len(events) : joined[Len(log) + i] = EntryOf(events[i])

(* Joined is that sequence.                                                *)
LEMMA JoinedIs ==
  ASSUME NEW S, NEW log \in Seq(S), NEW T, NEW events \in Seq(T)
  PROVE  IsJoined(Joined(log, events), log, events)
<1> DEFINE coming == [i \in DOMAIN events |-> EntryOf(events[i])]
           U == S \cup {EntryOf(e) : e \in T}
<1>1. /\ coming \in Seq({EntryOf(e) : e \in T}) /\ Len(coming) = Len(events)
      /\ \A i \in 1..Len(events) : coming[i] = EntryOf(events[i])
  OBVIOUS
<1> HIDE DEF coming
<1>2. log \in Seq(U) /\ coming \in Seq(U)
  BY <1>1
<1> HIDE DEF U
<1>3. log \o coming \in Seq(U) /\ Len(log) \in Nat /\ Len(events) \in Nat
  BY <1>2
<1>4. Len(log \o coming) = Len(log) + Len(events)
  BY <1>1, <1>2
<1>5. \A i \in 1..Len(log) : (log \o coming)[i] = log[i]
  BY <1>2
<1>6. \A i \in 1..Len(coming) : (log \o coming)[Len(log) + i] = coming[i]
  BY <1>2
<1>7. QED
  BY <1>1, <1>3, <1>4, <1>5, <1>6 DEF IsJoined, Joined, coming

(* LogAndFeed is that sequence, in both states of a step.                  *)
LEMMA LogIsJoined ==
  /\ LogAndFeed = Joined(entries, feed)
  /\ LogAndFeed' = Joined(entries', feed')
BY DEF LogAndFeed, Joined

(* Two logs, the second of which tells at least as much of a root.         *)
TellsNoMore(l, k, root, event_type) ==
  \A i \in Nat :
    Newest(l, i, root, event_type) =>
      \E j \in Nat : /\ Newest(k, j, root, event_type)
                     /\ SaysOf(l[i], event_type) = SaysOf(k[j], event_type)

(* A step that tells nothing new about roots whose state stays.            *)
LEMMA NewestStaysTrue ==
  ASSUME NewestIsTrue, UNCHANGED <<identityState, sessionEpoch>>,
         \A root \in Address, event_type \in StateTypes :
           TellsNoMore(LogAndFeed', LogAndFeed, root, event_type)
  PROVE  NewestIsTrue'
<1> DEFINE l == LogAndFeed'
<1>1. SUFFICES ASSUME NEW root \in Address, NEW event_type \in StateTypes, NEW i \in Nat,
                      Newest(l, i, root, event_type)
               PROVE  SaysOf(l[i], event_type) = IsSo(root, event_type)'
  BY DEF NewestIsTrue
<1>2. IsSo(root, event_type)' = IsSo(root, event_type)
  BY DEF IsSo
<1>3. QED
  BY <1>1, <1>2 DEF NewestIsTrue, TellsNoMore

(* NewestIsTrue is preserved: a call changes state and tells so at once,   *)
(* and delivery only moves an entry from the feed to the log.              *)
LEMMA NewestStep ==
  ASSUME TypeOK, RecoveryCoherent, FeedOK, EntriesOK, NewestIsTrue, [MNext]_mvars
  PROVE  NewestIsTrue'
<1> DEFINE k == Joined(entries, feed)
           l == Joined(entries', feed')
           n == Len(entries)
           m == Len(feed)
<1>0. /\ LogAndFeed = k /\ LogAndFeed' = l
      /\ n \in Nat /\ m \in Nat /\ Len(k) = n + m
      /\ \A i \in 1..n : k[i] = entries[i]
      /\ \A i \in 1..m : k[n + i] = EntryOf(feed[i])
  <2> HIDE DEF k, l
  <2>1. LogAndFeed = k /\ LogAndFeed' = l
    BY LogIsJoined DEF k, l
  <2>2. IsJoined(k, entries, feed)
    BY JoinedIs DEF k, FeedOK, EventsOK, EntriesOK
  <2>3. QED
    BY <2>1, <2>2 DEF IsJoined
<1>9. /\ Len(l) = Len(entries') + Len(feed')
      /\ \A i \in 1..Len(entries') : l[i] = entries'[i]
      /\ \A i \in 1..Len(feed') : l[Len(entries') + i] = EntryOf(feed'[i])
  <2> HIDE DEF k, l
  <2>1. \E S, T : entries' \in Seq(S) /\ feed' \in Seq(T)
    BY FeedStep, EntriesStep DEF FeedOK, EventsOK, EntriesOK
  <2>2. IsJoined(l, entries', feed')
    BY <2>1, JoinedIs DEF l
  <2>3. QED
    BY <2>2 DEF IsJoined
<1> HIDE DEF k, l
<1>1. CASE UNCHANGED <<entries, feed, identityState, sessionEpoch>>
  <2>1. LogAndFeed' = LogAndFeed
    BY <1>1 DEF LogAndFeed
  <2>2. QED
    BY <1>1, <2>1, NewestStaysTrue DEF TellsNoMore
<1>2. CASE entries' = <<>> /\ UNCHANGED <<feed, identityState, sessionEpoch>>
  <2>1. Len(l) = m /\ \A i \in 1..m : l[i] = k[n + i]
    BY <1>0, <1>2, <1>9
  <2>2. ASSUME NEW root \in Address, NEW event_type \in StateTypes, NEW i \in Nat,
               Newest(l, i, root, event_type)
        PROVE  \E j \in Nat : /\ Newest(k, j, root, event_type)
                              /\ SaysOf(l[i], event_type) = SaysOf(k[j], event_type)
    <3>1. i \in 1..m /\ Fits(l[i], root, event_type)
          /\ \A j \in (i + 1)..m : ~ Fits(l[j], root, event_type)
      BY <2>1, <2>2 DEF Newest
    <3>2. n + i \in 1..Len(k) /\ Fits(k[n + i], root, event_type)
      BY <1>0, <2>1, <3>1
    <3>3. ASSUME NEW j \in (n + i + 1)..Len(k)
          PROVE  ~ Fits(k[j], root, event_type)
      <4>1. j - n \in (i + 1)..m /\ j - n \in 1..m /\ n + (j - n) = j
        BY <1>0, <3>1
      <4>2. QED
        BY <2>1, <3>1, <4>1
    <3>4. Newest(k, n + i, root, event_type)
      BY <3>2, <3>3 DEF Newest
    <3>5. n + i \in Nat /\ l[i] = k[n + i]
      BY <1>0, <2>1, <3>1
    <3>6. QED
      BY <3>4, <3>5
  <2>3. QED
    BY <1>0, <1>2, <2>2, NewestStaysTrue DEF TellsNoMore
<1>3. CASE Deliver /\ Logged(Head(feed))
  <2>1. PICK entry : entries' = Append(entries, entry) /\ TellsAs(entry, Head(feed))
    BY <1>3 DEF Logged
  <2>2. /\ m >= 1 /\ Head(feed) = feed[1] /\ Len(feed') = m - 1
        /\ \A i \in 1..(m - 1) : feed'[i] = feed[i + 1]
    BY <1>3, HeadOfFeed
  <2>3. /\ Len(entries') = n + 1 /\ entries'[n + 1] = entry
        /\ \A i \in 1..n : entries'[i] = entries[i]
    BY <2>1 DEF EntriesOK
  <2>4. /\ Len(l) = Len(k)
        /\ \A i \in 1..Len(k) : i # n + 1 => l[i] = k[i]
        /\ l[n + 1] = entry /\ k[n + 1] = EntryOf(feed[1])
    <3>1. Len(l) = Len(k)
      BY <1>0, <1>9, <2>2, <2>3
    <3>2. ASSUME NEW i \in 1..Len(k), i # n + 1
          PROVE  l[i] = k[i]
      <4>1. CASE i <= n
        BY <1>0, <1>9, <2>3, <4>1
      <4>2. CASE i > n + 1
        <5>1. PICK j \in 1..(m - 1) : i = (n + 1) + j
          <6>1. i - (n + 1) \in 1..(m - 1) /\ i = (n + 1) + (i - (n + 1))
            BY <1>0, <4>2
          <6>2. QED
            BY <6>1
        <5>2. j + 1 \in 1..m /\ n + (j + 1) = i
          BY <1>0, <5>1
        <5>3. l[(n + 1) + j] = EntryOf(feed'[j])
          BY <1>9, <2>2, <2>3
        <5>4. k[n + (j + 1)] = EntryOf(feed[j + 1])
          BY <1>0, <5>2
        <5>5. feed'[j] = feed[j + 1]
          BY <2>2
        <5>6. QED
          BY <5>1, <5>2, <5>3, <5>4, <5>5
      <4>3. QED
        BY <1>0, <3>2, <4>1, <4>2
    <3>3. l[n + 1] = entry /\ k[n + 1] = EntryOf(feed[1])
      BY <1>0, <1>9, <2>2, <2>3
    <3>4. QED
      BY <3>1, <3>2, <3>3
  <2>5. ASSUME NEW root \in Address, NEW event_type \in StateTypes, NEW i \in 1..Len(k)
        PROVE  /\ Fits(l[i], root, event_type) <=> Fits(k[i], root, event_type)
               /\ Fits(l[i], root, event_type) =>
                    SaysOf(l[i], event_type) = SaysOf(k[i], event_type)
    <3>1. CASE i = n + 1
      BY <2>1, <2>2, <2>4, <3>1, EntryOfEvent DEF TellsAs, Fits
    <3>2. CASE i # n + 1
      BY <2>4, <3>2
    <3>3. QED
      BY <3>1, <3>2
  <2>6. ASSUME NEW root \in Address, NEW event_type \in StateTypes, NEW i \in Nat,
               Newest(l, i, root, event_type)
        PROVE  /\ Newest(k, i, root, event_type)
               /\ SaysOf(l[i], event_type) = SaysOf(k[i], event_type)
    <3>1. i \in 1..Len(k) /\ Fits(l[i], root, event_type)
          /\ \A j \in (i + 1)..Len(k) : ~ Fits(l[j], root, event_type)
      BY <2>4, <2>6 DEF Newest
    <3>2. \A j \in (i + 1)..Len(k) : j \in 1..Len(k)
      BY <1>0, <3>1
    <3>3. QED
      BY <2>5, <3>1, <3>2 DEF Newest
  <2>7. UNCHANGED <<identityState, sessionEpoch>>
    BY <1>3 DEF Deliver, vars, storeVars
  <2>8. QED
    BY <1>0, <2>6, <2>7, NewestStaysTrue DEF TellsNoMore
<1>4. CASE Deliver /\ NotLogged(Head(feed))
  <2>1. entries' = entries /\ EntryOf(Head(feed)).event_type \notin StateTypes
    BY <1>4 DEF NotLogged
  <2>2. /\ m >= 1 /\ Head(feed) = feed[1] /\ Len(feed') = m - 1
        /\ \A i \in 1..(m - 1) : feed'[i] = feed[i + 1]
    BY <1>4, HeadOfFeed
  <2>3. /\ Len(l) = Len(k) - 1
        /\ \A i \in 1..n : l[i] = k[i]
        /\ \A i \in (n + 1)..Len(l) : l[i] = k[i + 1]
    <3>1. Len(l) = n + (m - 1)
      BY <1>9, <2>1, <2>2
    <3>2. \A i \in 1..n : l[i] = k[i]
      BY <1>0, <1>9, <2>1
    <3>3. ASSUME NEW i \in (n + 1)..Len(l)
          PROVE  l[i] = k[i + 1]
      <4>1. PICK j \in 1..(m - 1) : i = n + j
        <5>1. i - n \in 1..(m - 1) /\ i = n + (i - n)
          BY <1>0, <2>2, <3>1
        <5>2. QED
          BY <5>1
      <4>2. j + 1 \in 1..m /\ n + (j + 1) = i + 1
        BY <1>0, <4>1
      <4>3. l[n + j] = EntryOf(feed'[j])
        BY <1>9, <2>1, <2>2
      <4>4. k[n + (j + 1)] = EntryOf(feed[j + 1])
        BY <1>0, <4>2
      <4>5. feed'[j] = feed[j + 1]
        BY <2>2
      <4>6. QED
        BY <4>1, <4>2, <4>3, <4>4, <4>5
    <3>4. QED
      BY <1>0, <3>1, <3>2, <3>3
  <2>4. ASSUME NEW root \in Address, NEW event_type \in StateTypes
        PROVE  ~ Fits(k[n + 1], root, event_type)
    BY <1>0, <2>1, <2>2 DEF Fits
  <2>5. ASSUME NEW root \in Address, NEW event_type \in StateTypes, NEW i \in Nat,
               Newest(l, i, root, event_type)
        PROVE  \E j \in Nat : /\ Newest(k, j, root, event_type)
                              /\ SaysOf(l[i], event_type) = SaysOf(k[j], event_type)
    <3>1. i \in 1..Len(l) /\ Fits(l[i], root, event_type)
          /\ \A j \in (i + 1)..Len(l) : ~ Fits(l[j], root, event_type)
      BY <2>5 DEF Newest
    <3>2. ASSUME NEW j \in (n + 2)..Len(k), j - 1 > i
          PROVE  ~ Fits(k[j], root, event_type)
      <4>1. j - 1 \in (i + 1)..Len(l) /\ j - 1 \in (n + 1)..Len(l) /\ (j - 1) + 1 = j
        BY <1>0, <2>2, <2>3, <3>1, <3>2
      <4>2. QED
        BY <2>3, <3>1, <4>1
    <3>3. CASE i <= n
      <4>1. /\ i \in 1..Len(k) /\ l[i] = k[i]
        BY <1>0, <2>3, <3>1, <3>3
      <4>2. ASSUME NEW j \in (i + 1)..Len(k)
            PROVE  ~ Fits(k[j], root, event_type)
        <5>1. CASE j <= n
          <6>1. j \in (i + 1)..Len(l) /\ j \in 1..n
            BY <1>0, <2>2, <2>3, <3>1, <5>1
          <6>2. QED
            BY <2>3, <3>1, <6>1
        <5>2. CASE j = n + 1
          BY <2>4, <5>2
        <5>3. CASE j > n + 1
          <6>1. j \in (n + 2)..Len(k) /\ j - 1 > i
            BY <1>0, <3>1, <3>3, <5>3
          <6>2. QED
            BY <3>2, <6>1
        <5>4. QED
          BY <1>0, <3>1, <5>1, <5>2, <5>3
      <4>3. QED
        BY <3>1, <4>1, <4>2 DEF Newest
    <3>4. CASE i > n
      <4>1. /\ i + 1 \in 1..Len(k) /\ l[i] = k[i + 1]
        BY <1>0, <2>2, <2>3, <3>1, <3>4
      <4>2. ASSUME NEW j \in ((i + 1) + 1)..Len(k)
            PROVE  ~ Fits(k[j], root, event_type)
        <5>1. j \in (n + 2)..Len(k) /\ j - 1 > i
          BY <1>0, <3>1, <3>4
        <5>2. QED
          BY <3>2, <5>1
      <4>3. Newest(k, i + 1, root, event_type)
        BY <3>1, <4>1, <4>2 DEF Newest
      <4>4. QED
        BY <4>1, <4>3
    <3>5. QED
      BY <1>0, <3>1, <3>3, <3>4
  <2>6. UNCHANGED <<identityState, sessionEpoch>>
    BY <1>4 DEF Deliver, vars, storeVars
  <2>7. QED
    BY <1>0, <2>5, <2>6, NewestStaysTrue DEF TellsNoMore
<1>5. CASE Emitted /\ entries' = entries
  <2>1. PICK events : Emit(events) /\ EventsOK(events) /\ SaysState(events)
    BY <1>5 DEF Emitted
  <2>2. /\ Len(events) \in Nat /\ Len(feed') = m + Len(events)
        /\ \A i \in 1..m : feed'[i] = feed[i]
        /\ \A i \in 1..Len(events) : feed'[m + i] = events[i]
    BY <2>1, EmittedFeed
  <2> DEFINE p == Len(events)
  <2>3. /\ Len(l) = Len(k) + p
        /\ \A i \in 1..Len(k) : l[i] = k[i]
        /\ \A i \in 1..p : l[Len(k) + i] = EntryOf(events[i])
    <3>1. Len(l) = Len(k) + p
      BY <1>0, <1>5, <1>9, <2>2
    <3>2. ASSUME NEW i \in 1..Len(k)
          PROVE  l[i] = k[i]
      <4>1. CASE i <= n
        BY <1>0, <1>5, <1>9, <4>1
      <4>2. CASE i > n
        <5>1. i - n \in 1..m /\ i - n \in 1..Len(feed') /\ n + (i - n) = i
          BY <1>0, <2>2, <4>2
        <5>2. l[i] = EntryOf(feed'[i - n]) /\ k[i] = EntryOf(feed[i - n])
          BY <1>0, <1>5, <1>9, <5>1
        <5>3. QED
          BY <2>2, <5>1, <5>2
      <4>3. QED
        BY <1>0, <4>1, <4>2
    <3>3. ASSUME NEW i \in 1..p
          PROVE  l[Len(k) + i] = EntryOf(events[i])
      <4>1. m + i \in 1..Len(feed') /\ n + (m + i) = Len(k) + i
        BY <1>0, <2>2
      <4>2. l[n + (m + i)] = EntryOf(feed'[m + i])
        BY <1>5, <1>9, <4>1
      <4>3. QED
        BY <2>2, <4>1, <4>2
    <3>4. QED
      BY <3>1, <3>2, <3>3
  <2>4. ASSUME NEW root \in Address, NEW event_type \in StateTypes, NEW i \in Nat,
               Newest(l, i, root, event_type)
        PROVE  SaysOf(l[i], event_type) = IsSo(root, event_type)'
    <3>1. i \in 1..Len(l) /\ Fits(l[i], root, event_type)
          /\ \A j \in (i + 1)..Len(l) : ~ Fits(l[j], root, event_type)
      BY <2>4 DEF Newest
    <3>2. CASE i <= Len(k)
      <4>1. i \in 1..Len(k) /\ l[i] = k[i]
        BY <1>0, <2>3, <3>1, <3>2
      <4>2. ASSUME NEW j \in (i + 1)..Len(k)
            PROVE  ~ Fits(k[j], root, event_type)
        <5>1. j \in (i + 1)..Len(l) /\ j \in 1..Len(k)
          BY <1>0, <2>2, <2>3, <4>1
        <5>2. QED
          BY <2>3, <3>1, <5>1
      <4>3. Newest(k, i, root, event_type)
        BY <3>1, <4>1, <4>2 DEF Newest
      <4>4. SaysOf(k[i], event_type) = IsSo(root, event_type)
        BY <1>0, <4>3 DEF NewestIsTrue
      <4>5. ASSUME NEW j \in 1..p
            PROVE  ~ Fits(EntryOf(events[j]), root, event_type)
        <5>1. Len(k) + j \in (i + 1)..Len(l)
          BY <1>0, <2>2, <2>3, <4>1
        <5>2. QED
          BY <2>3, <3>1, <5>1
      <4>6. IsSo(root, event_type)' = IsSo(root, event_type)
        BY <2>1, <4>5 DEF SaysState
      <4>7. QED
        BY <4>1, <4>4, <4>6
    <3>3. CASE i > Len(k)
      <4>1. i - Len(k) \in 1..p /\ Len(k) + (i - Len(k)) = i
        BY <1>0, <2>2, <2>3, <3>1, <3>3
      <4>2. l[i] = EntryOf(events[i - Len(k)])
        BY <2>3, <4>1
      <4>3. QED
        BY <2>1, <3>1, <4>1, <4>2 DEF SaysState
    <3>4. QED
      BY <1>0, <3>1, <3>2, <3>3
  <2>5. QED
    BY <1>0, <2>4 DEF NewestIsTrue
<1>6. QED
  BY <1>1, <1>2, <1>3, <1>4, <1>5, WaysOfLogs

(* Whoever looks up the log finds the newest entry.                        *)
LEMMA NewestIsFound ==
  ASSUME FeedOK, EntriesOK, NewestIsTrue
  PROVE  LogTellsState
<1>1. PICK U : LogAndFeed \in Seq(U)
  <2>1. IsJoined(LogAndFeed, entries, feed)
    BY LogIsJoined, JoinedIs DEF FeedOK, EventsOK, EntriesOK
  <2>2. QED
    BY <2>1 DEF IsJoined
<1>2. ASSUME NEW root \in Address, NEW event_type \in StateTypes,
             Said(root, event_type) # <<>>
      PROVE  SaysOf(Last(Said(root, event_type)), event_type) = IsSo(root, event_type)
  <2>1. PICK i : /\ Newest(LogAndFeed, i, root, event_type)
                 /\ Last(Said(root, event_type)) = LogAndFeed[i]
    BY <1>1, <1>2, LastIsNewest DEF Said
  <2>2. i \in Nat
    BY <1>1, <2>1 DEF Newest
  <2>3. QED
    BY <2>1, <2>2 DEF NewestIsTrue
<1>3. QED
  BY <1>2 DEF LogTellsState, SaysOf, IsSo, StateTypes

-----------------------------------------------------------------------------
(* What it is to be the end of a sequence, and to stay so.                 *)
IsEnd(a, b) ==
  /\ Len(a) <= Len(b)
  /\ \A i \in 1..Len(a) : a[i] = b[(Len(b) - Len(a)) + i]

(* IsSuffix of the library, by the elements.                               *)
LEMMA SuffixIsEnd ==
  ASSUME NEW S, NEW a \in Seq(S), NEW b \in Seq(S)
  PROVE  IsSuffix(a, b) <=> IsEnd(a, b)
<1> DEFINE ra == Reverse(a)
           rb == Reverse(b)
           n == Len(a)
           m == Len(b)
<1>1. /\ n \in Nat /\ m \in Nat
      /\ ra \in Seq(S) /\ Len(ra) = n /\ \A i \in 1..n : ra[i] = a[(n - i) + 1]
      /\ rb \in Seq(S) /\ Len(rb) = m /\ \A i \in 1..m : rb[i] = b[(m - i) + 1]
  BY DEF Reverse
<1>2. IsSuffix(a, b) <=> IsPrefix(ra, rb)
  BY DEF IsSuffix
<1> HIDE DEF ra, rb
<1>3. IsPrefix(ra, rb) <=> n <= m /\ \A i \in 1..n : ra[i] = rb[i]
  BY <1>1 DEF IsPrefix
<1>4. CASE n <= m
  <2>1. ASSUME \A i \in 1..n : ra[i] = rb[i], NEW i \in 1..n
        PROVE  a[i] = b[(m - n) + i]
    <3> DEFINE j == (n - i) + 1
    <3>1. /\ j \in 1..n /\ j \in 1..m
          /\ (n - j) + 1 = i /\ (m - j) + 1 = (m - n) + i
      BY <1>1, <1>4
    <3> HIDE DEF j
    <3>2. ra[j] = a[i] /\ rb[j] = b[(m - n) + i]
      BY <1>1, <3>1
    <3>3. QED
      BY <2>1, <3>1, <3>2
  <2>2. ASSUME \A i \in 1..n : a[i] = b[(m - n) + i], NEW i \in 1..n
        PROVE  ra[i] = rb[i]
    <3>1. /\ (n - i) + 1 \in 1..n /\ i \in 1..m
          /\ (m - n) + ((n - i) + 1) = (m - i) + 1
      BY <1>1, <1>4
    <3>2. ra[i] = a[(n - i) + 1] /\ rb[i] = b[(m - i) + 1]
      BY <1>1, <3>1
    <3>3. QED
      BY <2>2, <3>1, <3>2
  <2>3. QED
    BY <1>2, <1>3, <1>4, <2>1, <2>2 DEF IsEnd
<1>5. CASE ~ (n <= m)
  BY <1>2, <1>3, <1>5 DEF IsEnd
<1>6. QED
  BY <1>4, <1>5

(* An end stays an end when both sequences grow by the same element.       *)
LEMMA EndsGrow ==
  ASSUME NEW S, NEW a \in Seq(S), NEW b \in Seq(S), NEW e \in S, IsEnd(a, b)
  PROVE  IsEnd(Append(a, e), Append(b, e))
<1> DEFINE n == Len(a)
           m == Len(b)
           c == Append(a, e)
           d == Append(b, e)
<1>1. /\ n \in Nat /\ m \in Nat /\ Len(c) = n + 1 /\ Len(d) = m + 1
      /\ \A i \in 1..n : c[i] = a[i]
      /\ \A i \in 1..m : d[i] = b[i]
      /\ c[n + 1] = e /\ d[m + 1] = e
  OBVIOUS
<1>2. n <= m /\ \A i \in 1..n : a[i] = b[(m - n) + i]
  BY DEF IsEnd
<1> HIDE DEF n, m, c, d
<1>3. ASSUME NEW i \in 1..(n + 1)
      PROVE  c[i] = d[((m + 1) - (n + 1)) + i]
  <2>1. CASE i = n + 1
    <3>1. ((m + 1) - (n + 1)) + i = m + 1
      BY <1>1, <2>1
    <3>2. QED
      BY <1>1, <2>1, <3>1
  <2>2. CASE i # n + 1
    <3>1. /\ i \in 1..n /\ ((m + 1) - (n + 1)) + i = (m - n) + i
          /\ (m - n) + i \in 1..m
      BY <1>1, <1>2, <2>2
    <3>2. QED
      BY <1>1, <1>2, <3>1
  <2>3. QED
    BY <2>1, <2>2
<1>4. IsEnd(c, d)
  BY <1>1, <1>2, <1>3 DEF IsEnd
<1>5. QED
  BY <1>4 DEF c, d

-----------------------------------------------------------------------------
(* Alerts and log.                                                         *)
StampOf(record) == <<record.identity, record.timestamp>>

(* The stamps of a log are as many as its records.                         *)
LEMMA StampsTyped ==
  ASSUME NEW S, NEW log \in Seq(S)
  PROVE  Stamps(log) \in Seq({StampOf(r) : r \in S}) /\ Len(Stamps(log)) = Len(log)
BY DEF Stamps, StampOf

(* One more record, and the stamps.                                        *)
LEMMA StampsAppend ==
  ASSUME NEW S, NEW log \in Seq(S), NEW r \in S
  PROVE  Stamps(Append(log, r)) = Append(Stamps(log), StampOf(r))
<1> DEFINE t == Append(log, r)
           n == Len(log)
<1>1. /\ n \in Nat /\ t \in Seq(S) /\ Len(t) = n + 1 /\ t[n + 1] = r
      /\ \A i \in 1..n : t[i] = log[i]
  OBVIOUS
<1>2. Stamps(log) = [i \in 1..n |-> StampOf(log[i])]
  BY DEF Stamps, StampOf
<1>3. Stamps(t) = [i \in 1..(n + 1) |-> StampOf(t[i])]
  BY <1>1 DEF Stamps, StampOf
<1> HIDE DEF t, n
<1>4. Append(Stamps(log), StampOf(r)) =
        [i \in 1..(n + 1) |-> IF i = n + 1 THEN StampOf(r) ELSE StampOf(log[i])]
  BY <1>1, <1>2
<1>5. [i \in 1..(n + 1) |-> StampOf(t[i])] =
        [i \in 1..(n + 1) |-> IF i = n + 1 THEN StampOf(r) ELSE StampOf(log[i])]
  BY <1>1
<1>6. QED
  BY <1>3, <1>4, <1>5 DEF t

(* The alerts that were logged.                                            *)
LoggedOf(list) == Kept(list, {i \in DOMAIN list : IsLogged(list[i])})

(* One more alert, and the alerts that were logged.                        *)
LEMMA LoggedOfAppend ==
  ASSUME NEW S, NEW list \in Seq(S), NEW alert \in S
  PROVE  /\ LoggedOf(list) \in Seq(S)
         /\ LoggedOf(Append(list, alert)) =
              IF IsLogged(alert) THEN Append(LoggedOf(list), alert) ELSE LoggedOf(list)
<1> DEFINE I == {i \in DOMAIN list : IsLogged(list[i])}
           t == Append(list, alert)
           J == {i \in DOMAIN t : IsLogged(t[i])}
<1>1. /\ \A i \in 1..Len(list) : i \in I <=> i \in J
      /\ Len(list) + 1 \in J <=> IsLogged(alert)
  OBVIOUS
<1> HIDE DEF I, J
<1>2. Kept(t, J) = IF Len(list) + 1 \in J THEN Append(Kept(list, I), alert)
                   ELSE Kept(list, I)
  BY <1>1, KeptAppend
<1>3. Kept(list, I) \in Seq(S)
  BY KeptTyped
<1>4. QED
  BY <1>1, <1>2, <1>3 DEF LoggedOf, I, J

(* The invariant, of any alerts and log.                                   *)
Matching(list, log) ==
  \/ IsSuffix(Stamps(LoggedOf(list)), Stamps(log))
  \/ IsSuffix(Stamps(log), Stamps(LoggedOf(list)))

(* Matching, by the ends of the two lists of stamps.                       *)
LEMMA MatchingIs ==
  ASSUME NEW S, NEW list \in Seq(S), NEW T, NEW log \in Seq(T)
  PROVE  Matching(list, log) <=>
           \/ IsEnd(Stamps(LoggedOf(list)), Stamps(log))
           \/ IsEnd(Stamps(log), Stamps(LoggedOf(list)))
<1> DEFINE U == {StampOf(r) : r \in S} \cup {StampOf(r) : r \in T}
           a == Stamps(LoggedOf(list))
           b == Stamps(log)
<1>1. LoggedOf(list) \in Seq(S)
  BY KeptTyped DEF LoggedOf
<1>2. a \in Seq({StampOf(r) : r \in S}) /\ b \in Seq({StampOf(r) : r \in T})
  BY <1>1, StampsTyped
<1> HIDE DEF a, b
<1>3. a \in Seq(U) /\ b \in Seq(U)
  BY <1>2
<1> HIDE DEF U
<1>4. QED
  BY <1>3, SuffixIsEnd DEF Matching, a, b

(* Matching survives an alert together with its entry.                     *)
LEMMA MatchingGrows ==
  ASSUME NEW S, NEW list \in Seq(S), NEW T, NEW log \in Seq(T),
         NEW alert \in S, NEW entry \in T, IsLogged(alert),
         StampOf(alert) = StampOf(entry), Matching(list, log)
  PROVE  Matching(Append(list, alert), Append(log, entry))
<1> DEFINE U == {StampOf(r) : r \in S} \cup {StampOf(r) : r \in T}
           a == Stamps(LoggedOf(list))
           b == Stamps(log)
           e == StampOf(alert)
<1>1. /\ LoggedOf(list) \in Seq(S)
      /\ LoggedOf(Append(list, alert)) = Append(LoggedOf(list), alert)
  BY LoggedOfAppend
<1>2. a \in Seq({StampOf(r) : r \in S}) /\ b \in Seq({StampOf(r) : r \in T})
  BY <1>1, StampsTyped
<1>3. /\ Stamps(LoggedOf(Append(list, alert))) = Append(a, e)
      /\ Stamps(Append(log, entry)) = Append(b, e)
  BY <1>1, StampsAppend
<1>4. IsEnd(a, b) \/ IsEnd(b, a)
  BY MatchingIs
<1>5. e \in U
  OBVIOUS
<1> HIDE DEF a, b, e
<1>6. a \in Seq(U) /\ b \in Seq(U)
  BY <1>2
<1> HIDE DEF U
<1>7. IsEnd(Append(a, e), Append(b, e)) \/ IsEnd(Append(b, e), Append(a, e))
  BY <1>4, <1>5, <1>6, EndsGrow
<1>8. Append(list, alert) \in Seq(S) /\ Append(log, entry) \in Seq(T)
  OBVIOUS
<1>9. QED
  BY <1>3, <1>7, <1>8, MatchingIs

(* Matching holds when one of the lists was cleared.                       *)
LEMMA MatchingOfNone ==
  ASSUME NEW S, NEW list \in Seq(S), NEW T, NEW log \in Seq(T),
         list = <<>> \/ log = <<>>
  PROVE  Matching(list, log)
<1>1. LoggedOf(list) \in Seq(S)
  BY KeptTyped DEF LoggedOf
<1>2. /\ Len(Stamps(LoggedOf(list))) = Len(LoggedOf(list)) /\ Len(LoggedOf(list)) \in Nat
      /\ Len(Stamps(log)) = Len(log) /\ Len(log) \in Nat
  <2>1. Len(Stamps(LoggedOf(list))) = Len(LoggedOf(list))
    BY <1>1, StampsTyped
  <2>2. Len(Stamps(log)) = Len(log)
    BY StampsTyped
  <2>3. QED
    BY <1>1, <2>1, <2>2
<1>3. Len(Stamps(LoggedOf(list))) = 0 \/ Len(Stamps(log)) = 0
  <2>1. CASE list = <<>>
    BY <1>2, <2>1, KeptEmpty DEF LoggedOf
  <2>2. CASE log = <<>>
    BY <1>2, <2>2
  <2>3. QED
    BY <2>1, <2>2
<1>4. QED
  BY <1>2, <1>3, MatchingIs DEF IsEnd

(* AlertsMatchLog is Matching, in both states of a step.                   *)
LEMMA AlertsMatchIs ==
  /\ AlertsMatchLog <=> Matching(alerts, entries)
  /\ AlertsMatchLog' <=> Matching(alerts', entries')
BY DEF AlertsMatchLog, LoggedAlerts, Matching, LoggedOf

(* AlertsMatchLog is preserved: the two lists grow together, and either    *)
(* may be cleared.                                                         *)
LEMMA MatchStep ==
  ASSUME TypeOK, RecoveryCoherent, FeedOK, AlertsOK, EntriesOK, AlertsMatchLog,
         [MNext]_mvars
  PROVE  AlertsMatchLog'
<1>1. PICK S, T : alerts \in Seq(S) /\ entries \in Seq(T)
  BY DEF AlertsOK, EntriesOK
<1>2. PICK U, V : alerts' \in Seq(U) /\ entries' \in Seq(V)
  BY AlertsStep, EntriesStep DEF AlertsOK, EntriesOK
<1>3. Matching(alerts, entries)
  BY AlertsMatchIs
<1>4. CASE Logged(Head(feed))
  <2>1. PICK alert, entry :
          /\ alerts' = Append(alerts, alert) /\ entries' = Append(entries, entry)
          /\ IsLogged(alert) /\ StampOf(alert) = StampOf(entry)
    BY <1>4 DEF Logged, TellsAs, StampOf
  <2>2. /\ alerts \in Seq(S \cup {alert}) /\ entries \in Seq(T \cup {entry})
        /\ alert \in S \cup {alert} /\ entry \in T \cup {entry}
    BY <1>1
  <2>3. Matching(Append(alerts, alert), Append(entries, entry))
    BY <1>3, <2>1, <2>2, MatchingGrows
  <2>4. QED
    BY <2>1, <2>3, AlertsMatchIs
<1>5. CASE NotLogged(Head(feed))
  <2>1. CASE alerts' = alerts
    BY <1>3, <1>5, <2>1, AlertsMatchIs DEF NotLogged
  <2>2. ASSUME NEW alert, alerts' = Append(alerts, alert), ~ IsLogged(alert)
        PROVE  AlertsMatchLog'
    <3>1. alerts \in Seq(S \cup {alert}) /\ alert \in S \cup {alert}
      BY <1>1
    <3>2. LoggedOf(Append(alerts, alert)) = LoggedOf(alerts)
      BY <2>2, <3>1, LoggedOfAppend
    <3>3. Matching(Append(alerts, alert), entries)
      BY <1>3, <3>2 DEF Matching
    <3>4. QED
      BY <1>5, <2>2, <3>3, AlertsMatchIs DEF NotLogged
  <2>3. QED
    BY <1>5, <2>1, <2>2 DEF NotLogged
<1>6. CASE alerts' = <<>> \/ entries' = <<>>
  BY <1>2, <1>6, MatchingOfNone, AlertsMatchIs
<1>7. CASE UNCHANGED <<alerts, entries>>
  BY <1>3, <1>7, AlertsMatchIs
<1>8. QED
  BY <1>4, <1>5, <1>6, <1>7, WaysOfLogs

-----------------------------------------------------------------------------
(* What follows from the types: the metrics of the parts add up.           *)
LEMMA MetricsAddUp ==
  ASSUME TypeOK, EntriesOK
  PROVE  RangesAddUp
<1>1. PICK S : entries \in Seq(S)
  BY DEF EntriesOK
<1> DEFINE T == {e \in S : e.timestamp \in 1..MaxTime}
<1>2. entries \in Seq(T)
  <2>1. \A i \in 1..Len(entries) : entries[i] \in T
    BY <1>1, ParameterAssumption DEF EntriesOK, EntryOK, TypeOK
  <2>2. QED
    BY <1>1, <2>1
<1>3. \A e \in T : e.timestamp \in 1..MaxTime
  OBVIOUS
<1> HIDE DEF T
<1>4. SUFFICES ASSUME NEW t \in 1..MaxTime
               PROVE  LET before == SnapshotInRange(entries, 1, t)
                          after  == SnapshotInRange(entries, t + 1, MaxTime)
                          whole  == Snapshot(entries)
                      IN  \A metric \in DOMAIN whole \ {"active_identities"} :
                            whole[metric] = before[metric] + after[metric]
  BY DEF RangesAddUp
<1> DEFINE before == EntriesInRange(entries, 1, t)
           after == EntriesInRange(entries, t + 1, MaxTime)
<1>5. /\ \A ty : Len(EntriesByType(entries, ty))
                   = Len(EntriesByType(before, ty)) + Len(EntriesByType(after, ty))
      /\ Len(PendingRecoveries(entries))
           = Len(PendingRecoveries(before)) + Len(PendingRecoveries(after))
  BY <1>2, <1>3, PartsAddUp
<1> HIDE DEF before, after
<1>6. ASSUME NEW metric \in DOMAIN Snapshot(entries) \ {"active_identities"}
      PROVE  Snapshot(entries)[metric] = Snapshot(before)[metric] + Snapshot(after)[metric]
  <2>1. metric \in {"pending_recoveries", "executed_intents", "high_value_intents",
                    "revoked_sessions"}
    BY DEF Snapshot
  <2>2. ASSUME NEW log
        PROVE  /\ Snapshot(log)["pending_recoveries"] = Len(PendingRecoveries(log))
               /\ Snapshot(log)["executed_intents"] = Len(EntriesByType(log, "IntentExecuted"))
               /\ Snapshot(log)["high_value_intents"]
                    = Len(EntriesByType(log, "HighValueIntent"))
               /\ Snapshot(log)["revoked_sessions"]
                    = Len(EntriesByType(log, "SessionInvalidated"))
    BY DEF Snapshot
  <2>3. QED
    BY <1>5, <2>1, <2>2
<1>7. QED
  BY <1>6 DEF SnapshotInRange, before, after

-----------------------------------------------------------------------------
(* The holder's replay of what is on its way, step by step.                *)
LEMMA AgreeStep ==
  ASSUME TypeOK, RecoveryCoherent, FeedOK, WillAgree, [MNext]_mvars
  PROVE  WillAgree'
<1>0. PICK f, last : /\ IsReplay(f, tracker, feed)
                     /\ last = f[Len(feed)]
                     /\ AgreesWith(last)
  BY DEF WillAgree
<1>1. CASE Emitted
  <2>1. PICK events : Emit(events) /\ EventsOK(events) /\ SaysRecovery(events)
    BY <1>1 DEF Emitted
  <2> DEFINE m == Len(feed)
             p == Len(events)
  <2>2. /\ m \in Nat /\ p \in Nat /\ Len(feed') = m + p
        /\ \A i \in 1..m : feed'[i] = feed[i]
        /\ \A i \in 1..p : feed'[m + i] = events[i]
    BY <2>1, EmittedFeed
  <2>3. PICK g, next : /\ IsReplay(g, last, events)
                       /\ next = g[p] /\ AgreesWith(next)'
    BY <1>0, <2>1 DEF SaysRecovery
  <2> DEFINE h == [i \in 0..(m + p) |-> IF i <= m THEN f[i] ELSE g[i - m]]
  <2>4. /\ f[0] = tracker /\ \A i \in 1..m : f[i] = Followed(f[i - 1], feed[i])
        /\ g[0] = f[m] /\ \A i \in 1..p : g[i] = Followed(g[i - 1], events[i])
    BY <1>0, <2>3 DEF IsReplay
  <2> HIDE DEF m, p
  <2>5. /\ \A i \in 0..m : h[i] = f[i]
        /\ \A i \in 0..p : h[m + i] = g[i]
    BY <2>2, <2>4
  <2> HIDE DEF h
  <2>6. ASSUME NEW i \in 1..(m + p)
        PROVE  h[i] = Followed(h[i - 1], feed'[i])
    <3>1. CASE i <= m
      <4>1. i \in 1..m /\ i \in 0..m /\ i - 1 \in 0..m
        BY <2>2, <3>1
      <4>2. h[i] = f[i] /\ h[i - 1] = f[i - 1] /\ feed'[i] = feed[i]
        BY <2>2, <2>5, <4>1
      <4>3. QED
        BY <2>4, <4>1, <4>2
    <3>2. CASE i > m
      <4> DEFINE j == i - m
      <4>1. j \in 1..p /\ j \in 0..p /\ j - 1 \in 0..p /\ m + j = i /\ m + (j - 1) = i - 1
        BY <2>2, <3>2
      <4> HIDE DEF j
      <4>2. h[i] = g[j] /\ h[i - 1] = g[j - 1] /\ feed'[i] = events[j]
        BY <2>2, <2>5, <4>1
      <4>3. QED
        BY <2>4, <4>1, <4>2
    <3>3. QED
      BY <2>2, <3>1, <3>2
  <2>7. h[0] = tracker' /\ next = h[Len(feed')]
    BY <2>1, <2>2, <2>3, <2>4, <2>5 DEF Emit
  <2>8. IsReplay(h, tracker', feed')
    BY <2>2, <2>6, <2>7 DEF IsReplay
  <2>9. QED
    BY <2>3, <2>7, <2>8 DEF WillAgree
<1>2. CASE Deliver
  <2> DEFINE m == Len(feed)
             h == [i \in 0..(m - 1) |-> f[i + 1]]
  <2>1. /\ m \in Nat /\ m >= 1 /\ Head(feed) = feed[1] /\ Len(feed') = m - 1
        /\ \A i \in 1..(m - 1) : feed'[i] = feed[i + 1]
    BY <1>2, HeadOfFeed
  <2>2. tracker' = Followed(tracker, feed[1])
    BY <1>2, <2>1 DEF Deliver, Track
  <2>3. /\ f[0] = tracker
        /\ \A i \in 1..m : f[i] = Followed(f[i - 1], feed[i])
        /\ last = f[m]
    BY <1>0 DEF IsReplay
  <2> HIDE DEF m
  <2>4. \A i \in 0..(m - 1) : h[i] = f[i + 1]
    OBVIOUS
  <2> HIDE DEF h
  <2>5. h[0] = tracker' /\ last = h[Len(feed')]
    <3>1. 0 \in 0..(m - 1) /\ m - 1 \in 0..(m - 1) /\ 1 \in 1..m /\ (m - 1) + 1 = m
      BY <2>1
    <3>2. f[1] = Followed(f[0], feed[1])
      BY <2>3, <3>1
    <3>3. QED
      BY <2>1, <2>2, <2>3, <2>4, <3>1, <3>2
  <2>6. ASSUME NEW i \in 1..(m - 1)
        PROVE  h[i] = Followed(h[i - 1], feed'[i])
    <3>1. /\ i \in 0..(m - 1) /\ i - 1 \in 0..(m - 1) /\ (i - 1) + 1 = i
          /\ i + 1 \in 1..m /\ (i + 1) - 1 = i
      BY <2>1
    <3>2. h[i] = f[i + 1] /\ h[i - 1] = f[i] /\ feed'[i] = feed[i + 1]
      BY <2>1, <2>4, <3>1
    <3>3. f[i + 1] = Followed(f[i], feed[i + 1])
      BY <2>3, <3>1
    <3>4. QED
      BY <3>2, <3>3
  <2>7. IsReplay(h, tracker', feed')
    BY <2>1, <2>5, <2>6 DEF IsReplay
  <2>8. AgreesWith(last)'
    BY <1>0, <1>2, AgreementUnmoved DEF Deliver, vars, storeVars, recoveryVars
  <2>9. QED
    BY <2>5, <2>7, <2>8 DEF WillAgree
<1>3. CASE \/ Drain \/ Housekeeping \/ Quietly \/ UNCHANGED mvars
           \/ \E registration \in Registration : Register(registration)
  <2>1. UNCHANGED <<feed, tracker, recoveryVars>>
    BY <1>3 DEF Drain, Housekeeping, Quietly, Tick, Register, mvars, monitorVars,
                vars, storeVars
  <2>2. AgreesWith(last)'
    BY <1>0, <2>1, AgreementUnmoved DEF recoveryVars
  <2>3. IsReplay(f, tracker, feed)' /\ last = f[Len(feed')]
    BY <1>0, <2>1 DEF IsReplay
  <2>4. QED
    BY <2>2, <2>3 DEF WillAgree
<1>4. QED
  BY <1>1, <1>2, <1>3, WaysToStep

(* With no event on its way, the tracker agrees with the contract.         *)
LEMMA AgreesAtLast ==
  ASSUME TypeOK, WillAgree
  PROVE  TrackerAgrees
<1> SUFFICES ASSUME feed = <<>>
             PROVE  IF tracker = NoRecovery THEN ~ Pending(OurRoot)
                    ELSE /\ tracker.request.new_root = pendingNewRoot[OurRoot]
                         /\ Len(tracker.approvals) = recoveryApprovals[OurRoot]
                         /\ ClientTimelockExpired(tracker, now)
                              <=> TimelockExpired(OurRoot)
  BY DEF TrackerAgrees
<1>1. AgreesWith(tracker)
  <2>1. Len(feed) = 0
    OBVIOUS
  <2>2. QED
    BY <2>1 DEF WillAgree, IsReplay
<1>2. recoveryInitiatedAt[OurRoot] \in Nat
  BY WatchAssumption DEF TypeOK
<1>3. QED
  BY <1>1, <1>2, TrackerAssumption
  DEF AgreesWith, ClientTimelockExpired, TimelockExpired

-----------------------------------------------------------------------------
(* The notices.                                                            *)
LEMMA DeliveryKeeps ==
  ASSUME FeedOK, WatcherOK, NoticesAreOwed, Deliver
  PROVE  WatcherOK' /\ NoticesAreOwed'
<1> DEFINE event == Head(feed)
<1>1. event.identity \in Identity
  BY HeadOfFeed DEF EventOK
<1>2. Dispatch(event) /\ owed' = owed \o Due(event) /\ delivered' = delivered
  BY DEF Deliver
<1> HIDE DEF event
<1>3. Notified(event) /\ UNCHANGED known_guardians
  BY <1>1, <1>2, HandlerNotifies
<1>4. PICK notes, S : /\ notes \in Seq(S)
                      /\ Notices(notes) = Due(event)
                      /\ pending_notifications' = pending_notifications \o notes
  BY <1>3 DEF Notified
<1>5. PICK U : pending_notifications \in Seq(U) /\ delivered \in Seq(U)
  BY DEF WatcherOK
<1> DEFINE V == S \cup U
<1>6. /\ notes \in Seq(V) /\ pending_notifications \in Seq(V)
      /\ delivered \in Seq(V)
  BY <1>4, <1>5
<1>7. pending_notifications' \in Seq(V) /\ delivered' \in Seq(V)
  BY <1>2, <1>4, <1>6
<1>8. WatcherOK'
  BY <1>3, <1>7 DEF WatcherOK
<1>9. delivered \o (pending_notifications \o notes)
         = (delivered \o pending_notifications) \o notes
  BY <1>6, ConcatAssociative
<1>10. NoticesAreOwed'
  <2>1. delivered \o pending_notifications \in Seq(V)
    BY <1>6
  <2>2. Notices((delivered \o pending_notifications) \o notes)
          = Notices(delivered \o pending_notifications) \o Notices(notes)
    BY <1>6, <2>1, NoticesOfConcat
  <2>3. (delivered \o pending_notifications)'
          = (delivered \o pending_notifications) \o notes
    BY <1>2, <1>4, <1>9
  <2>4. Notices((delivered \o pending_notifications)')
          = owed \o Due(event)
    BY <1>4, <2>2, <2>3 DEF NoticesAreOwed
  <2>5. QED
    BY <1>2, <2>4 DEF NoticesAreOwed, Notices
<1>11. QED
  BY <1>8, <1>10

(* NoticesAreOwed is preserved.                                            *)
LEMMA NoticesStep ==
  ASSUME TypeOK, RecoveryCoherent, FeedOK, WatcherOK, NoticesAreOwed, [MNext]_mvars
  PROVE  WatcherOK' /\ NoticesAreOwed'
<1>1. CASE Emitted
  <2>1. UNCHANGED <<known_guardians, pending_notifications, delivered, owed>>
    BY <1>1 DEF Emitted, Emit, watcherVars
  <2>2. QED
    BY <2>1 DEF WatcherOK, NoticesAreOwed, Notices
<1>2. CASE Deliver
  BY <1>2, DeliveryKeeps
<1>3. CASE Drain
  <2>1. PICK U : pending_notifications \in Seq(U) /\ delivered \in Seq(U)
    BY DEF WatcherOK
  <2>2. /\ pending_notifications' = <<>>
        /\ delivered' = delivered \o pending_notifications
        /\ UNCHANGED <<known_guardians, owed>>
    BY <1>3 DEF Drain, DrainNotifications
  <2>3. pending_notifications' \in Seq(U) /\ delivered' \in Seq(U)
    BY <2>1, <2>2
  <2>4. (delivered \o pending_notifications)' = delivered \o pending_notifications
    BY <2>2, <2>3
  <2>5. QED
    BY <2>2, <2>3, <2>4 DEF WatcherOK, NoticesAreOwed, Notices
<1>4. ASSUME NEW registration \in Registration, Register(registration)
      PROVE  WatcherOK' /\ NoticesAreOwed'
  <2>1. /\ registration.identity \in Identity
        /\ registration.guardians \in Seq(Address)
    BY WatchAssumption
  <2>2. /\ known_guardians' = [known_guardians EXCEPT
              ![registration.identity] = @ \o registration.guardians]
        /\ UNCHANGED <<pending_notifications, delivered, owed>>
    BY <1>4 DEF Register, RegisterGuardians
  <2>3. \A identity \in Identity : known_guardians'[identity] \in Seq(Address)
    BY <2>1, <2>2 DEF WatcherOK
  <2>4. QED
    BY <2>2, <2>3 DEF WatcherOK, NoticesAreOwed
<1>5. CASE Housekeeping \/ Quietly \/ UNCHANGED mvars
  <2>1. UNCHANGED <<known_guardians, pending_notifications, delivered, owed>>
    BY <1>5 DEF Housekeeping, RegisterDelegate, ClearAlerts, ClearLog, Quietly,
                mvars, monitorVars, watcherVars
  <2>2. QED
    BY <2>1 DEF WatcherOK, NoticesAreOwed, Notices
<1>6. QED
  BY <1>1, <1>2, <1>3, <1>4, <1>5, WaysToStep

-----------------------------------------------------------------------------
(* The whole invariant, from the start and step by step.                   *)
LEMMA MonitorInit ==
  ASSUME MInit
  PROVE  MonitorInv
<1>1. TypeOK
  <2>1. Enrolled \subseteq Address
    BY MessageAssumption DEF Enrolled, IsRecoveryRequest
  <2>2. nonces \in [Address -> Nat] /\ now \in 1..MaxTime
    BY ParameterAssumption DEF MInit
  <2>3. _guardians \in [Address -> Seq(Address)]
    <3>1. PICK list \in GuardianList :
            _guardians = [a \in Address |-> IF a \in Enrolled THEN list ELSE <<>>]
      BY DEF MInit
    <3>2. list \in Seq(Address) /\ <<>> \in Seq(Address)
      BY MessageAssumption
    <3>3. QED
      BY <3>1, <3>2
  <2>4. QED
    BY <2>1, <2>2, <2>3 DEF MInit, TypeOK, IdentityState
<1>2. RecoveryCoherent
  BY ParameterAssumption DEF MInit, RecoveryCoherent, RecoveryCoherentAt, Pending
<1>3. /\ feed = <<>> /\ alerts = <<>> /\ entries = <<>> /\ delivered = <<>>
      /\ pending_notifications = <<>> /\ owed = <<>> /\ received = 0
      /\ tracker = NoRecovery
      /\ known_guardians = [identity \in Identity |-> <<>>]
      /\ ~ Pending(OurRoot)
  BY WatchAssumption DEF MInit, WInit, Pending
<1>4. <<>> \in Seq({}) /\ <<>> \in Seq(Address) /\ Len(<<>>) = 0
  OBVIOUS
<1>5. FeedOK /\ AlertsOK /\ EntriesOK /\ WatcherOK
  BY <1>3, <1>4 DEF FeedOK, EventsOK, AlertsOK, EntriesOK, WatcherOK
<1>6. CountsOK /\ NoticesAreOwed
  BY <1>3, <1>4, WatchAssumption DEF CountsOK, NoticesAreOwed, Notices
<1>7. AlertsMatchLog
  BY <1>3, <1>4, MatchingOfNone, AlertsMatchIs
<1>8. NewestIsTrue
  <2>1. IsJoined(LogAndFeed, entries, feed)
    BY <1>3, <1>4, LogIsJoined, JoinedIs
  <2>2. Len(LogAndFeed) = 0
    BY <1>3, <1>4, <2>1 DEF IsJoined
  <2>3. QED
    BY <2>2 DEF NewestIsTrue, Newest
<1>9. WillAgree
  <2>1. IsReplay([i \in {0} |-> tracker], tracker, feed)
    BY <1>3, <1>4 DEF IsReplay
  <2>2. [i \in {0} |-> tracker][Len(feed)] = tracker
    BY <1>3, <1>4
  <2>3. AgreesWith(tracker)
    BY <1>3 DEF AgreesWith
  <2>4. QED
    BY <2>1, <2>2, <2>3 DEF WillAgree
<1>10. QED
  BY <1>1, <1>2, <1>5, <1>6, <1>7, <1>8, <1>9 DEF MonitorInv

(* Every step of the system preserves the invariant.                       *)
LEMMA MonitorStep ==
  ASSUME MonitorInv, [MNext]_mvars
  PROVE  MonitorInv'
<1> USE DEF MonitorInv
<1>1. TypeOK' /\ RecoveryCoherent'
  BY ContractStep, TypeStep, CoherentStep
<1>2. FeedOK' /\ CountsOK'
  BY FeedStep, CountsStep
<1>3. WatcherOK' /\ NoticesAreOwed'
  BY NoticesStep
<1>4. AlertsOK' /\ EntriesOK' /\ AlertsMatchLog'
  BY AlertsStep, EntriesStep, MatchStep
<1>5. NewestIsTrue' /\ WillAgree'
  BY NewestStep, AgreeStep
<1>6. QED
  BY <1>1, <1>2, <1>3, <1>4, <1>5

(* So it holds in every state that is reached.                             *)
LEMMA MonitorInvariant == MSpec => []MonitorInv
<1>1. MInit => MonitorInv
  BY MonitorInit
<1>2. MonitorInv /\ [MNext]_mvars => MonitorInv'
  BY MonitorStep
<1>3. QED
  BY <1>1, <1>2, PTL DEF MSpec

(* Alerts, entries and counters are what their types say, and no entry is  *)
(* of a time that has not come (SecurityAlert, EventLogEntry).             *)
THEOREM MonitorTypeCorrect == MSpec => []MTypeOK
<1>1. MonitorInv => MTypeOK
  <2> SUFFICES ASSUME MonitorInv
               PROVE  MTypeOK
    OBVIOUS
  <2>1. Len(feed) \in Nat
    BY DEF MonitorInv, FeedOK, EventsOK
  <2>2. received \in 0..MaxEvents /\ Len(feed) <= MaxEvents - received
    BY <2>1, WatchAssumption DEF MonitorInv, CountsOK
  <2>3. DOMAIN alerts = 1..Len(alerts) /\ DOMAIN entries = 1..Len(entries)
    BY DEF MonitorInv, AlertsOK, EntriesOK
  <2>4. QED
    BY <2>2, <2>3
    DEF MonitorInv, MTypeOK, AlertsOK, AlertOK, EntriesOK, EntryOK
<1>2. QED
  BY <1>1, MonitorInvariant, PTL

(* No notice is lost or repeated: what was drained and what waits is what  *)
(* was owed, in order.                                                     *)
THEOREM NoticesComplete == MSpec => []NoticesAreOwed
<1>1. MonitorInv => NoticesAreOwed
  BY DEF MonitorInv
<1>2. QED
  BY <1>1, MonitorInvariant, PTL

(* Alerts and log tell of the same events in the same order, whichever of  *)
(* the two is cleared and whenever (clear_alerts, clear).                  *)
THEOREM AlertsAndLogAgree == MSpec => []AlertsMatchLog
<1>1. MonitorInv => AlertsMatchLog
  BY DEF MonitorInv
<1>2. QED
  BY <1>1, MonitorInvariant, PTL

(* However a log is cut in two in time, the metrics of the two parts add   *)
(* up to those of the whole (snapshot, snapshot_in_range).                 *)
THEOREM PartsOfTimeAddUp == MSpec => []RangesAddUp
<1>1. MonitorInv => RangesAddUp
  BY MetricsAddUp DEF MonitorInv
<1>2. QED
  BY <1>1, MonitorInvariant, PTL

(* Whoever replays the log and the events on their way arrives at the      *)
(* state and the session epoch that the contract has for each root.        *)
THEOREM LogIsHistory == MSpec => []LogTellsState
<1>1. MonitorInv => LogTellsState
  BY NewestIsFound DEF MonitorInv
<1>2. QED
  BY <1>1, MonitorInvariant, PTL

(* A holder who follows the events knows the recovery that the contract    *)
(* has: the same new root and number of approvals, and the same answer to  *)
(* whether its timelock expired.                                           *)
THEOREM TrackerFollows == MSpec => []TrackerAgrees
<1>1. MonitorInv => TrackerAgrees
  BY AgreesAtLast DEF MonitorInv
<1>2. QED
  BY <1>1, MonitorInvariant, PTL

-----------------------------------------------------------------------------
(* What is observed is a recovery of the abstract kind, with guardians who *)
(* were there from the start: the log and the tracker, which agree with    *)
(* the contract, tell of no other.                                         *)
THEOREM MonitoredRecovery == MSpec => SocialRecoveryKept
<1>1. MInit => SR!Init
  BY DEF MInit, SR!Init
<1>2. MonitorInv /\ [MNext]_mvars => [SR!Next]_SR!vars
  BY ContractStep, TypeStep, AbstractStep DEF MonitorInv
<1>3. QED
  BY <1>1, <1>2, MonitorInvariant, PTL DEF MSpec, SocialRecoveryKept, SR!Spec

(* Nor is a recovery carried through, while events are late and logs are   *)
(* cleared, without its quorum and its window.                             *)
THEOREM MonitoredQuorum == MSpec => RecoveryNeedsQuorumAndWindow
<1>1. MInit => TypeOK /\ ApprovalsAreConsents
  <2>1. MInit => ApprovalsAreConsents
    BY DEF MInit, ApprovalsAreConsents, ConsentsCover, Pending
  <2>2. QED
    BY <2>1, MonitorInit DEF MonitorInv
<1>2. [MNext]_mvars => [Next]_vars
  BY ContractStep
<1>3. QED
  BY <1>1, <1>2, QuorumFromAnyState, PTL DEF MSpec

=============================================================================
