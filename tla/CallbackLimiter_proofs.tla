----------------------- MODULE CallbackLimiter_proofs -----------------------
(* Theorems about CallbackLimiter, for any requests, addresses and bounds.  *)
EXTENDS CallbackLimiter, FiniteSetTheorems, TLAPS

-----------------------------------------------------------------------------
(* Types.                                                                    *)

\* What remains of a bucket, and what a scan makes of all of them.
LEMMA FreshType ==
    ASSUME NEW bucket, NEW now
    PROVE  Fresh(bucket, now) \subseteq bucket
BY DEF Fresh

LEMMA ScannedType ==
    ASSUME TypeOK, NEW now
    PROVE  /\ Scanned(now) \in [IPs -> SUBSET Attempts]
           /\ \A ip \in IPs : /\ Scanned(now)[ip] \subseteq byIP[ip]
                              /\ \A b \in byIP[ip] : b \in Scanned(now)[ip] \/ ~(stamp[b] > now - Window)
BY DEF Scanned, Fresh, TypeOK

\* What Allow does, with the requests it counts named.
Recent(a) == Fresh(Scanned(stamp[a])[IPOf[a]], stamp[a])

LEMMA AllowEffect ==
    ASSUME NEW a \in Attempts, Allow(a), TypeOK
    PROVE  /\ verdict[a] = "stamped"
           /\ lastScan' \in {lastScan, stamp[a]}
           /\ UNCHANGED <<clock, stamp>>
           /\ \/ /\ Cardinality(Recent(a)) >= Burst
                 /\ verdict' = [verdict EXCEPT ![a] = "refused"]
                 /\ byIP' = [Scanned(stamp[a]) EXCEPT ![IPOf[a]] = Recent(a)]
              \/ /\ ~(Cardinality(Recent(a)) >= Burst)
                 /\ verdict' = [verdict EXCEPT ![a] = "admitted"]
                 /\ byIP' = [Scanned(stamp[a]) EXCEPT ![IPOf[a]] = Recent(a) \cup {a}]
BY DEF Allow, Recent

\* The requests Allow counts are those of the bucket that are within the window.
LEMMA RecentAre ==
    ASSUME NEW a \in Attempts, TypeOK
    PROVE  /\ IPOf[a] \in IPs
           /\ Recent(a) \subseteq byIP[IPOf[a]]
           /\ Recent(a) \subseteq Attempts
           /\ \A b \in Recent(a) : stamp[b] > stamp[a] - Window
           /\ \A b \in byIP[IPOf[a]] : b \in Recent(a) \/ ~(stamp[b] > stamp[a] - Window)
<1>1. IPOf[a] \in IPs
  BY LimiterParameters
<1> QED
  BY <1>1, ScannedType DEF Recent, Fresh, TypeOK

\* The type invariant.
THEOREM TypeCorrect == Spec => []TypeOK
<1>1. Init => TypeOK
  BY LimiterParameters DEF Init, TypeOK
<1>2. TypeOK /\ [Next]_vars => TypeOK'
  <2> SUFFICES ASSUME TypeOK, [Next]_vars PROVE TypeOK'
    OBVIOUS
  <2>1. CASE Tick
    BY <2>1 DEF Tick, TypeOK
  <2>2. ASSUME NEW a \in Attempts, TakeStamp(a) PROVE TypeOK'
    BY <2>2 DEF TakeStamp, TypeOK
  <2>3. ASSUME NEW a \in Attempts, Allow(a) PROVE TypeOK'
    <3>1. byIP' \in [IPs -> SUBSET Attempts]
      BY <2>3, AllowEffect, RecentAre, ScannedType
    <3>2. lastScan' \in Int
      BY <2>3, AllowEffect DEF TypeOK
    <3>3. verdict' \in [Attempts -> {"new", "stamped", "admitted", "refused"}]
      BY <2>3, AllowEffect DEF TypeOK
    <3> QED
      BY <3>1, <3>2, <3>3, <2>3, AllowEffect DEF TypeOK
  <2>4. CASE Over \/ UNCHANGED vars
    BY <2>4 DEF Over, vars, TypeOK
  <2> QED
    BY <2>1, <2>2, <2>3, <2>4 DEF Next
<1> QED
  BY <1>1, <1>2, PTL DEF Spec

-----------------------------------------------------------------------------
(* The bound.                                                                *)

\* No request waits for the mutex longer than MaxDelay.
Prompt == \A a \in Attempts : verdict[a] = "stamped" => clock <= stamp[a] + MaxDelay

\* A bucket holds admitted requests of its address.
BucketsAdmitted ==
    \A ip \in IPs : \A b \in byIP[ip] : verdict[b] = "admitted" /\ IPOf[b] = ip

\* An admitted request leaves its bucket only when a window has passed.
DroppedLate ==
    \A b \in Attempts :
        verdict[b] = "admitted" /\ b \notin byIP[IPOf[b]] => stamp[b] + Window <= clock

\* BurstBound at every time, not only up to now.
Bounded ==
    \A ip \in IPs : \A t \in Int :
        Cardinality(AdmittedIn(ip, t, Window - MaxDelay)) <= Burst

LimiterInv == TypeOK /\ Prompt /\ BucketsAdmitted /\ DroppedLate /\ Bounded

LEMMA InitLimiter == Init => LimiterInv
<1> SUFFICES ASSUME Init PROVE LimiterInv
  OBVIOUS
<1>1. TypeOK
  BY LimiterParameters DEF Init, TypeOK
<1>2. Prompt /\ BucketsAdmitted /\ DroppedLate
  BY DEF Init, Prompt, BucketsAdmitted, DroppedLate
<1>3. Bounded
  <2>1. ASSUME NEW ip \in IPs, NEW t \in Int
        PROVE  AdmittedIn(ip, t, Window - MaxDelay) = {}
    BY DEF Init, AdmittedIn
  <2> QED
    BY <2>1, FS_EmptySet, LimiterParameters DEF Bounded
<1> QED
  BY <1>1, <1>2, <1>3 DEF LimiterInv

\* The admitted requests that count for a window are finitely many.
LEMMA AdmittedFinite ==
    ASSUME NEW ip, NEW t, NEW span
    PROVE  IsFiniteSet(AdmittedIn(ip, t, span))
BY LimiterParameters, FS_Subset DEF AdmittedIn

\* The step that matters: when a is admitted, every admitted request of its
\* address that shares a window with it is among those Allow counted.
LEMMA SharesWindow ==
    ASSUME LimiterInv, NEW a \in Attempts, verdict[a] = "stamped",
           NEW t \in Int, stamp[a] <= t,
           NEW b \in AdmittedIn(IPOf[a], t, Window - MaxDelay)
    PROVE  b \in Recent(a)
<1> USE DEF LimiterInv
<1>1. b \in Attempts /\ verdict[b] = "admitted" /\ IPOf[b] = IPOf[a]
      /\ t - (Window - MaxDelay) < stamp[b]
  BY DEF AdmittedIn
<1>2. stamp[a] \in Nat /\ stamp[b] \in Nat /\ clock \in Nat
  BY <1>1 DEF TypeOK
<1>3. clock <= stamp[a] + MaxDelay
  BY DEF Prompt
<1>4. ~(stamp[b] + Window <= clock)
  BY <1>1, <1>2, <1>3, LimiterParameters
<1>5. b \in byIP[IPOf[a]]
  BY <1>1, <1>4 DEF DroppedLate
<1>6. stamp[b] > stamp[a] - Window
  BY <1>1, <1>2, LimiterParameters
<1> QED
  BY <1>5, <1>6, RecentAre

LEMMA AllowKeepsBound ==
    ASSUME LimiterInv, NEW a \in Attempts, Allow(a)
    PROVE  Bounded'
<1> USE DEF LimiterInv
<1> SUFFICES ASSUME NEW ip \in IPs, NEW t \in Int
             PROVE  Cardinality(AdmittedIn(ip, t, Window - MaxDelay)') <= Burst
  BY DEF Bounded
<1> DEFINE before == AdmittedIn(ip, t, Window - MaxDelay)
           after  == AdmittedIn(ip, t, Window - MaxDelay)'
<1>1. after \subseteq before \cup {a}
  BY AllowEffect DEF AdmittedIn, TypeOK
<1>2. IsFiniteSet(before) /\ Cardinality(before) \in Nat /\ Cardinality(before) <= Burst
  BY AdmittedFinite, FS_CardinalityType DEF Bounded
<1>3. IsFiniteSet(before \cup {a})
  BY <1>2, FS_AddElement
<1>4. IsFiniteSet(after) /\ Cardinality(after) \in Nat
  BY <1>1, <1>3, FS_Subset, FS_CardinalityType
<1>5. CASE a \notin after
  <2>1. after \in SUBSET before
    BY <1>1, <1>5
  <2> QED
    BY <2>1, <1>2, <1>4, FS_Subset, LimiterParameters
<1>6. CASE a \in after
  <2>1. verdict'[a] = "admitted" /\ IPOf[a] = ip /\ stamp[a] <= t /\ verdict[a] = "stamped"
    BY <1>6, AllowEffect DEF AdmittedIn
  <2>2. ~(Cardinality(Recent(a)) >= Burst)
    BY <2>1, AllowEffect DEF TypeOK
  <2>3. before \subseteq Recent(a)
    BY <2>1, SharesWindow
  <2>4. IsFiniteSet(Recent(a)) /\ Cardinality(Recent(a)) \in Nat
    BY RecentAre, LimiterParameters, FS_Subset, FS_CardinalityType
  <2>5. after \in SUBSET (Recent(a) \cup {a})
    BY <1>1, <2>3
  <2>6. IsFiniteSet(Recent(a) \cup {a}) /\ Cardinality(Recent(a) \cup {a}) <= Cardinality(Recent(a)) + 1
    <3>1. Cardinality(Recent(a) \cup {a}) =
            IF a \in Recent(a) THEN Cardinality(Recent(a)) ELSE Cardinality(Recent(a)) + 1
      BY <2>4, FS_AddElement, Zenon
    <3> QED
      BY <2>4, <3>1, FS_AddElement
  <2>7. Cardinality(Recent(a) \cup {a}) \in Nat
    BY <2>6, FS_CardinalityType
  <2>8. Cardinality(after) <= Cardinality(Recent(a) \cup {a})
    BY <2>5, <2>6, FS_Subset
  <2>9. ASSUME NEW m \in Nat, NEW n \in Nat, NEW k \in Nat,
               ~(k >= Burst), m <= n, n <= k + 1
        PROVE  m <= Burst
    BY <2>9, LimiterParameters
  <2> QED
    BY <2>2, <2>4, <2>6, <2>7, <2>8, <2>9, <1>4
<1> QED
  BY <1>5, <1>6

LEMMA LimiterStep == LimiterInv /\ TypeOK' /\ [Next]_vars => LimiterInv'
<1> SUFFICES ASSUME LimiterInv, TypeOK', [Next]_vars PROVE LimiterInv'
  OBVIOUS
<1> USE DEF LimiterInv
<1>1. CASE Tick
  <2>1. Prompt' /\ DroppedLate'
    BY <1>1, LimiterParameters DEF Tick, Prompt, DroppedLate, TypeOK
  <2>2. BucketsAdmitted' /\ Bounded'
    BY <1>1 DEF Tick, BucketsAdmitted, Bounded, AdmittedIn
  <2> QED
    BY <2>1, <2>2
<1>2. ASSUME NEW a \in Attempts, TakeStamp(a) PROVE LimiterInv'
  <2>1. Prompt'
    BY <1>2, LimiterParameters DEF TakeStamp, Prompt, TypeOK
  <2>2. BucketsAdmitted' /\ DroppedLate'
    BY <1>2, LimiterParameters DEF TakeStamp, BucketsAdmitted, DroppedLate, TypeOK
  <2>3. ASSUME NEW ip \in IPs, NEW t \in Int
        PROVE  AdmittedIn(ip, t, Window - MaxDelay)' = AdmittedIn(ip, t, Window - MaxDelay)
    BY <1>2 DEF TakeStamp, AdmittedIn, TypeOK
  <2>4. Bounded'
    BY <2>3 DEF Bounded
  <2> QED
    BY <2>1, <2>2, <2>4
<1>3. ASSUME NEW a \in Attempts, Allow(a) PROVE LimiterInv'
  <2>1. Prompt'
    BY <1>3, AllowEffect DEF Prompt, TypeOK
  <2>2. BucketsAdmitted'
    <3> SUFFICES ASSUME NEW ip \in IPs, NEW b \in byIP'[ip]
                 PROVE  verdict'[b] = "admitted" /\ IPOf[b] = ip
      BY DEF BucketsAdmitted
    <3>1. \/ b \in byIP[ip]
          \/ b = a /\ ip = IPOf[a] /\ verdict'[a] = "admitted"
      BY <1>3, AllowEffect, RecentAre, ScannedType DEF TypeOK
    <3>2. CASE b \in byIP[ip]
      BY <3>2, <1>3, AllowEffect DEF BucketsAdmitted, TypeOK
    <3> QED
      BY <3>1, <3>2
  <2>3. DroppedLate'
    <3> SUFFICES ASSUME NEW b \in Attempts, verdict'[b] = "admitted", b \notin byIP'[IPOf[b]]
                 PROVE  stamp[b] + Window <= clock
      BY <1>3, AllowEffect DEF DroppedLate
    <3>1. IPOf[b] \in IPs
      BY LimiterParameters
    <3>2. b # a /\ verdict[b] = "admitted"
      <4>1. Scanned(stamp[a]) \in [IPs -> SUBSET Attempts]
        BY ScannedType
      <4>2. verdict'[a] = "admitted" => a \in byIP'[IPOf[a]]
        BY <1>3, <4>1, AllowEffect, RecentAre DEF TypeOK
      <4>3. b # a
        BY <4>2
      <4> QED
        BY <1>3, <4>3, AllowEffect DEF TypeOK
    <3>3. b \notin byIP[IPOf[b]] \/ ~(stamp[b] > stamp[a] - Window)
      <4>1. CASE IPOf[b] = IPOf[a]
        <5>1. b \notin Recent(a)
          <6>1. Scanned(stamp[a]) \in [IPs -> SUBSET Attempts]
            BY ScannedType
          <6>2. \/ byIP' = [Scanned(stamp[a]) EXCEPT ![IPOf[a]] = Recent(a)]
                \/ byIP' = [Scanned(stamp[a]) EXCEPT ![IPOf[a]] = Recent(a) \cup {a}]
            BY <1>3, AllowEffect
          <6> QED
            BY <4>1, <3>1, <6>1, <6>2
        <5> QED
          BY <4>1, <5>1, RecentAre
      <4>2. CASE IPOf[b] # IPOf[a]
        <5>1. Scanned(stamp[a]) \in [IPs -> SUBSET Attempts]
          BY ScannedType
        <5>2. byIP'[IPOf[b]] = Scanned(stamp[a])[IPOf[b]]
          BY <1>3, <3>1, <4>2, <5>1, AllowEffect
        <5> QED
          BY <3>1, <5>2, ScannedType
      <4> QED
        BY <4>1, <4>2
    <3>4. stamp[b] \in Nat /\ stamp[a] \in Nat /\ stamp[a] <= clock /\ clock \in Nat
      BY DEF TypeOK
    <3> QED
      BY <3>2, <3>3, <3>4, LimiterParameters DEF DroppedLate
  <2> QED
    BY <2>1, <2>2, <2>3, <1>3, AllowKeepsBound
<1>4. CASE Over \/ UNCHANGED vars
  BY <1>4 DEF Over, vars, Prompt, BucketsAdmitted, DroppedLate, Bounded, AdmittedIn
<1> QED
  BY <1>1, <1>2, <1>3, <1>4 DEF Next

LEMMA LimiterInvariant == Spec => []LimiterInv
BY InitLimiter, LimiterStep, TypeCorrect, PTL DEF Spec

\* No window holds more than Burst admitted requests of one address, whatever the
\* order in which requests reach the mutex and whatever a scan drops.
THEOREM BurstIsBounded == Spec => []BurstBound
<1>1. LimiterInv => BurstBound
  BY DEF LimiterInv, TypeOK, Bounded, BurstBound
<1> QED
  BY <1>1, LimiterInvariant, PTL

\* A request is refused only for admitted requests of its own address.
THEOREM RefusalsAreDeserved == Spec => RefusedOnlyWhenFull
<1> DEFINE Counting(a) == {b \in Attempts : /\ verdict[b] = "admitted" /\ IPOf[b] = IPOf[a]
                                            /\ stamp[b] > stamp[a] - Window}
<1>1. ASSUME LimiterInv, Next, NEW a \in Attempts,
             verdict[a] # "refused", verdict'[a] = "refused"
      PROVE  Cardinality(Counting(a)) >= Burst
  <2> USE DEF LimiterInv
  <2>1. Allow(a)
    <3>1. ASSUME NEW b \in Attempts, Allow(b) PROVE a = b
      BY <1>1, <3>1, AllowEffect DEF TypeOK
    <3>2. ~Tick /\ ~Over
      BY <1>1 DEF Tick, Over, vars
    <3>3. ASSUME NEW b \in Attempts, TakeStamp(b) PROVE FALSE
      BY <1>1, <3>3 DEF TakeStamp, TypeOK
    <3> QED
      BY <1>1, <3>1, <3>2, <3>3 DEF Next
  <2>2. Cardinality(Recent(a)) >= Burst
    BY <1>1, <2>1, AllowEffect DEF TypeOK
  <2>3. Recent(a) \in SUBSET Counting(a)
    BY <1>1, RecentAre DEF BucketsAdmitted
  <2>4. IsFiniteSet(Counting(a))
    BY LimiterParameters, FS_Subset
  <2>5. Cardinality(Recent(a)) <= Cardinality(Counting(a))
    BY <2>3, <2>4, FS_Subset
  <2>6. Cardinality(Recent(a)) \in Nat /\ Cardinality(Counting(a)) \in Nat
    BY <2>3, <2>4, FS_Subset, FS_CardinalityType
  <2> HIDE DEF Counting
  <2> QED
    BY <2>2, <2>5, <2>6, LimiterParameters
<1>2. LimiterInv /\ [Next]_vars =>
        [\A a \in Attempts : verdict[a] # "refused" /\ verdict'[a] = "refused" =>
             Cardinality({b \in Attempts : /\ verdict[b] = "admitted" /\ IPOf[b] = IPOf[a]
                                           /\ stamp[b] > stamp[a] - Window}) >= Burst]_vars
  BY <1>1
<1> QED
  BY <1>2, LimiterInvariant, PTL DEF Spec, RefusedOnlyWhenFull
=============================================================================
