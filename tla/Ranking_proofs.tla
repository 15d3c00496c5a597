----------------------------- MODULE Ranking_proofs -----------------------------
(***************************************************************************)
(* Proofs about Ranking, for any list of providers, any policies, any      *)
(* weights and window, and any number of recorded events and of calls.     *)
(***************************************************************************)
EXTENDS Ranking, Lists_proofs, FiniteSetTheorems, TLAPS

----------------------------------------------------------------------------
(* Arithmetic.                                                              *)

\* Dividing by n leaves a remainder below n.
LEMMA Division ==
  ASSUME NEW n \in Nat \ {0}, NEW x \in Nat
  PROVE  x % n \in 0..(n - 1) /\ x \div n \in Nat /\ x = n * (x \div n) + (x % n)
  OBVIOUS

\* Numbers less than n apart leave different remainders.
LEMMA RemaindersDiffer ==
  ASSUME NEW n \in Nat \ {0}, NEW x \in Nat, NEW y \in Nat, x < y, y - x < n
  PROVE  x % n # y % n
<1> SUFFICES ASSUME x % n = y % n  PROVE FALSE
  OBVIOUS
<1>1. PICK a \in Nat : x = n * a + (x % n)
  <2>1. x \div n \in Nat /\ x = n * (x \div n) + (x % n)  OBVIOUS
  <2> QED BY <2>1
<1>2. PICK b \in Nat : y = n * b + (y % n)
  <2>1. y \div n \in Nat /\ y = n * (y \div n) + (y % n)  OBVIOUS
  <2> QED BY <2>1
<1> DEFINE d == b - a
<1>3. y - x = n * b - n * a  BY <1>1, <1>2
<1>4. n * d = n * b - n * a  OBVIOUS
<1>5. n * d > 0 /\ n * d < n /\ d \in Int  BY <1>3, <1>4
<1> HIDE DEF d
<1>6. d >= 1  BY <1>5
<1>7. n * d >= n  BY <1>5, <1>6
<1> QED BY <1>5, <1>7

\* A counter modulo n points into a list of length n.
LEMMA RotationIndex ==
  ASSUME NEW n \in Nat \ {0}, NEW x \in Nat
  PROVE  (x % n) + 1 \in 1..n
  BY Division

----------------------------------------------------------------------------
(* Types.                                                                   *)

\* What an attempt leaves in the database, and what a policy may be built with.
Events == [provider : ToSet(Configured), partition : Partitions,
           outcome : Successes \cup Failures, age : 0..MaxAge + 1]

Policies ==
    [sticky : Seq(ToSet(Configured)), ranked : BOOLEAN, decay : BOOLEAN,
     scope : {"current", "all"}, weights : Nat \X Nat]

\* The types, with what ProviderRouter's own checks give the eligible list.
RankingTypeInv ==
    /\ policy \in Policies /\ policy \in RankingPolicies
    /\ history \in Seq(Events)
    /\ index \in Nat /\ orders \in Nat
    /\ last.eligible \in Seq(ToSet(Configured)) /\ IsInjective(last.eligible)
    /\ last.leads \in Seq(ToSet(Configured))

\* The configured list repeats no provider (_reject_duplicate_provider_ids).
LEMMA ConfiguredDistinct ==
  /\ Configured \in Seq(ToSet(Configured)) /\ IsInjective(Configured)
  BY RankingAssumption

\* Neither does what a filter leaves of it.
LEMMA KeptConfigured ==
  ASSUME NEW chosen
  PROVE  /\ Kept(Configured, chosen) \in Seq(ToSet(Configured))
         /\ IsInjective(Kept(Configured, chosen))
  BY ConfiguredDistinct, KeptElements, KeptInjective

\* Nor what the sticky prefix leaves of that.
LEMMA RemainderType ==
  ASSUME NEW eligible \in Seq(ToSet(Configured)), IsInjective(eligible)
  PROVE  Remainder(eligible) \in Seq(ToSet(Configured)) /\ IsInjective(Remainder(eligible))
  BY KeptElements, KeptInjective DEF Remainder

\* The rotation starts with the element the counter points to.
LEMMA RotatedHead ==
  ASSUME NEW D, NEW s \in Seq(D), s # <<>>, index \in Nat
  PROVE  /\ Len(s) \in Nat \ {0}
         /\ (index % Len(s)) + 1 \in 1..Len(s)
         /\ Rotated(s)[1] = s[(index % Len(s)) + 1]
         /\ Rotated(s)[1] \in D
<1> DEFINE n == Len(s)
           i == index % n
<1>1. n \in Nat \ {0}  OBVIOUS
<1>2. i \in 0..(n - 1)
  <2> HIDE DEF n
  <2> QED BY <1>1, Division
<1>3. Rotated(s) = SubSeq(s, i + 1, n) \o SubSeq(s, 1, i)
  BY DEF Rotated
<1> HIDE DEF i
<1>4. SubSeq(s, i + 1, n) \in Seq(D) /\ SubSeq(s, 1, i) \in Seq(D)
  BY <1>2
<1>5. Len(SubSeq(s, i + 1, n)) >= 1 /\ SubSeq(s, i + 1, n)[1] = s[i + 1]
  BY <1>1, <1>2
<1>6. Rotated(s)[1] = s[i + 1]
  <2> DEFINE a == SubSeq(s, i + 1, n)
             b == SubSeq(s, 1, i)
  <2>1. a \in Seq(D) /\ b \in Seq(D) /\ Len(a) >= 1 /\ a[1] = s[i + 1]  BY <1>4, <1>5
  <2> HIDE DEF a, b
  <2>2. (a \o b)[1] = a[1]  BY <2>1
  <2> QED BY <1>3, <2>1, <2>2 DEF a, b
<1>7. i + 1 \in 1..n /\ s[i + 1] \in D  BY <1>1, <1>2
<1> QED BY <1>1, <1>6, <1>7 DEF i

\* Ordering a call keeps the types.
LEMMA OrdersType ==
  ASSUME RankingTypeInv, NEW chosen, NEW answered,
         Orders(Kept(Configured, chosen), answered)
  PROVE  RankingTypeInv'
<1> DEFINE eligible == Kept(Configured, chosen)
           remainder == Remainder(eligible)
<1>1. eligible \in Seq(ToSet(Configured)) /\ IsInjective(eligible)  BY KeptConfigured
<1>2. remainder \in Seq(ToSet(Configured))
  <2> HIDE DEF eligible
  <2> QED BY <1>1, RemainderType
<1>3. last'.eligible = eligible /\ UNCHANGED <<policy, history>> /\ orders' = orders + 1
      /\ index' = NextIndex(remainder)
  BY DEF Orders
<1>4. last'.leads = IF remainder = <<>> THEN <<>>
                    ELSE Append(IF eligible = last.eligible THEN last.leads ELSE <<>>,
                                Rotated(remainder)[1])
  BY DEF Orders
<1> HIDE DEF eligible, remainder
<1>5. index' \in Nat  BY <1>3 DEF NextIndex, RankingTypeInv
<1>6. last'.leads \in Seq(ToSet(Configured))
  <2>1. CASE remainder = <<>>  BY <1>4, <2>1
  <2>2. CASE remainder # <<>>
    <3>1. Rotated(remainder)[1] \in ToSet(Configured)
      BY <1>2, <2>2, RotatedHead DEF RankingTypeInv
    <3>2. (IF eligible = last.eligible THEN last.leads ELSE <<>>) \in Seq(ToSet(Configured))
      BY DEF RankingTypeInv
    <3> QED BY <1>4, <2>2, <3>1, <3>2
  <2> QED BY <2>1, <2>2
<1> QED BY <1>1, <1>3, <1>5, <1>6 DEF RankingTypeInv

\* A half-life that goes by keeps the history's type.
LEMMA AgesType ==
  ASSUME history \in Seq(Events), Ages
  PROVE  history' \in Seq(Events)
<1>1. \A i \in DOMAIN history :
         [history[i] EXCEPT !.age = IF @ > MaxAge THEN @ ELSE @ + 1] \in Events
  <2> SUFFICES ASSUME NEW i \in DOMAIN history
               PROVE  [history[i] EXCEPT !.age = IF @ > MaxAge THEN @ ELSE @ + 1] \in Events
    OBVIOUS
  <2>1. history[i] \in Events  OBVIOUS
  <2> DEFINE older == IF history[i].age > MaxAge THEN history[i].age
                      ELSE history[i].age + 1
  <2>2. older \in 0..MaxAge + 1
    BY <2>1, RankingAssumption DEF Events
  <2>3. \A e \in Events : \A n \in 0..MaxAge + 1 : [e EXCEPT !.age = n] \in Events
    BY DEF Events
  <2>4. [history[i] EXCEPT !.age = older] \in Events
    <3> HIDE DEF older
    <3> QED BY <2>1, <2>2, <2>3
  <2> QED BY <2>4
<1>2. Len(history) \in Nat /\ DOMAIN history = 1..Len(history)  OBVIOUS
<1>3. history' \in [1..Len(history) -> Events]
  BY <1>1, <1>2 DEF Ages
<1> QED BY <1>2, <1>3

\* The counter is a number, the recorded events are of the kinds the code records,
\* and the eligible list of the last call repeats no provider.
THEOREM RankingTypes == RankingSpec => []RankingTypeInv
<1> USE RankingAssumption
<1>1. RankingInit => RankingTypeInv
  <2> SUFFICES ASSUME RankingInit PROVE RankingTypeInv
    OBVIOUS
  <2>1. NoCall.eligible = <<>> /\ NoCall.leads = <<>>  BY DEF NoCall
  <2>2. <<>> \in Seq(ToSet(Configured)) /\ IsInjective(<<>>)  BY DEF IsInjective
  <2>3. policy \in Policies /\ policy \in RankingPolicies
    BY DEF RankingInit, Policies
  <2> QED BY <2>1, <2>2, <2>3 DEF RankingInit, RankingTypeInv
<1>2. RankingTypeInv /\ [RankingNext]_rankingVars => RankingTypeInv'
  <2> SUFFICES ASSUME RankingTypeInv, [RankingNext]_rankingVars PROVE RankingTypeInv'
    OBVIOUS
  <2>0. NoCall.eligible \in Seq(ToSet(Configured)) /\ IsInjective(NoCall.eligible)
        /\ NoCall.leads \in Seq(ToSet(Configured))
    BY DEF NoCall, IsInjective
  <2>1. ASSUME NEW chosen \in SUBSET ToSet(Configured), NEW answered,
               Orders(Kept(Configured, chosen), answered)
        PROVE  RankingTypeInv'
    BY <2>1, OrdersType
  <2>2. ASSUME NEW p \in Recorded, NEW h \in Happenings, Records(NewEvent(p, h))
        PROVE  RankingTypeInv'
    <3>1. NewEvent(p, h) \in Events  BY DEF NewEvent, Events
    <3>2. history' \in Seq(Events)  BY <2>2, <3>1 DEF Records, RankingTypeInv
    <3> QED BY <2>0, <2>2, <3>2 DEF Records, RankingTypeInv
  <2>3. CASE Ages
    <3>1. history' \in Seq(Events)
      BY <2>3, AgesType DEF RankingTypeInv
    <3> QED BY <2>0, <2>3, <3>1 DEF Ages, RankingTypeInv
  <2>4. CASE Restarts
    BY <2>0, <2>4 DEF Restarts, RankingTypeInv
  <2>5. CASE UNCHANGED rankingVars
    BY <2>5 DEF RankingTypeInv, rankingVars
  <2> QED BY <2>1, <2>2, <2>3, <2>4, <2>5 DEF RankingNext
<1> QED BY <1>1, <1>2, PTL DEF RankingSpec

----------------------------------------------------------------------------
(* The rotation is fair.                                                    *)

\* The leaders since the eligible providers last changed are consecutive
\* elements of the remainder, and the counter points behind the latest of them.
RotationInv ==
    LET leads == last.leads
        remainder == Remainder(last.eligible)
    IN  /\ Len(leads) <= index
        /\ leads # <<>> => remainder # <<>>
        /\ \A i \in DOMAIN leads :
              leads[i] = remainder[((index - Len(leads) + i - 1) % Len(remainder)) + 1]

\* Forgetting the last call, as an event or a restart does, leaves no leaders.
LEMMA NoCallRotation ==
  ASSUME last' = NoCall, index' \in Nat
  PROVE  RotationInv'
<1>1. last'.leads = <<>> /\ DOMAIN last'.leads = {} /\ Len(last'.leads) = 0
  BY DEF NoCall
<1> QED BY <1>1 DEF RotationInv

\* A call that is ordered adds the element the counter pointed to, or starts anew.
LEMMA OrdersRotation ==
  ASSUME RankingTypeInv, RotationInv, NEW chosen, NEW answered,
         Orders(Kept(Configured, chosen), answered)
  PROVE  RotationInv'
<1> DEFINE eligible == Kept(Configured, chosen)
           remainder == Remainder(eligible)
           same == eligible = last.eligible
           leads == IF same THEN last.leads ELSE <<>>
           k == Len(leads)
           n == Len(remainder)
           head == remainder[(index % n) + 1]
<1>1. /\ last'.eligible = eligible /\ index' = NextIndex(remainder)
      /\ last'.leads = IF remainder = <<>> THEN <<>>
                        ELSE Append(leads, Rotated(remainder)[1])
      /\ UNCHANGED policy
  BY DEF Orders
<1>2. Remainder(last.eligible)' = remainder
  BY <1>1 DEF Remainder, IsSticky
<1>3. remainder \in Seq(ToSet(Configured))
  BY KeptConfigured, RemainderType
<1>4. index \in Nat /\ leads \in Seq(ToSet(Configured))
  BY DEF RankingTypeInv
<1>5. /\ k <= index
      /\ \A i \in DOMAIN leads : leads[i] = remainder[((index - k + i - 1) % n) + 1]
  <2>1. CASE same
    <3>1. leads = last.leads /\ remainder = Remainder(last.eligible)  BY <2>1
    <3> HIDE DEF leads, remainder
    <3> QED BY <3>1 DEF RotationInv
  <2>2. CASE ~same
    <3>1. leads = <<>> /\ k = 0  BY <2>2
    <3> HIDE DEF leads, remainder
    <3> QED BY <1>4, <3>1
  <2> QED BY <2>1, <2>2
<1> HIDE DEF eligible, remainder, same, leads
<1>6. CASE remainder = <<>>
  <2>1. last'.leads = <<>> /\ Len(last'.leads) = 0 /\ DOMAIN last'.leads = {}
    BY <1>1, <1>6
  <2>2. index' \in Nat  BY <1>1, <1>4 DEF NextIndex
  <2> QED BY <2>1, <2>2 DEF RotationInv
<1>7. CASE remainder # <<>>
  <2>1. Rotated(remainder)[1] = head /\ head \in ToSet(Configured)
    BY <1>3, <1>4, <1>7, RotatedHead
  <2>2. index' = index + 1  BY <1>1, <1>7 DEF NextIndex
  <2> DEFINE longer == Append(leads, head)
  <2>3. last'.leads = longer  BY <1>1, <1>7, <2>1
  <2> HIDE DEF head
  <2>4. /\ Len(longer) = k + 1 /\ k \in Nat
        /\ \A i \in DOMAIN longer : (i \in DOMAIN leads /\ longer[i] = leads[i])
                                    \/ (i = k + 1 /\ longer[i] = head)
        /\ DOMAIN longer \subseteq Int
    BY <1>4, <2>1
  <2> HIDE DEF longer, k, n
  <2>5. Len(longer) <= index'  BY <1>4, <1>5, <2>2, <2>4
  <2>6. ASSUME NEW i \in DOMAIN longer
        PROVE  longer[i] = remainder[((index' - Len(longer) + i - 1) % n) + 1]
    <3>1. i \in Int /\ index' - Len(longer) + i - 1 = index - k + i - 1
      BY <1>4, <2>2, <2>4
    <3>2. CASE i \in DOMAIN leads /\ longer[i] = leads[i]
      BY <1>5, <3>1, <3>2
    <3>3. CASE i = k + 1 /\ longer[i] = head
      <4>1. index - k + i - 1 = index  BY <1>4, <2>4, <3>3
      <4> QED BY <3>1, <3>3, <4>1 DEF head
    <3> QED BY <2>4, <3>2, <3>3
  <2> QED BY <1>2, <1>7, <2>3, <2>5, <2>6 DEF RotationInv, n
<1> QED BY <1>6, <1>7

\* Every step keeps the rotation's invariant.
LEMMA RotationStep ==
  ASSUME RankingTypeInv, RotationInv, [RankingNext]_rankingVars
  PROVE  RotationInv'
<1>1. ASSUME NEW chosen \in SUBSET ToSet(Configured), NEW answered \in BOOLEAN,
             Orders(Kept(Configured, chosen), answered)
      PROVE  RotationInv'
  BY <1>1, OrdersRotation
<1>2. ASSUME NEW p \in Recorded, NEW h \in Happenings, Records(NewEvent(p, h))
      PROVE  RotationInv'
  BY <1>2, NoCallRotation DEF Records, RankingTypeInv
<1>3. CASE Ages
  BY <1>3, NoCallRotation DEF Ages, RankingTypeInv
<1>4. CASE Restarts
  BY <1>4, NoCallRotation DEF Restarts
<1>5. CASE UNCHANGED rankingVars
  BY <1>5 DEF rankingVars, RotationInv, Remainder, IsSticky
<1> QED BY <1>1, <1>2, <1>3, <1>4, <1>5 DEF RankingNext, RankingTypeInv, Policies

\* Consecutive elements less than a round apart are different ones.
LEMMA RotationIsFair ==
  ASSUME RankingTypeInv, RotationInv
  PROVE  RotationFair
<1> DEFINE leads == last.leads
           remainder == Remainder(last.eligible)
           n == Len(remainder)
           a == index - Len(leads) - 1
<1>1. remainder \in Seq(ToSet(Configured)) /\ IsInjective(remainder)
  BY RemainderType DEF RankingTypeInv
<1>2. leads \in Seq(ToSet(Configured)) /\ index \in Nat  BY DEF RankingTypeInv
<1>3. Len(leads) <= index /\ (leads # <<>> => remainder # <<>>)
      /\ \A i \in DOMAIN leads :
            leads[i] = remainder[((index - Len(leads) + i - 1) % n) + 1]
  BY DEF RotationInv
<1> HIDE DEF leads, remainder
<1> SUFFICES ASSUME NEW i \in DOMAIN leads, NEW j \in DOMAIN leads, i < j, j - i < n
             PROVE  leads[i] # leads[j]
  BY DEF RotationFair, leads, remainder
<1>4. leads # <<>> /\ n \in Nat \ {0} /\ DOMAIN remainder = 1..n
  BY <1>1, <1>2, <1>3
<1>5. a + i \in Nat /\ a + j \in Nat /\ a + i < a + j /\ (a + j) - (a + i) < n
  <2>1. i \in Nat \ {0} /\ j \in Nat \ {0} /\ Len(leads) \in Nat  BY <1>2
  <2>2. a + i = index - Len(leads) + (i - 1) /\ a + j = index - Len(leads) + (j - 1)
    BY <1>2, <2>1
  <2>3. a \in Int  BY <1>2, <2>1
  <2>4. a + i \in Nat /\ a + j \in Nat
    <3>1. index \in Nat /\ Len(leads) <= index  BY <1>2, <1>3
    <3> DEFINE k == Len(leads)
    <3>2. k \in Nat /\ index - k \in Nat /\ i - 1 \in Nat /\ j - 1 \in Nat  BY <2>1, <3>1
    <3> DEFINE x == index - k
               y == i - 1
               z == j - 1
    <3>3. a + i = x + y /\ a + j = x + z  BY <2>2
    <3> HIDE DEF x, y, z, a, k
    <3>4. x \in Nat /\ y \in Nat /\ z \in Nat  BY <3>2 DEF x, y, z
    <3> QED BY <3>3, <3>4
  <2>5. i \in Int /\ j \in Int /\ n \in Int /\ i < j /\ j - i < n  BY <1>4, <2>1
  <2> HIDE DEF a, n, leads, remainder
  <2>6. a + i < a + j /\ (a + j) - (a + i) < n  BY <2>3, <2>5
  <2> QED BY <2>4, <2>6
<1>6. leads[i] = remainder[((a + i) % n) + 1] /\ leads[j] = remainder[((a + j) % n) + 1]
  <2>1. i \in Int /\ j \in Int /\ Len(leads) \in Int  BY <1>2
  <2>2. index - Len(leads) + i - 1 = a + i /\ index - Len(leads) + j - 1 = a + j
    BY <1>2, <2>1
  <2> QED BY <1>3, <2>2
<1> HIDE DEF a, n
<1>7. (a + i) % n # (a + j) % n  BY <1>4, <1>5, RemaindersDiffer
<1>8. ((a + i) % n) + 1 \in 1..n /\ ((a + j) % n) + 1 \in 1..n
  BY <1>4, <1>5, RotationIndex
<1>9. ((a + i) % n) + 1 # ((a + j) % n) + 1
  <2>1. (a + i) % n \in Int /\ (a + j) % n \in Int  BY <1>4, <1>5
  <2> QED BY <1>7, <2>1
<1> QED BY <1>1, <1>4, <1>6, <1>8, <1>9 DEF IsInjective

\* While the same providers stay eligible, RoundRobinPolicy lets each of those that
\* are not sticky lead once before any of them leads again.
THEOREM RotationIsAlwaysFair == RankingSpec => []RotationFair
<1>1. RankingInit => RotationInv
  <2> SUFFICES ASSUME RankingInit PROVE RotationInv
    OBVIOUS
  <2>1. last.leads = <<>> /\ DOMAIN last.leads = {} /\ Len(last.leads) = 0 /\ index = 0
    BY DEF RankingInit, NoCall
  <2> QED BY <2>1 DEF RotationInv
<1>2. RankingTypeInv /\ RotationInv /\ [RankingNext]_rankingVars => RotationInv'
  BY RotationStep
<1>3. RankingTypeInv /\ RotationInv => RotationFair
  BY RotationIsFair
<1> QED BY <1>1, <1>2, <1>3, RankingTypes, PTL DEF RankingSpec

----------------------------------------------------------------------------
(* The figures.                                                             *)

\* The powers of two are what their recursion says.
LEMMA TwoToStep ==
  /\ TwoTo[0] = 1
  /\ \A n \in 1..(MaxAge + 1) : TwoTo[n] = 2 * TwoTo[n - 1]
<1> DEFINE N == MaxAge + 1
           step == [n \in 1..N |-> [v \in Nat |-> 2 * v]]
           Eq(f) == f = [n \in 0..N |-> IF n = 0 THEN 1 ELSE 2 * f[n - 1]]
<1>1. N \in Nat /\ 1 \in Nat  BY RankingAssumption
<1>2. IsStep(step, N, Nat)  BY DEF IsStep
<1>3. PICK f \in [0..N -> Nat] : Unfolds(f, N, 1, step)
  <2> HIDE DEF step, N
  <2> QED BY <1>1, <1>2, RecursionExists
<1>4. Eq(f)
  <2>1. f[0] = 1 /\ \A n \in 1..N : f[n] = 2 * f[n - 1]
    <3>1. ASSUME NEW n \in 1..N PROVE f[n] = 2 * f[n - 1]
      <4>1. n - 1 \in 0..N  BY <1>1
      <4>2. f[n - 1] \in Nat  BY <1>3, <4>1
      <4> QED BY <1>3, <4>2 DEF Unfolds
    <3> QED BY <1>3, <3>1 DEF Unfolds
  <2>2. \A n \in 0..N : n # 0 => n \in 1..N  BY <1>1
  <2> HIDE DEF N
  <2> QED BY <1>3, <2>1, <2>2
<1>5. TwoTo = CHOOSE h : Eq(h)  BY DEF TwoTo
<1>6. Eq(TwoTo)
  <2> HIDE DEF Eq
  <2> QED BY <1>4, <1>5
<1>7. 0 \in 0..N /\ \A n \in 1..N : n \in 0..N /\ n # 0  BY <1>1
<1>8. TwoTo[0] = 1 /\ \A n \in 1..N : TwoTo[n] = 2 * TwoTo[n - 1]
  <2> HIDE DEF N
  <2> QED BY <1>6, <1>7
<1> QED BY <1>8

\* They are positive.
LEMMA TwoToPositive == \A n \in 0..(MaxAge + 1) : TwoTo[n] \in Nat \ {0}
<1> DEFINE N == MaxAge + 1
           T == {n \in 0..N : TwoTo[n] \in Nat \ {0}}
<1>1. N \in Nat  BY RankingAssumption
<1>2. TwoTo[0] = 1 /\ \A n \in 1..N : TwoTo[n] = 2 * TwoTo[n - 1]  BY TwoToStep
<1> HIDE DEF N
<1>3. 0 \in T  BY <1>1, <1>2
<1>4. ASSUME NEW n \in 1..N, n - 1 \in T  PROVE n \in T
  <2>1. n \in 0..N  BY <1>1
  <2>2. TwoTo[n - 1] \in Nat \ {0}  BY <1>4
  <2>3. TwoTo[n] \in Nat \ {0}  BY <1>2, <2>2
  <2> QED BY <2>1, <2>3
<1>5. 0..N \subseteq T
  <2> HIDE DEF T
  <2> QED BY <1>1, <1>3, <1>4, Induction
<1>6. \A n \in 0..N : TwoTo[n] \in Nat \ {0}  BY <1>5
<1> QED BY <1>6 DEF N

\* So every event weighs something.
LEMMA WeightType ==
  ASSUME NEW e \in Events
  PROVE  Weight(e) \in Nat \ {0}
<1>1. MaxAge \in Nat /\ e.age \in 0..(MaxAge + 1)  BY RankingAssumption DEF Events
<1>2. MaxAge + 1 - e.age \in 0..(MaxAge + 1)  BY <1>1
<1> QED BY <1>2, TwoToPositive DEF Weight

\* So does the unit.
LEMMA UnitType == Unit \in Nat \ {0}
<1>1. MaxAge + 1 \in 0..(MaxAge + 1)  BY RankingAssumption
<1> QED BY <1>1, TwoToPositive DEF Unit

\* A latency is a natural number unless there is none.
LEMMA LatencyType ==
  ASSUME NEW o \in Successes \cup Failures
  PROVE  Latency(o) \in Int /\ (Latency(o) # NoLatency => Latency(o) \in Nat)
  BY DEF Latency, NoLatency

\* The rows that the sums of a provider range over, and what they add up.
Matched(p) == {i \in DOMAIN history : Joined(history[i], p)}
Successful(p) == {i \in Matched(p) : history[i].outcome \in Successes}
Timed(p) == {i \in Successful(p) : Latency(history[i].outcome) # NoLatency}
Failed(p) == Matched(p) \ Successful(p)
FailedAs(p, o) == {i \in Failed(p) : history[i].outcome = o}

\* What they add up: the weight of an event, and its weighted latency.
Weights == [i \in DOMAIN history |-> Weight(history[i])]
Delays == [i \in DOMAIN history |-> Weight(history[i]) * Latency(history[i].outcome)]

\* Weights are positive and weighted latencies natural, where there is a latency.
LEMMA FiguresType ==
  ASSUME history \in Seq(Events)
  PROVE  /\ Weights \in Seq(Int) /\ Len(Weights) = Len(history)
         /\ Delays \in Seq(Int) /\ Len(Delays) = Len(history)
         /\ \A i \in 1..Len(history) :
               /\ history[i] \in Events
               /\ Weights[i] = Weight(history[i]) /\ Weights[i] \in Nat \ {0}
               /\ Delays[i] = Weight(history[i]) * Latency(history[i].outcome)
               /\ Latency(history[i].outcome) # NoLatency => Delays[i] \in Nat
<1> DEFINE n == Len(history)
<1>1. n \in Nat /\ DOMAIN history = 1..n /\ \A i \in 1..n : history[i] \in Events
  OBVIOUS
<1> HIDE DEF n
<1>2. ASSUME NEW i \in 1..n
      PROVE  /\ Weights[i] = Weight(history[i]) /\ Weights[i] \in Nat \ {0}
             /\ Delays[i] = Weight(history[i]) * Latency(history[i].outcome)
             /\ Delays[i] \in Int
             /\ Latency(history[i].outcome) # NoLatency => Delays[i] \in Nat
  <2>1. history[i] \in Events  BY <1>1
  <2>2. history[i].outcome \in Successes \cup Failures  BY <2>1 DEF Events
  <2> DEFINE w == Weight(history[i])
             d == Latency(history[i].outcome)
  <2>3. w \in Nat \ {0} /\ d \in Int /\ (d # NoLatency => d \in Nat)
    BY <2>1, <2>2, WeightType, LatencyType
  <2>4. Weights[i] = w /\ Delays[i] = w * d  BY <1>1 DEF Weights, Delays
  <2> HIDE DEF w, d
  <2>5. w * d \in Int /\ (d \in Nat => w * d \in Nat)  BY <2>3
  <2> QED BY <2>3, <2>4, <2>5 DEF w, d
<1>3. Weights \in [1..n -> Int] /\ Delays \in [1..n -> Int]
  <2>1. DOMAIN Weights = 1..n /\ DOMAIN Delays = 1..n  BY <1>1 DEF Weights, Delays
  <2>2. Weights = [i \in 1..n |-> Weights[i]] /\ Delays = [i \in 1..n |-> Delays[i]]
    BY <1>1 DEF Weights, Delays
  <2> QED BY <1>2, <2>2
<1>4. /\ Weights \in Seq(Int) /\ Len(Weights) = n
      /\ Delays \in Seq(Int) /\ Len(Delays) = n
  BY <1>1, <1>3, FunctionIsList
<1> QED BY <1>1, <1>2, <1>4 DEF n

\* The row of the query, in the terms of the sums.
LEMMA AggregateFigures ==
  ASSUME NEW p
  PROVE  ScoreAggregate(p) =
           [attempts |-> Summed(Weights, Matched(p)),
            successes |-> Summed(Weights, Successful(p)),
            latencyWeight |-> Summed(Weights, Timed(p)),
            latencyTotal |-> Summed(Delays, Timed(p)),
            errors |-> Cardinality(Failed(p)),
            rateLimits |-> Cardinality(FailedAs(p, "rate_limit")),
            timeouts |-> Cardinality(FailedAs(p, "timeout"))]
  BY Zenon DEF ScoreAggregate, TotalWeight, TotalLatency, Weights, Delays, Matched, Successful,
         Timed, Failed, FailedAs

\* The rows that the query may answer.
Rows == [attempts : Nat, successes : Nat, latencyWeight : Nat, latencyTotal : Nat,
         errors : Nat, rateLimits : Nat, timeouts : Nat]

\* No history makes the query answer a row that validate_score_aggregates refuses.
LEMMA AggregateValid ==
  ASSUME history \in Seq(Events), NEW p
  PROVE  ScoreAggregate(p) \in Rows /\ ValidAggregate(ScoreAggregate(p))
<1> DEFINE n == Len(history)
<1>1. /\ Weights \in Seq(Int) /\ Len(Weights) = n
      /\ Delays \in Seq(Int) /\ Len(Delays) = n /\ n \in Nat /\ DOMAIN history = 1..n
      /\ \A i \in 1..n : Weights[i] \in Nat
      /\ \A i \in 1..n : Latency(history[i].outcome) # NoLatency => Delays[i] \in Nat
  BY FiguresType
<1> HIDE DEF n
<1>2. /\ DOMAIN Weights = 1..n /\ DOMAIN Delays = 1..n /\ n \in 0..Len(Weights)
      /\ n \in 0..Len(Delays)
  BY <1>1
<1>3. Successful(p) \subseteq Matched(p) /\ Timed(p) \subseteq Successful(p)
  BY DEF Successful, Timed
<1>4. /\ Summed(Weights, Successful(p)) \in Nat
      /\ Summed(Weights, Successful(p)) <= Summed(Weights, Matched(p))
  <2>1. \A i \in DOMAIN Weights : i \in Matched(p) => Weights[i] >= 0  BY <1>1, <1>2
  <2> QED BY <1>1, <1>2, <1>3, <2>1, SummedUpToBounds DEF Summed
<1>5. /\ Summed(Weights, Timed(p)) \in Nat
      /\ Summed(Weights, Timed(p)) <= Summed(Weights, Successful(p))
  <2>1. \A i \in DOMAIN Weights : i \in Successful(p) => Weights[i] >= 0  BY <1>1, <1>2
  <2> QED BY <1>1, <1>2, <1>3, <2>1, SummedUpToBounds DEF Summed
<1>6. Summed(Weights, Matched(p)) \in Nat
  BY <1>1, <1>2, SummedUpToBounds DEF Summed
<1>7. Summed(Delays, Timed(p)) \in Nat
  <2>1. \A i \in DOMAIN Delays : i \in Timed(p) => Delays[i] >= 0
    BY <1>1, <1>2 DEF Timed
  <2> QED BY <1>1, <1>2, <2>1, SummedUpToBounds DEF Summed
<1>8. ASSUME NEW R \in SUBSET Matched(p)  PROVE Cardinality(R) \in Nat
  <2>1. R \in SUBSET (1..n)  BY <1>1 DEF Matched
  <2>2. IsFiniteSet(1..n)  BY <1>1, FS_Interval
  <2> QED BY <2>1, <2>2, FS_Subset, FS_CardinalityType
<1>9. /\ Failed(p) \in SUBSET Matched(p) /\ FailedAs(p, "rate_limit") \in SUBSET Matched(p)
      /\ FailedAs(p, "timeout") \in SUBSET Matched(p)
  BY DEF Failed, FailedAs
<1>10. /\ Cardinality(Failed(p)) \in Nat
       /\ Cardinality(FailedAs(p, "rate_limit")) \in Nat
       /\ Cardinality(FailedAs(p, "timeout")) \in Nat
  BY <1>8, <1>9
<1> DEFINE row == ScoreAggregate(p)
<1>11. /\ row.attempts = Summed(Weights, Matched(p))
       /\ row.successes = Summed(Weights, Successful(p))
       /\ row.latencyWeight = Summed(Weights, Timed(p))
       /\ row.latencyTotal = Summed(Delays, Timed(p))
       /\ row.errors = Cardinality(Failed(p))
       /\ row.rateLimits = Cardinality(FailedAs(p, "rate_limit"))
       /\ row.timeouts = Cardinality(FailedAs(p, "timeout"))
  BY AggregateFigures
<1>12. row \in Rows
  BY <1>4, <1>5, <1>6, <1>7, <1>10, AggregateFigures DEF Rows
<1> HIDE DEF row
<1>13. ValidAggregate(row)
  BY <1>4, <1>5, <1>6, <1>7, <1>10, <1>11 DEF ValidAggregate
<1> QED BY <1>12, <1>13 DEF row

\* What the sums add for one more row, when they match it.
Added(stats, e) ==
    LET won == e.outcome \in Successes
        timed == won /\ Latency(e.outcome) # NoLatency
    IN  [attempts |-> stats.attempts + Weight(e),
         successes |-> stats.successes + (IF won THEN Weight(e) ELSE 0),
         latencyWeight |-> stats.latencyWeight + (IF timed THEN Weight(e) ELSE 0),
         latencyTotal |-> stats.latencyTotal
                            + (IF timed THEN Weight(e) * Latency(e.outcome) ELSE 0),
         errors |-> stats.errors + (IF won THEN 0 ELSE 1),
         rateLimits |-> stats.rateLimits + (IF e.outcome = "rate_limit" THEN 1 ELSE 0),
         timeouts |-> stats.timeouts + (IF e.outcome = "timeout" THEN 1 ELSE 0)]

\* A row of these seven figures.
RowOf(a, b, c, d, x, y, z) ==
    [attempts |-> a, successes |-> b, latencyWeight |-> c, latencyTotal |-> d,
     errors |-> x, rateLimits |-> y, timeouts |-> z]

\* stats.py adds to each figure what the sums add for the same row.
LEMMA AccumulateAdds ==
  ASSUME NEW stats \in Rows, NEW e \in Events
  PROVE  Accumulate(stats, e) = Added(stats, e) /\ Accumulate(stats, e) \in Rows
<1> DEFINE w == Weight(e)
           d == Latency(e.outcome)
           o == e.outcome
           won == o \in Successes
           timed == won /\ d # NoLatency
           a1 == stats.attempts + w
           b1 == stats.successes + w
           c1 == stats.latencyWeight + w
           d1 == stats.latencyTotal + w * d
           x1 == stats.errors + 1
           y1 == stats.rateLimits + (IF o = "rate_limit" THEN 1 ELSE 0)
           z1 == stats.timeouts + (IF o = "timeout" THEN 1 ELSE 0)
<1>1. o \in Successes \cup Failures  BY DEF Events
<1>2. w \in Nat /\ d \in Int /\ (d # NoLatency => d \in Nat)
  BY <1>1, WeightType, LatencyType
<1>3. d # NoLatency => w * d \in Nat
  <2> HIDE DEF w, d
  <2> QED BY <1>2
<1>4. /\ o \in Successes => o \notin Failures /\ o # "rate_limit" /\ o # "timeout"
      /\ o \in Failures => o \notin Successes
  BY DEF Successes, Failures
<1>5. /\ stats.attempts \in Nat /\ stats.successes \in Nat /\ stats.latencyWeight \in Nat
      /\ stats.latencyTotal \in Nat /\ stats.errors \in Nat /\ stats.rateLimits \in Nat
      /\ stats.timeouts \in Nat
  BY DEF Rows
<1>6. /\ a1 \in Nat /\ b1 \in Nat /\ c1 \in Nat /\ (d # NoLatency => d1 \in Nat)
      /\ x1 \in Nat /\ y1 \in Nat /\ z1 \in Nat
  <2> HIDE DEF w, d, o
  <2> QED BY <1>2, <1>3, <1>5
<1>7. Added(stats, e) = RowOf(a1,
                         IF won THEN b1 ELSE stats.successes + 0,
                         IF timed THEN c1 ELSE stats.latencyWeight + 0,
                         IF timed THEN d1 ELSE stats.latencyTotal + 0,
                         IF won THEN stats.errors + 0 ELSE x1, y1, z1)
  BY DEF Added, RowOf
<1>8. CASE won /\ d = NoLatency
  <2>1. Accumulate(stats, e) = [[stats EXCEPT !.attempts = a1] EXCEPT !.successes = b1]
    BY <1>4, <1>8 DEF Accumulate, Rows
  <2>2. y1 = stats.rateLimits /\ z1 = stats.timeouts  BY <1>4, <1>5, <1>8
  <2> HIDE DEF a1, b1, c1, d1, x1, y1, z1, won, d
  <2>3. Accumulate(stats, e) = RowOf(a1, b1, stats.latencyWeight, stats.latencyTotal,
                                     stats.errors, stats.rateLimits, stats.timeouts)
    BY <2>1 DEF RowOf, Rows
  <2> HIDE DEF timed
  <2>4. ~timed  BY <1>8 DEF timed
  <2>5. Added(stats, e) = RowOf(a1, b1, stats.latencyWeight, stats.latencyTotal,
                                stats.errors, stats.rateLimits, stats.timeouts)
    BY <1>5, <1>7, <1>8, <2>2, <2>4
  <2>6. RowOf(a1, b1, stats.latencyWeight, stats.latencyTotal,
              stats.errors, stats.rateLimits, stats.timeouts) \in Rows
    BY <1>5, <1>6 DEF RowOf, Rows
  <2> QED BY <2>3, <2>5, <2>6
<1>9. CASE won /\ d # NoLatency
  <2>1. Accumulate(stats, e)
          = [[[stats EXCEPT !.attempts = a1] EXCEPT !.successes = b1]
               EXCEPT !.latencyWeight = c1, !.latencyTotal = d1]
    BY <1>4, <1>9 DEF Accumulate, Rows
  <2>2. y1 = stats.rateLimits /\ z1 = stats.timeouts  BY <1>4, <1>5, <1>9
  <2> HIDE DEF a1, b1, c1, d1, x1, y1, z1, won, d
  <2>3. Accumulate(stats, e) = RowOf(a1, b1, c1, d1,
                                     stats.errors, stats.rateLimits, stats.timeouts)
    BY <2>1 DEF RowOf, Rows
  <2> HIDE DEF timed
  <2>4. timed  BY <1>9 DEF timed
  <2>5. Added(stats, e) = RowOf(a1, b1, c1, d1,
                                stats.errors, stats.rateLimits, stats.timeouts)
    BY <1>5, <1>7, <1>9, <2>2, <2>4
  <2>6. RowOf(a1, b1, c1, d1, stats.errors, stats.rateLimits, stats.timeouts) \in Rows
    BY <1>5, <1>6, <1>9 DEF RowOf, Rows
  <2> QED BY <2>3, <2>5, <2>6
<1>10. CASE o \in Failures
  <2>1. Accumulate(stats, e)
          = [[stats EXCEPT !.attempts = a1] EXCEPT
               !.errors = x1, !.rateLimits = y1, !.timeouts = z1]
    BY <1>4, <1>10 DEF Accumulate, Rows
  <2>2. ~won  BY <1>4, <1>10
  <2>3. ~timed  BY <2>2
  <2> HIDE DEF a1, b1, c1, d1, x1, y1, z1, won, d, timed
  <2>4. Accumulate(stats, e) = RowOf(a1, stats.successes, stats.latencyWeight,
                                     stats.latencyTotal, x1, y1, z1)
    BY <2>1 DEF RowOf, Rows
  <2>5. Added(stats, e) = RowOf(a1, stats.successes, stats.latencyWeight,
                                stats.latencyTotal, x1, y1, z1)
    BY <1>5, <1>7, <2>2, <2>3
  <2>6. RowOf(a1, stats.successes, stats.latencyWeight, stats.latencyTotal, x1, y1, z1)
          \in Rows
    BY <1>5, <1>6 DEF RowOf, Rows
  <2> QED BY <2>4, <2>5, <2>6
<1> QED BY <1>1, <1>8, <1>9, <1>10

\* The loop of stats.py starts empty and accumulates the events it joins.
LEMMA StatsUpToStep ==
  ASSUME history \in Seq(Events), NEW p
  PROVE  /\ StatsUpTo(p)[0] = EmptyStats
         /\ \A n \in 1..Len(history) :
               StatsUpTo(p)[n] = IF Joined(history[n], p)
                                 THEN Accumulate(StatsUpTo(p)[n - 1], history[n])
                                 ELSE StatsUpTo(p)[n - 1]
<1> DEFINE N == Len(history)
           Next(row, n) == IF Joined(history[n], p) THEN Accumulate(row, history[n]) ELSE row
           step == [n \in 1..N |-> [row \in Rows |-> Next(row, n)]]
           Eq(f) == f = [n \in 0..N |->
                            IF n = 0 THEN EmptyStats
                            ELSE IF Joined(history[n], p)
                                 THEN Accumulate(f[n - 1], history[n])
                            ELSE f[n - 1]]
           g == StatsUpTo(p)
<1>1. N \in Nat /\ \A n \in 1..N : history[n] \in Events  OBVIOUS
<1>2. IsStep(step, N, Rows)
  <2>1. ASSUME NEW n \in 1..N, NEW row \in Rows  PROVE Next(row, n) \in Rows
    BY <1>1, AccumulateAdds
  <2> HIDE DEF N, Next
  <2> QED BY <2>1 DEF IsStep
<1>3. EmptyStats \in Rows  BY DEF EmptyStats, Rows
<1>4. PICK f \in [0..N -> Rows] : Unfolds(f, N, EmptyStats, step)
  <2> HIDE DEF step, N
  <2> QED BY <1>1, <1>2, <1>3, RecursionExists
<1>5. f[0] = EmptyStats  BY <1>4 DEF Unfolds
<1>6. ASSUME NEW n \in 1..N  PROVE f[n] = Next(f[n - 1], n)
  <2>1. n - 1 \in 0..N  BY <1>1
  <2>2. f[n - 1] \in Rows  BY <1>4, <2>1
  <2> HIDE DEF Next, N
  <2>3. step[n][f[n - 1]] = Next(f[n - 1], n)  BY <2>2
  <2> HIDE DEF step
  <2> QED BY <1>4, <2>3 DEF Unfolds
<1>7. Eq(f)
  <2> HIDE DEF N
  <2>1. \A n \in 0..N : n # 0 => n \in 1..N  BY <1>1
  <2> QED BY <1>4, <1>5, <1>6, <2>1
<1>8. g = CHOOSE h : Eq(h)  BY DEF StatsUpTo
<1>9. Eq(g)
  <2> HIDE DEF Eq, g
  <2> QED BY <1>7, <1>8
<1>10. 0 \in 0..N /\ \A n \in 1..N : n \in 0..N /\ n # 0  BY <1>1
<1> HIDE DEF N, g
<1>11. g[0] = EmptyStats /\ \A n \in 1..N : g[n] = Next(g[n - 1], n)
  BY <1>9, <1>10
<1> QED BY <1>11 DEF g, N

\* Counting one more row.
LEMMA CountStep ==
  ASSUME NEW R, NEW n \in Nat \ {0}
  PROVE  Cardinality(R \cap (1..n))
           = Cardinality(R \cap (1..(n - 1))) + (IF n \in R THEN 1 ELSE 0)
<1> DEFINE S == R \cap (1..(n - 1))
<1>1. IsFiniteSet(1..(n - 1))  BY FS_Interval
<1>2. IsFiniteSet(S)  BY <1>1, FS_Subset
<1>3. n \notin S  OBVIOUS
<1>4. CASE n \in R
  <2>1. R \cap (1..n) = S \cup {n}  BY <1>4
  <2> HIDE DEF S
  <2>2. Cardinality(S \cup {n}) = Cardinality(S) + 1  BY <1>2, <1>3, FS_AddElement
  <2> QED BY <1>4, <2>1, <2>2 DEF S
<1>5. CASE n \notin R
  <2>1. R \cap (1..n) = S  BY <1>5
  <2>2. Cardinality(S) \in Nat  BY <1>2, FS_CardinalityType
  <2> HIDE DEF S
  <2> QED BY <1>5, <2>1, <2>2 DEF S
<1> QED BY <1>4, <1>5

\* The figures of the query over the first n events.
SumsUpTo(p, n) ==
    RowOf(SummedUpTo(Weights, Matched(p))[n], SummedUpTo(Weights, Successful(p))[n],
          SummedUpTo(Weights, Timed(p))[n], SummedUpTo(Delays, Timed(p))[n],
          Cardinality(Failed(p) \cap (1..n)),
          Cardinality(FailedAs(p, "rate_limit") \cap (1..n)),
          Cardinality(FailedAs(p, "timeout") \cap (1..n)))

\* Over no events, the query's figures are stats.py's initial ones.
LEMMA SumsUpToStart ==
  ASSUME history \in Seq(Events), NEW p
  PROVE  SumsUpTo(p, 0) = EmptyStats
<1>1. Weights \in Seq(Int) /\ Delays \in Seq(Int)  BY FiguresType
<1>2. /\ SummedUpTo(Weights, Matched(p))[0] = 0
      /\ SummedUpTo(Weights, Successful(p))[0] = 0
      /\ SummedUpTo(Weights, Timed(p))[0] = 0
      /\ SummedUpTo(Delays, Timed(p))[0] = 0
  BY <1>1, SummedUpToStep
<1>3. /\ Failed(p) \cap (1..0) = {} /\ FailedAs(p, "rate_limit") \cap (1..0) = {}
      /\ FailedAs(p, "timeout") \cap (1..0) = {}
  OBVIOUS
<1> QED BY <1>2, <1>3, FS_EmptySet DEF SumsUpTo, RowOf, EmptyStats

\* One more event adds to them what Added says.
LEMMA SumsUpToAdds ==
  ASSUME history \in Seq(Events), NEW p, NEW n \in 1..Len(history),
         SumsUpTo(p, n - 1) \in Rows
  PROVE  SumsUpTo(p, n) = IF Joined(history[n], p)
                          THEN Added(SumsUpTo(p, n - 1), history[n])
                          ELSE SumsUpTo(p, n - 1)
<1> DEFINE e == history[n]
           a == SummedUpTo(Weights, Matched(p))
           b == SummedUpTo(Weights, Successful(p))
           c == SummedUpTo(Weights, Timed(p))
           d == SummedUpTo(Delays, Timed(p))
           x(k) == Cardinality(Failed(p) \cap (1..k))
           y(k) == Cardinality(FailedAs(p, "rate_limit") \cap (1..k))
           z(k) == Cardinality(FailedAs(p, "timeout") \cap (1..k))
<1>1. /\ Weights \in Seq(Int) /\ Len(Weights) = Len(history)
      /\ Delays \in Seq(Int) /\ Len(Delays) = Len(history)
      /\ Weights[n] = Weight(e) /\ Delays[n] = Weight(e) * Latency(e.outcome)
      /\ e \in Events
  BY FiguresType
<1>2. /\ a[n] = a[n - 1] + (IF n \in Matched(p) THEN Weights[n] ELSE 0)
      /\ b[n] = b[n - 1] + (IF n \in Successful(p) THEN Weights[n] ELSE 0)
      /\ c[n] = c[n - 1] + (IF n \in Timed(p) THEN Weights[n] ELSE 0)
      /\ d[n] = d[n - 1] + (IF n \in Timed(p) THEN Delays[n] ELSE 0)
  BY <1>1, SummedUpToStep
<1>3. n \in Nat \ {0} /\ n \in DOMAIN history  OBVIOUS
<1>4. /\ x(n) = x(n - 1) + (IF n \in Failed(p) THEN 1 ELSE 0)
      /\ y(n) = y(n - 1) + (IF n \in FailedAs(p, "rate_limit") THEN 1 ELSE 0)
      /\ z(n) = z(n - 1) + (IF n \in FailedAs(p, "timeout") THEN 1 ELSE 0)
  BY <1>3, CountStep
<1>5. /\ n \in Matched(p) <=> Joined(e, p)
      /\ n \in Successful(p) <=> Joined(e, p) /\ e.outcome \in Successes
      /\ n \in Timed(p) <=> /\ Joined(e, p) /\ e.outcome \in Successes
                            /\ Latency(e.outcome) # NoLatency
      /\ n \in Failed(p) <=> Joined(e, p) /\ e.outcome \notin Successes
      /\ n \in FailedAs(p, "rate_limit") <=> Joined(e, p) /\ e.outcome = "rate_limit"
      /\ n \in FailedAs(p, "timeout") <=> Joined(e, p) /\ e.outcome = "timeout"
  <2>1. "rate_limit" \notin Successes /\ "timeout" \notin Successes  BY DEF Successes
  <2> HIDE DEF e
  <2> QED BY <1>3, <2>1 DEF Matched, Successful, Timed, Failed, FailedAs, e
<1> DEFINE m == n - 1
<1>6. SumsUpTo(p, m) = RowOf(a[m], b[m], c[m], d[m], x(m), y(m), z(m))
  BY Zenon DEF SumsUpTo
<1>7. SumsUpTo(p, n) = RowOf(a[n], b[n], c[n], d[n], x(n), y(n), z(n))
  BY Zenon DEF SumsUpTo
<1>8. /\ a[m] \in Nat /\ b[m] \in Nat /\ c[m] \in Nat /\ d[m] \in Nat
      /\ x(m) \in Nat /\ y(m) \in Nat /\ z(m) \in Nat
  <2> HIDE DEF a, b, c, d, x, y, z, m
  <2>1. RowOf(a[m], b[m], c[m], d[m], x(m), y(m), z(m)) \in Rows  BY <1>6 DEF m
  <2> QED BY <2>1 DEF RowOf, Rows
<1> HIDE DEF a, b, c, d, x, y, z, e
<1>9. CASE ~Joined(e, p)
  <2>1. /\ a[n] = a[m] /\ b[n] = b[m] /\ c[n] = c[m] /\ d[n] = d[m]
        /\ x(n) = x(m) /\ y(n) = y(m) /\ z(n) = z(m)
    BY <1>2, <1>4, <1>5, <1>8, <1>9
  <2> HIDE DEF m
  <2> QED BY <1>6, <1>7, <1>9, <2>1 DEF e, m
<1>10. CASE Joined(e, p)
  <2>1. /\ a[n] = a[m] + Weight(e)
        /\ b[n] = b[m] + (IF e.outcome \in Successes THEN Weight(e) ELSE 0)
        /\ c[n] = c[m] + (IF e.outcome \in Successes /\ Latency(e.outcome) # NoLatency
                          THEN Weight(e) ELSE 0)
        /\ d[n] = d[m] + (IF e.outcome \in Successes /\ Latency(e.outcome) # NoLatency
                          THEN Weight(e) * Latency(e.outcome) ELSE 0)
        /\ x(n) = x(m) + (IF e.outcome \in Successes THEN 0 ELSE 1)
        /\ y(n) = y(m) + (IF e.outcome = "rate_limit" THEN 1 ELSE 0)
        /\ z(n) = z(m) + (IF e.outcome = "timeout" THEN 1 ELSE 0)
    BY <1>1, <1>2, <1>4, <1>5, <1>10
  <2> HIDE DEF m
  <2>2. SumsUpTo(p, n) = Added(SumsUpTo(p, m), e)
    BY <1>6, <1>7, <2>1 DEF RowOf, Added
  <2> QED BY <1>10, <2>2 DEF e, m
<1> QED BY <1>9, <1>10

\* After every event the loop of stats.py holds the figures of the query so far.
LEMMA StatsAreSums ==
  ASSUME history \in Seq(Events), NEW p
  PROVE  \A n \in 0..Len(history) : StatsUpTo(p)[n] = SumsUpTo(p, n)
<1> DEFINE N == Len(history)
           g == StatsUpTo(p)
           T == {n \in 0..N : g[n] = SumsUpTo(p, n) /\ g[n] \in Rows}
<1>1. N \in Nat /\ \A n \in 1..N : history[n] \in Events  OBVIOUS
<1>2. /\ g[0] = EmptyStats
      /\ \A n \in 1..N : g[n] = IF Joined(history[n], p)
                                THEN Accumulate(g[n - 1], history[n]) ELSE g[n - 1]
  BY StatsUpToStep
<1>3. \A n \in 1..N : SumsUpTo(p, n - 1) \in Rows =>
         SumsUpTo(p, n) = IF Joined(history[n], p)
                          THEN Added(SumsUpTo(p, n - 1), history[n])
                          ELSE SumsUpTo(p, n - 1)
  BY SumsUpToAdds
<1> HIDE DEF N, g
<1>4. 0 \in T
  <2>1. EmptyStats \in Rows  BY DEF EmptyStats, Rows
  <2>2. SumsUpTo(p, 0) = EmptyStats  BY SumsUpToStart
  <2> QED BY <1>1, <1>2, <2>1, <2>2
<1>5. ASSUME NEW n \in 1..N, n - 1 \in T  PROVE n \in T
  <2>1. n \in 0..N  BY <1>1
  <2>2. g[n - 1] = SumsUpTo(p, n - 1) /\ g[n - 1] \in Rows  BY <1>5
  <2>3. CASE Joined(history[n], p)
    <3>1. g[n] = Accumulate(g[n - 1], history[n])  BY <1>2, <2>3
    <3>2. SumsUpTo(p, n) = Added(g[n - 1], history[n])  BY <1>3, <2>2, <2>3
    <3>3. history[n] \in Events  BY <1>1
    <3>4. g[n] = SumsUpTo(p, n) /\ g[n] \in Rows
      BY <2>2, <3>1, <3>2, <3>3, AccumulateAdds
    <3> QED BY <2>1, <3>4
  <2>4. CASE ~Joined(history[n], p)
    <3>1. g[n] = SumsUpTo(p, n) /\ g[n] \in Rows  BY <1>2, <1>3, <2>2, <2>4
    <3> QED BY <2>1, <3>1
  <2> QED BY <2>3, <2>4
<1>6. 0..N \subseteq T
  <2> HIDE DEF T
  <2> QED BY <1>1, <1>4, <1>5, Induction
<1>7. \A n \in 0..N : g[n] = SumsUpTo(p, n)  BY <1>6
<1> QED BY <1>7 DEF N, g

\* So it ends with them.
LEMMA AggregatesMatch ==
  ASSUME history \in Seq(Events), NEW p
  PROVE  ScoreAggregate(p) = AggregateStats(p)
<1> DEFINE n == Len(history)
<1>1. n \in 0..n /\ DOMAIN history = 1..n  OBVIOUS
<1>2. AggregateStats(p) = SumsUpTo(p, n)
  BY <1>1, StatsAreSums DEF AggregateStats
<1>3. Len(Weights) = n /\ Len(Delays) = n  BY FiguresType
<1> HIDE DEF n
<1>4. /\ Failed(p) \cap (1..n) = Failed(p)
      /\ FailedAs(p, "rate_limit") \cap (1..n) = FailedAs(p, "rate_limit")
      /\ FailedAs(p, "timeout") \cap (1..n) = FailedAs(p, "timeout")
  BY <1>1 DEF FailedAs, Failed, Matched
<1>5. ScoreAggregate(p) = RowOf(Summed(Weights, Matched(p)), Summed(Weights, Successful(p)),
         Summed(Weights, Timed(p)), Summed(Delays, Timed(p)), Cardinality(Failed(p)),
         Cardinality(FailedAs(p, "rate_limit")), Cardinality(FailedAs(p, "timeout")))
  BY Zenon, AggregateFigures DEF RowOf
<1> QED BY <1>2, <1>3, <1>4, <1>5 DEF SumsUpTo, Summed

\* The aggregate query of the three stores answers what aggregate_stats computes from
\* the events themselves, whatever was recorded and whatever the policy asks for.
THEOREM AggregatesAlwaysAgree == RankingSpec => []AggregatesAgree
<1>1. RankingTypeInv => AggregatesAgree
  BY AggregatesMatch DEF RankingTypeInv, AggregatesAgree
<1> QED BY <1>1, RankingTypes, PTL

----------------------------------------------------------------------------
(* A failure never pays.                                                    *)

\* Products of natural numbers, and of positive ones.
LEMMA Products ==
  /\ \A a, b \in Nat : a * b \in Nat
  /\ \A a, b \in Nat \ {0} : a * b \in Nat \ {0}
<1>1. ASSUME NEW a \in Nat, NEW b \in Nat  PROVE a * b \in Nat
  OBVIOUS
<1>2. ASSUME NEW a \in Nat \ {0}, NEW b \in Nat \ {0}  PROVE a * b \in Nat \ {0}
  OBVIOUS
<1> QED BY <1>1, <1>2

\* Both qualities are fractions with a positive denominator.
LEMMA QualityType ==
  ASSUME RankingTypeInv, NEW row \in Rows
  PROVE  /\ SuccessQuality(row).num \in Nat /\ SuccessQuality(row).den \in Nat \ {0}
         /\ SpeedQuality(row).num \in Nat /\ SpeedQuality(row).den \in Nat \ {0}
<1> DEFINE u == Pretend * Unit
           raw == Reference * row.latencyWeight
           all == IF row.latencyWeight = 0 THEN 1 ELSE raw + row.latencyTotal
           a == OptimisticNum * Pretend * Unit
           b == OptimisticDen * row.successes
<1>1. /\ row.attempts \in Nat /\ row.successes \in Nat /\ row.latencyWeight \in Nat
      /\ row.latencyTotal \in Nat
  BY DEF Rows
<1>2. /\ Pretend \in Nat \ {0} /\ Reference \in Nat \ {0} /\ Unit \in Nat \ {0}
      /\ OptimisticNum \in Nat /\ OptimisticDen \in Nat
  BY RankingAssumption, UnitType DEF RankingTypeInv, OptimisticNum, OptimisticDen
<1>3. u \in Nat \ {0}  BY <1>2, Products
<1>4. raw \in Nat /\ (row.latencyWeight # 0 => raw \in Nat \ {0})  BY <1>1, <1>2, Products
<1>5. all \in Nat \ {0}
  <2> HIDE DEF raw
  <2> QED BY <1>1, <1>4
<1>6. a \in Nat /\ b \in Nat
  <2>1. OptimisticNum * Pretend \in Nat  BY <1>2, Products
  <2> QED BY <1>1, <1>2, <2>1, Products
<1>7. u + row.attempts \in Nat \ {0} /\ u + row.successes \in Nat \ {0}
  <2> HIDE DEF u
  <2> QED BY <1>1, <1>3
<1>8. SuccessQuality(row) = [num |-> a + b, den |-> u + row.attempts]
  BY DEF SuccessQuality
<1>9. SpeedQuality(row) = [num |-> a * all + b * raw, den |-> (u + row.successes) * all]
  BY DEF SpeedQuality
<1> HIDE DEF u, raw, all, a, b
<1>10. a * all \in Nat /\ b * raw \in Nat /\ (u + row.successes) * all \in Nat \ {0}
  BY <1>4, <1>5, <1>6, <1>7, Products
<1>11. a * all + b * raw \in Nat  BY <1>10
<1> QED BY <1>6, <1>7, <1>8, <1>9, <1>10, <1>11

\* So is a score.
LEMMA ScoreType ==
  ASSUME RankingTypeInv, NEW row \in Rows
  PROVE  ProviderScore(row).num \in Nat /\ ProviderScore(row).den \in Nat \ {0}
<1> DEFINE s == SuccessQuality(row)
           t == SpeedQuality(row)
           v == policy.weights[1]
           w == policy.weights[2]
<1>1. /\ s.num \in Nat /\ s.den \in Nat \ {0} /\ t.num \in Nat /\ t.den \in Nat \ {0}
      /\ v \in Nat /\ w \in Nat
  BY QualityType DEF RankingTypeInv, Policies
<1>2. ProviderScore(row) = [num |-> v * s.num * t.den + w * t.num * s.den,
                            den |-> s.den * t.den]
  BY DEF ProviderScore
<1> HIDE DEF s, t, v, w
<1>3. v * s.num \in Nat /\ w * t.num \in Nat  BY <1>1, Products
<1>4. v * s.num * t.den \in Nat /\ w * t.num * s.den \in Nat  BY <1>1, <1>3, Products
<1>5. v * s.num * t.den + w * t.num * s.den \in Nat  BY <1>4
<1> QED BY <1>1, <1>2, <1>5, Products

\* The inequality behind MoreAttempts, without the fractions.
LEMMA LowerWithMore ==
  ASSUME NEW v \in Nat, NEW w \in Nat, NEW sn \in Nat, NEW sd \in Nat,
         NEW tn \in Nat, NEW td \in Nat, NEW d \in Nat
  PROVE  (v * sn * td + w * tn * (sd + d)) * (sd * td)
           <= (v * sn * td + w * tn * sd) * ((sd + d) * td)
  OBVIOUS

\* Attempts that do not succeed lower a score, or leave it as it was.
LEMMA MoreAttempts ==
  ASSUME RankingTypeInv, NEW row \in Rows, NEW more \in Rows, NEW d \in Nat,
         more.attempts = row.attempts + d, more.successes = row.successes,
         more.latencyWeight = row.latencyWeight, more.latencyTotal = row.latencyTotal
  PROVE  ~Higher(ProviderScore(more), ProviderScore(row))
<1> DEFINE s == SuccessQuality(row)
           t == SpeedQuality(row)
           x == SuccessQuality(more)
           v == policy.weights[1]
           w == policy.weights[2]
           u == Pretend * Unit
<1>1. SpeedQuality(more) = t  BY Zenon DEF SpeedQuality
<1>2. /\ s.num \in Nat /\ s.den \in Nat \ {0} /\ t.num \in Nat /\ t.den \in Nat \ {0}
      /\ v \in Nat /\ w \in Nat
  BY QualityType DEF RankingTypeInv, Policies
<1>3. x.num = s.num  BY Zenon DEF SuccessQuality
<1>4. x.den = s.den + d
  <2>1. x.den = u + more.attempts /\ s.den = u + row.attempts  BY DEF SuccessQuality
  <2>2. Pretend \in Nat /\ Unit \in Nat
    BY RankingAssumption, UnitType DEF RankingTypeInv
  <2>3. u \in Nat  BY <2>2, Products
  <2>4. row.attempts \in Nat  BY DEF Rows
  <2> HIDE DEF u, x, s
  <2> QED BY <2>1, <2>3, <2>4
<1>5. ProviderScore(row) = [num |-> v * s.num * t.den + w * t.num * s.den,
                            den |-> s.den * t.den]
  BY DEF ProviderScore
<1>6. ProviderScore(more) = [num |-> v * x.num * t.den + w * t.num * x.den,
                             den |-> x.den * t.den]
  BY <1>1, Zenon DEF ProviderScore
<1> HIDE DEF s, t, x, v, w
<1>7. (v * s.num * t.den + w * t.num * (s.den + d)) * (s.den * t.den)
         <= (v * s.num * t.den + w * t.num * s.den) * ((s.den + d) * t.den)
  BY <1>2, LowerWithMore
<1> DEFINE A == (v * s.num * t.den + w * t.num * (s.den + d)) * (s.den * t.den)
           B == (v * s.num * t.den + w * t.num * s.den) * ((s.den + d) * t.den)
<1>8. /\ ProviderScore(more).num * ProviderScore(row).den = A
      /\ ProviderScore(row).num * ProviderScore(more).den = B
  BY <1>3, <1>4, <1>5, <1>6
<1>9. A \in Nat /\ B \in Nat
  <2>1. v * s.num \in Nat /\ w * t.num \in Nat /\ s.den + d \in Nat  BY <1>2, Products
  <2>2. /\ v * s.num * t.den \in Nat /\ w * t.num * (s.den + d) \in Nat
        /\ w * t.num * s.den \in Nat /\ s.den * t.den \in Nat /\ (s.den + d) * t.den \in Nat
    BY <1>2, <2>1, Products
  <2>3. /\ v * s.num * t.den + w * t.num * (s.den + d) \in Nat
        /\ v * s.num * t.den + w * t.num * s.den \in Nat
    BY <2>2
  <2> QED BY <2>2, <2>3, Products
<1>10. A <= B  BY <1>7
<1> HIDE DEF A, B
<1> QED BY <1>8, <1>9, <1>10 DEF Higher

\* What is known of the rows, the figures and the sums of one state.
RowFacts ==
    history \in Seq(Events) =>
        \A p : ScoreAggregate(p) \in Rows /\ ValidAggregate(ScoreAggregate(p))

FigureFacts ==
    history \in Seq(Events) =>
        /\ Weights \in Seq(Int) /\ Len(Weights) = Len(history)
        /\ Delays \in Seq(Int) /\ Len(Delays) = Len(history)
        /\ \A i \in 1..Len(history) :
              /\ Weights[i] = Weight(history[i]) /\ Weights[i] \in Nat \ {0}
              /\ Delays[i] = Weight(history[i]) * Latency(history[i].outcome)

SumFacts ==
    \A p : /\ ScoreAggregate(p).attempts = Summed(Weights, Matched(p))
           /\ ScoreAggregate(p).successes = Summed(Weights, Successful(p))
           /\ ScoreAggregate(p).latencyWeight = Summed(Weights, Timed(p))
           /\ ScoreAggregate(p).latencyTotal = Summed(Delays, Timed(p))

\* All of it holds in every state ...
LEMMA Facts == RowFacts /\ FigureFacts /\ SumFacts
<1>1. RowFacts  BY AggregateValid DEF RowFacts
<1>2. FigureFacts  BY FiguresType DEF FigureFacts
<1>3. SumFacts  BY AggregateFigures DEF SumFacts
<1> QED BY <1>1, <1>2, <1>3

\* ... and so in the next one.
LEMMA FactsNext == RowFacts' /\ FigureFacts' /\ SumFacts'
  BY Facts, PTL

\* A failure adds to the attempts of its provider and to no figure of success.
LEMMA FailureCounts ==
  ASSUME history \in Seq(Events), NEW p, NEW e \in Events, e.outcome \in Failures,
         history' = Append(history, e), policy' = policy
  PROVE  \E d \in Nat :
            LET row == ScoreAggregate(p)
                more == ScoreAggregate(p)'
            IN  /\ row \in Rows /\ more \in Rows
                /\ more.attempts = row.attempts + d /\ more.successes = row.successes
                /\ more.latencyWeight = row.latencyWeight
                /\ more.latencyTotal = row.latencyTotal
<1> DEFINE n == Len(history)
           k == n + 1
           row == ScoreAggregate(p)
           more == ScoreAggregate(p)'
           d == IF k \in Matched(p)' THEN Weights'[k] ELSE 0
<1>1. history' \in Seq(Events)  BY DEF Events
<1>2. row \in Rows /\ more \in Rows  BY <1>1, Facts, FactsNext DEF RowFacts, Events
<1>3. /\ n \in Nat /\ Len(history') = k /\ DOMAIN history = 1..n /\ DOMAIN history' = 1..k
      /\ history'[k] = e /\ \A i \in 1..n : history'[i] = history[i]
  OBVIOUS
<1>4. /\ Weights \in Seq(Int) /\ Len(Weights) = n /\ Delays \in Seq(Int) /\ Len(Delays) = n
      /\ \A i \in 1..n : /\ Weights[i] = Weight(history[i])
                         /\ Delays[i] = Weight(history[i]) * Latency(history[i].outcome)
  BY Facts DEF FigureFacts
<1>5. /\ Weights' \in Seq(Int) /\ Len(Weights') = k
      /\ Delays' \in Seq(Int) /\ Len(Delays') = k
      /\ \A i \in 1..k :
            /\ Weights'[i] = Weight(history'[i]) /\ Weights'[i] \in Nat \ {0}
            /\ Delays'[i] = Weight(history'[i]) * Latency(history'[i].outcome)
  <2>1. /\ Weights' \in Seq(Int) /\ Len(Weights') = Len(history')
        /\ Delays' \in Seq(Int) /\ Len(Delays') = Len(history')
        /\ \A i \in 1..Len(history') :
              /\ Weights'[i] = (Weight(history[i]))' /\ Weights'[i] \in Nat \ {0}
              /\ Delays'[i] = (Weight(history[i]))' * Latency(history'[i].outcome)
    BY <1>1, FactsNext DEF FigureFacts, Events
  <2>2. \A i : (Weight(history[i]))' = Weight(history'[i])  BY DEF Weight
  <2> QED BY <1>3, <2>1, <2>2
<1>6. \A i \in 1..n : i \in 1..k /\ Weights'[i] = Weights[i] /\ Delays'[i] = Delays[i]
  <2> HIDE DEF n, k
  <2>1. \A i \in 1..n : i \in 1..k  BY <1>3 DEF k
  <2> QED BY <1>3, <1>4, <1>5, <2>1
<1>7. \A i : /\ i \in Matched(p)' <=> i \in 1..k /\ Joined(history'[i], p)
             /\ i \in Matched(p) <=> i \in 1..n /\ Joined(history[i], p)
  BY <1>3 DEF Matched, Joined
<1>8. \A i : /\ i \in Successful(p)' <=> i \in Matched(p)' /\ history'[i].outcome \in Successes
             /\ i \in Successful(p) <=> i \in Matched(p) /\ history[i].outcome \in Successes
  BY DEF Successful
<1>9. \A i : /\ i \in Timed(p)' <=> /\ i \in Successful(p)'
                                    /\ Latency(history'[i].outcome) # NoLatency
             /\ i \in Timed(p) <=> /\ i \in Successful(p)
                                   /\ Latency(history[i].outcome) # NoLatency
  BY DEF Timed
<1> HIDE DEF n, k
<1>10. \A i \in 1..n : /\ i \in Matched(p)' <=> i \in Matched(p)
                       /\ i \in Successful(p)' <=> i \in Successful(p)
                       /\ i \in Timed(p)' <=> i \in Timed(p)
  BY <1>3, <1>6, <1>7, <1>8, <1>9
<1>11. k \notin Successful(p)' /\ k \notin Timed(p)'
  <2>1. e.outcome \notin Successes  BY DEF Successes, Failures
  <2> QED BY <1>3, <1>8, <1>9, <2>1
<1>12. n \in Nat /\ k = n + 1 /\ k \in 1..k  BY <1>3 DEF k
<1>13. /\ Summed(Weights', Matched(p)') = Summed(Weights, Matched(p)) + d
       /\ Summed(Weights', Successful(p)') = Summed(Weights, Successful(p)) + 0
       /\ Summed(Weights', Timed(p)') = Summed(Weights, Timed(p)) + 0
       /\ Summed(Delays', Timed(p)') = Summed(Delays, Timed(p)) + 0
  <2>1. ASSUME NEW R, NEW S, \A i \in 1..n : i \in S <=> i \in R
        PROVE  /\ Summed(Weights', S)
                    = Summed(Weights, R) + (IF k \in S THEN Weights'[k] ELSE 0)
               /\ Summed(Delays', S)
                    = Summed(Delays, R) + (IF k \in S THEN Delays'[k] ELSE 0)
    <3>1. Len(Weights) = n /\ Len(Delays) = n /\ Len(Weights') = k /\ Len(Delays') = k
      BY <1>4, <1>5
    <3>2. Weights \in Seq(Int) /\ Weights' \in Seq(Int)
          /\ Delays \in Seq(Int) /\ Delays' \in Seq(Int)
      BY <1>4, <1>5
    <3>3. OneMore(Weights, Weights') /\ OneMore(Delays, Delays')
      BY <1>6, <1>12, <3>1 DEF OneMore
    <3>4. SameUpTo(Len(Weights), R, S) /\ SameUpTo(Len(Delays), R, S)
      BY <2>1, <3>1 DEF SameUpTo
    <3>5. Summed(Weights', S)
            = Summed(Weights, R) + (IF Len(Weights') \in S THEN Weights'[Len(Weights')] ELSE 0)
      BY <3>2, <3>3, <3>4, SummedAppend
    <3>6. Summed(Delays', S)
            = Summed(Delays, R) + (IF Len(Delays') \in S THEN Delays'[Len(Delays')] ELSE 0)
      BY <3>2, <3>3, <3>4, SummedAppend
    <3> QED BY <3>1, <3>5, <3>6
  <2> QED BY <1>10, <1>11, <2>1
<1>14. /\ row.attempts = Summed(Weights, Matched(p))
       /\ row.successes = Summed(Weights, Successful(p))
       /\ row.latencyWeight = Summed(Weights, Timed(p))
       /\ row.latencyTotal = Summed(Delays, Timed(p))
  BY Facts DEF SumFacts
<1>15. /\ more.attempts = Summed(Weights', Matched(p)')
       /\ more.successes = Summed(Weights', Successful(p)')
       /\ more.latencyWeight = Summed(Weights', Timed(p)')
       /\ more.latencyTotal = Summed(Delays', Timed(p)')
  BY FactsNext DEF SumFacts
<1>16. d \in Nat  BY <1>5, <1>12
<1>17. /\ row.successes \in Nat /\ row.latencyWeight \in Nat /\ row.latencyTotal \in Nat
  BY <1>2 DEF Rows
<1> HIDE DEF d, row, more
<1>18. /\ more.attempts = row.attempts + d /\ more.successes = row.successes
       /\ more.latencyWeight = row.latencyWeight /\ more.latencyTotal = row.latencyTotal
  BY <1>13, <1>14, <1>15, <1>17 DEF d
<1> QED BY <1>2, <1>16, <1>18 DEF row, more

\* So recording a failure raises nobody's score.
LEMMA FailureRecorded ==
  ASSUME RankingTypeInv, NEW p, NEW e \in Events, e.outcome \in Failures,
         history' = Append(history, e), policy' = policy
  PROVE  ~Higher(ProviderScore(ScoreAggregate(p))', ProviderScore(ScoreAggregate(p)))
<1> DEFINE row == ScoreAggregate(p)
           more == ScoreAggregate(p)'
<1>1. PICK d \in Nat :
         /\ row \in Rows /\ more \in Rows
         /\ more.attempts = row.attempts + d /\ more.successes = row.successes
         /\ more.latencyWeight = row.latencyWeight
         /\ more.latencyTotal = row.latencyTotal
  BY FailureCounts DEF RankingTypeInv
<1>2. ProviderScore(ScoreAggregate(p))' = ProviderScore(more)
  BY DEF ProviderScore, SuccessQuality, SpeedQuality, Unit
<1> HIDE DEF row, more
<1>3. ~Higher(ProviderScore(more), ProviderScore(row))  BY <1>1, MoreAttempts
<1> QED BY <1>2, <1>3 DEF row

\* Recording a failure raises the score of no provider: it adds to the
\* attempts and to no success, and its short latency does not count.
THEOREM FailureNeverPaysAlways == RankingSpec => FailureNeverPays
<1>1. ASSUME RankingTypeInv, [RankingNext]_rankingVars, NEW p \in ToSet(Configured),
             Len(history') = Len(history) + 1,
             history'[Len(history')].outcome \in Failures
      PROVE  ~Higher(ProviderScore(ScoreAggregate(p))', ProviderScore(ScoreAggregate(p)))
  <2>1. history \in Seq(Events) /\ Len(history) \in Nat  BY <1>1 DEF RankingTypeInv
  <2>2. ASSUME NEW q \in Recorded, NEW h \in Happenings, Records(NewEvent(q, h))
        PROVE  ~Higher(ProviderScore(ScoreAggregate(p))', ProviderScore(ScoreAggregate(p)))
    <3>1. NewEvent(q, h) \in Events  BY RankingAssumption DEF NewEvent, Events
    <3>2. history' = Append(history, NewEvent(q, h)) /\ policy' = policy
      BY <2>2 DEF Records
    <3> DEFINE e == NewEvent(q, h)
    <3>3. history'[Len(history')] = e
      <4> HIDE DEF e
      <4> QED BY <2>1, <3>1, <3>2 DEF e
    <3> QED BY <1>1, <3>1, <3>2, <3>3, FailureRecorded
  <2>3. ASSUME NEW chosen, NEW answered, Orders(Kept(Configured, chosen), answered)
        PROVE  FALSE
    BY <1>1, <2>1, <2>3 DEF Orders
  <2>4. CASE Ages
    <3>1. Len(history') = Len(history)
      <4> DEFINE n == Len(history)
                 older(i) == [history[i] EXCEPT !.age = IF @ > MaxAge THEN @ ELSE @ + 1]
      <4>1. history' = [i \in 1..n |-> older(i)]  BY <2>1, <2>4 DEF Ages
      <4> HIDE DEF n, older
      <4>2. history' \in [1..n -> {older(i) : i \in 1..n}]  BY <4>1
      <4> QED BY <2>1, <4>2, FunctionIsList DEF n
    <3> QED BY <1>1, <2>1, <3>1
  <2>5. CASE Restarts \/ UNCHANGED rankingVars
    BY <1>1, <2>1, <2>5 DEF Restarts, rankingVars
  <2> QED BY <1>1, <2>2, <2>3, <2>4, <2>5 DEF RankingNext
<1>2. RankingTypeInv /\ [RankingNext]_rankingVars =>
         [Len(history') = Len(history) + 1 /\ history'[Len(history')].outcome \in Failures =>
             \A before \in {Standing}, after \in {Standing'}, p \in ToSet(Configured) :
                 ~Higher(after[p], before[p])]_rankingVars
  <2> SUFFICES ASSUME RankingTypeInv, [RankingNext]_rankingVars,
                      Len(history') = Len(history) + 1,
                      history'[Len(history')].outcome \in Failures,
                      NEW p \in ToSet(Configured)
               PROVE  ~Higher(Standing'[p], Standing[p])
    OBVIOUS
  <2>1. /\ Standing[p] = ProviderScore(ScoreAggregate(p))
        /\ Standing'[p] = ProviderScore(ScoreAggregate(p))'
    BY DEF Standing
  <2> QED BY <1>1, <2>1
<1> QED BY <1>2, RankingTypes, PTL DEF RankingSpec, FailureNeverPays

----------------------------------------------------------------------------
(* What order returns.                                                      *)

\* A rotation keeps the elements, and keeps them apart.
LEMMA RotatedKeeps ==
  ASSUME NEW D, NEW s \in Seq(D), IsInjective(s), index \in Nat
  PROVE  /\ Rotated(s) \in Seq(D) /\ Len(Rotated(s)) = Len(s)
         /\ IsInjective(Rotated(s)) /\ ToSet(Rotated(s)) = ToSet(s)
<1>1. CASE s = <<>>
  BY <1>1 DEF Rotated, IsInjective, ToSet
<1>2. CASE s # <<>>
  <2> DEFINE n == Len(s)
             i == index % n
  <2>1. n \in Nat \ {0}  BY <1>2
  <2>2. i \in 0..(n - 1)
    <3> HIDE DEF n
    <3> QED BY <2>1, Division
  <2>3. Rotated(s) = SubSeq(s, i + 1, n) \o SubSeq(s, 1, i)  BY <1>2 DEF Rotated
  <2> HIDE DEF i
  <2> QED BY <2>2, <2>3, RotationKeeps
<1> QED BY <1>1, <1>2

\* Multiplying by a positive number keeps and reflects the order.
LEMMA Scaling ==
  ASSUME NEW a \in Int, NEW b \in Int, NEW c \in Nat \ {0}
  PROVE  (a < b <=> a * c < b * c) /\ (a <= b <=> a * c <= b * c)
<1>1. a < b => a * c < b * c  OBVIOUS
<1>2. a * c < b * c => a < b  OBVIOUS
<1>3. a = b => a * c = b * c  OBVIOUS
<1>4. b < a => b * c < a * c  OBVIOUS
<1>5. a * c \in Int /\ b * c \in Int  OBVIOUS
<1> DEFINE x == a * c
           y == b * c
<1> HIDE DEF x, y
<1> QED BY <1>1, <1>2, <1>3, <1>4, <1>5 DEF x, y

\* A score: a fraction with a positive denominator.
Fractions == [num : Nat, den : Nat \ {0}]

\* The first and the third of three fractions: in order if the neighbours are,
\* and strictly so if one of the neighbours is strictly in order.
LEMMA HigherTransitive ==
  ASSUME NEW a \in Fractions, NEW b \in Fractions, NEW c \in Fractions,
         ~Higher(b, a), ~Higher(c, b)
  PROVE  ~Higher(c, a) /\ (Higher(a, b) \/ Higher(b, c) => Higher(a, c))
<1> DEFINE an == a.num
           ad == a.den
           bn == b.num
           bd == b.den
           cn == c.num
           cd == c.den
<1>1. /\ an \in Nat /\ bn \in Nat /\ cn \in Nat
      /\ ad \in Nat \ {0} /\ bd \in Nat \ {0} /\ cd \in Nat \ {0}
  BY DEF Fractions
<1>2. /\ bn * ad <= an * bd /\ cn * bd <= bn * cd
      /\ Higher(a, b) => bn * ad < an * bd
      /\ Higher(b, c) => cn * bd < bn * cd
      /\ Higher(a, c) <=> cn * ad < an * cd
      /\ Higher(c, a) <=> an * cd < cn * ad
  <2> HIDE DEF an, ad, bn, bd, cn, cd
  <2>1. /\ bn * ad \in Nat /\ an * bd \in Nat /\ cn * bd \in Nat /\ bn * cd \in Nat
        /\ cn * ad \in Nat /\ an * cd \in Nat
    BY <1>1, Products
  <2>2. /\ ~(bn * ad > an * bd) /\ ~(cn * bd > bn * cd)
        /\ Higher(a, b) <=> an * bd > bn * ad
        /\ Higher(b, c) <=> bn * cd > cn * bd
        /\ Higher(a, c) <=> an * cd > cn * ad
        /\ Higher(c, a) <=> cn * ad > an * cd
    BY Zenon DEF Higher, an, ad, bn, bd, cn, cd
  <2> DEFINE x == bn * ad
             y == an * bd
             z == cn * bd
             w == bn * cd
             p == cn * ad
             q == an * cd
  <2> HIDE DEF x, y, z, w, p, q
  <2> QED BY <2>1, <2>2 DEF x, y, z, w, p, q
<1> HIDE DEF an, ad, bn, bd, cn, cd
<1> DEFINE x == bn * ad * cd
           y == an * bd * cd
           z == cn * bd * ad
<1>3. x \in Nat /\ y \in Nat /\ z \in Nat
  <2>1. bn * ad \in Nat /\ an * bd \in Nat /\ cn * bd \in Nat  BY <1>1, Products
  <2> QED BY <1>1, <2>1, Products
<1>4. x <= y /\ (Higher(a, b) => x < y)
  <2>1. bn * ad \in Int /\ an * bd \in Int  BY <1>1
  <2> QED BY <1>1, <1>2, <2>1, Scaling
<1>5. z <= x /\ (Higher(b, c) => z < x)
  <2>1. cn * bd \in Int /\ bn * cd \in Int  BY <1>1
  <2>2. cn * bd * ad <= bn * cd * ad /\ (Higher(b, c) => cn * bd * ad < bn * cd * ad)
    BY <1>1, <1>2, <2>1, Scaling
  <2>3. bn * cd * ad = x  BY <1>1
  <2> QED BY <2>2, <2>3
<1>6. cn * ad * bd = z /\ an * cd * bd = y  BY <1>1
<1>7. (cn * ad < an * cd <=> z < y) /\ (an * cd < cn * ad <=> y < z)
  <2>1. cn * ad \in Int /\ an * cd \in Int  BY <1>1
  <2> QED BY <1>1, <1>6, <2>1, Scaling
<1> HIDE DEF x, y, z
<1>8. z <= y /\ (Higher(a, b) \/ Higher(b, c) => z < y) /\ ~(y < z)
  BY <1>3, <1>4, <1>5
<1> QED BY <1>2, <1>7, <1>8

\* Of two scores at most one is higher.
LEMMA HigherAsymmetric ==
  ASSUME NEW a \in Fractions, NEW b \in Fractions, Higher(a, b)
  PROVE  ~Higher(b, a)
<1> DEFINE x == a.num * b.den
           y == b.num * a.den
<1>1. x \in Nat /\ y \in Nat  BY Products DEF Fractions
<1>2. x > y  BY DEF Higher
<1>3. Higher(b, a) <=> y > x  BY DEF Higher
<1> HIDE DEF x, y
<1> QED BY <1>1, <1>2, <1>3

\* Descending scores with equals in their order is a strict total order.
LEMMA PrecedesOrder ==
  ASSUME NEW n \in Nat, NEW score \in [1..n -> Fractions],
         NEW i \in 1..n, NEW j \in 1..n, NEW k \in 1..n
  PROVE  /\ ~Precedes(score, i, i)
         /\ i # j => Precedes(score, i, j) \/ Precedes(score, j, i)
         /\ Precedes(score, i, j) /\ Precedes(score, j, k) => Precedes(score, i, k)
<1> DEFINE a == score[i]
           b == score[j]
           c == score[k]
<1>1. a \in Fractions /\ b \in Fractions /\ c \in Fractions
      /\ i \in Nat /\ j \in Nat /\ k \in Nat
  OBVIOUS
<1>2. /\ Precedes(score, i, i) <=> Higher(a, a) \/ (~Higher(a, a) /\ i < i)
      /\ Precedes(score, i, j) <=> Higher(a, b) \/ (~Higher(b, a) /\ i < j)
      /\ Precedes(score, j, i) <=> Higher(b, a) \/ (~Higher(a, b) /\ j < i)
      /\ Precedes(score, j, k) <=> Higher(b, c) \/ (~Higher(c, b) /\ j < k)
      /\ Precedes(score, i, k) <=> Higher(a, c) \/ (~Higher(c, a) /\ i < k)
  BY Zenon DEF Precedes
<1> HIDE DEF a, b, c
<1>3. ~Higher(a, a)  BY <1>1, HigherAsymmetric
<1>4. ASSUME Precedes(score, i, j), Precedes(score, j, k)  PROVE Precedes(score, i, k)
  <2>1. ~Higher(b, a) /\ ~Higher(c, b)  BY <1>1, <1>2, <1>4, HigherAsymmetric
  <2>2. ~Higher(c, a) /\ (Higher(a, b) \/ Higher(b, c) => Higher(a, c))
    BY <1>1, <2>1, HigherTransitive
  <2> QED BY <1>1, <1>2, <1>4, <2>2
<1>5. i # j => Precedes(score, i, j) \/ Precedes(score, j, i)
  BY <1>1, <1>2, HigherAsymmetric
<1> QED BY <1>1, <1>2, <1>3, <1>4, <1>5

\* The places are those from 1 to n, and earlier means precedes.
LEMMA PlaceOrder ==
  ASSUME NEW n \in Nat, NEW score \in [1..n -> Fractions],
         NEW i \in 1..n, NEW j \in 1..n
  PROVE  /\ Place(score, i) \in 1..n
         /\ Precedes(score, i, j) => Place(score, i) < Place(score, j)
<1> DEFINE before(k) == {m \in 1..n : Precedes(score, m, k)}
<1>1. Place(score, i) = 1 + Cardinality(before(i)) /\ Place(score, j) = 1 + Cardinality(before(j))
  BY DEF Place
<1>2. IsFiniteSet(1..n) /\ Cardinality(1..n) = n  BY FS_Interval
<1>3. /\ IsFiniteSet(before(i)) /\ Cardinality(before(i)) \in Nat
      /\ IsFiniteSet(before(j)) /\ Cardinality(before(j)) \in Nat
  BY <1>2, FS_Subset, FS_CardinalityType
<1>4. i \notin before(i)  BY PrecedesOrder
<1>5. ASSUME NEW S \in SUBSET (1..n), before(i) \cup {i} \subseteq S
      PROVE  Cardinality(before(i)) + 1 <= Cardinality(S)
  <2>1. IsFiniteSet(S)  BY <1>2, FS_Subset
  <2>2. Cardinality(before(i) \cup {i}) = Cardinality(before(i)) + 1
    BY <1>3, <1>4, FS_AddElement
  <2>3. Cardinality(before(i) \cup {i}) <= Cardinality(S)
    BY <1>5, <2>1, FS_Subset
  <2> QED BY <2>2, <2>3
<1>6. Place(score, i) \in 1..n
  <2>1. before(i) \cup {i} \subseteq 1..n  OBVIOUS
  <2>2. Cardinality(before(i)) + 1 <= n  BY <1>2, <1>5, <2>1
  <2> HIDE DEF before
  <2> QED BY <1>1, <1>3, <2>2
<1>7. ASSUME Precedes(score, i, j)  PROVE Place(score, i) < Place(score, j)
  <2>1. before(i) \cup {i} \subseteq before(j)
    <3> SUFFICES ASSUME NEW m \in 1..n, Precedes(score, m, i)
                 PROVE  Precedes(score, m, j)
      BY <1>7
    <3> QED BY <1>7, PrecedesOrder
  <2>2. Cardinality(before(i)) + 1 <= Cardinality(before(j))  BY <1>5, <2>1
  <2> HIDE DEF before
  <2> QED BY <1>1, <1>3, <2>2
<1> QED BY <1>6, <1>7

\* So one element stands at every place, and no two share one.
LEMMA PlaceTaken ==
  ASSUME NEW n \in Nat, NEW score \in [1..n -> Fractions]
  PROVE  /\ \A i, j \in 1..n : Place(score, i) = Place(score, j) => i = j
         /\ \A k \in 1..n : \E i \in 1..n : Place(score, i) = k
         /\ \A i, j \in 1..n : Place(score, i) < Place(score, j) => Precedes(score, i, j)
<1> DEFINE f == [i \in 1..n |-> Place(score, i)]
<1>1. \A i, j \in 1..n : /\ Place(score, i) \in 1..n
                         /\ Precedes(score, i, j) => Place(score, i) < Place(score, j)
  BY PlaceOrder
<1>2. \A i, j \in 1..n : i # j => Precedes(score, i, j) \/ Precedes(score, j, i)
  BY PrecedesOrder
<1>3. \A i, j \in 1..n : Place(score, i) = Place(score, j) => i = j
  BY <1>1, <1>2
<1>4. \A i, j \in 1..n : Place(score, i) < Place(score, j) => Precedes(score, i, j)
  BY <1>1, <1>2
<1>5. f \in Injection(1..n, 1..n)
  BY <1>1, <1>3 DEF Injection, IsInjective
<1>6. f \in Surjection(1..n, 1..n)
  <2>1. IsFiniteSet(1..n)  BY FS_Interval
  <2> HIDE DEF f
  <2> QED BY <1>5, <2>1, FS_Injection
<1>7. \A k \in 1..n : \E i \in 1..n : Place(score, i) = k
  BY <1>6 DEF Surjection
<1> QED BY <1>3, <1>4, <1>7

\* The scores of a list are fractions.
LEMMA ScoresType ==
  ASSUME RankingTypeInv, NEW D, NEW list \in Seq(D)
  PROVE  Scores(list) \in [1..Len(list) -> Fractions]
<1>1. \A p : ScoreAggregate(p) \in Rows  BY AggregateValid DEF RankingTypeInv
<1>2. \A row \in Rows : ProviderScore(row) \in Fractions
  <2> SUFFICES ASSUME NEW row \in Rows  PROVE ProviderScore(row) \in Fractions
    OBVIOUS
  <2>1. ProviderScore(row).num \in Nat /\ ProviderScore(row).den \in Nat \ {0}
    BY ScoreType
  <2>2. ProviderScore(row) = [num |-> ProviderScore(row).num, den |-> ProviderScore(row).den]
    BY DEF ProviderScore
  <2> QED BY <2>1, <2>2 DEF Fractions
<1> QED BY <1>1, <1>2 DEF Scores

\* Best first: every element once, better scores earlier, equals in their order.
LEMMA BestFirstSorts ==
  ASSUME RankingTypeInv, NEW D, NEW list \in Seq(D), IsInjective(list)
  PROVE  /\ BestFirst(list) \in Seq(D) /\ Len(BestFirst(list)) = Len(list)
         /\ \E from \in [1..Len(list) -> 1..Len(list)] :
               /\ \A k \in 1..Len(list) : BestFirst(list)[k] = list[from[k]]
               /\ \A k, l \in 1..Len(list) : from[k] = from[l] => k = l
               /\ \A i \in 1..Len(list) : \E k \in 1..Len(list) : from[k] = i
               /\ \A k, l \in 1..Len(list) :
                     k < l => Precedes(Scores(list), from[k], from[l])
<1> DEFINE n == Len(list)
           score == Scores(list)
           from == [k \in DOMAIN list |->
                       CHOOSE i \in DOMAIN list : Place(score, i) = k]
<1>1. n \in Nat /\ DOMAIN list = 1..n /\ \A i \in 1..n : list[i] \in D  OBVIOUS
<1>2. score \in [1..n -> Fractions]  BY ScoresType
<1>3. BestFirst(list) = [k \in DOMAIN list |-> list[from[k]]]
  <2> DEFINE at(k) == CHOOSE i \in DOMAIN list : Place(score, i) = k
  <2>1. BestFirst(list) = [k \in DOMAIN list |-> list[at(k)]]  BY Zenon DEF BestFirst
  <2>2. from = [k \in DOMAIN list |-> at(k)]  OBVIOUS
  <2> HIDE DEF at, from
  <2> QED BY <2>1, <2>2
<1> HIDE DEF n, score
<1>4. /\ \A i, j \in 1..n : Place(score, i) = Place(score, j) => i = j
      /\ \A k \in 1..n : \E i \in 1..n : Place(score, i) = k
      /\ \A i, j \in 1..n : Place(score, i) < Place(score, j) => Precedes(score, i, j)
  BY <1>1, <1>2, PlaceTaken
<1>5. \A k \in 1..n : from[k] \in 1..n /\ Place(score, from[k]) = k
  BY <1>1, <1>4
<1>6. BestFirst(list) = [k \in 1..n |-> list[from[k]]]  BY <1>1, <1>3
<1>7. from \in [1..n -> 1..n]
  <2>1. from = [k \in 1..n |-> from[k]]  BY <1>1
  <2> HIDE DEF from
  <2> QED BY <1>5, <2>1
<1> HIDE DEF from
<1>8. /\ \A k \in 1..n : BestFirst(list)[k] = list[from[k]]
      /\ \A k, l \in 1..n : from[k] = from[l] => k = l
      /\ \A k, l \in 1..n : k < l => Precedes(score, from[k], from[l])
  BY <1>4, <1>5, <1>6
<1>9. \A i \in 1..n : \E k \in 1..n : from[k] = i
  <2> SUFFICES ASSUME NEW i \in 1..n  PROVE \E k \in 1..n : from[k] = i
    OBVIOUS
  <2>1. Place(score, i) \in 1..n  BY <1>1, <1>2, PlaceOrder
  <2>2. from[Place(score, i)] = i  BY <1>4, <1>5, <2>1
  <2> QED BY <2>1, <2>2
<1>10. BestFirst(list) \in [1..n -> D]  BY <1>1, <1>6, <1>7
<1>11. BestFirst(list) \in Seq(D) /\ Len(BestFirst(list)) = n
  BY <1>1, <1>10, FunctionIsList
<1> QED BY <1>7, <1>8, <1>9, <1>11 DEF n, score

\* The order of a list is that of its rotation, or that of the scores.
Sorted(rotated, scored, i, j) ==
    IF scored THEN Precedes(Scores(rotated), i, j) ELSE i < j

\* from takes a place in the order to the place in the rotation it came from.
SortedBy(from, ranked, rotated, scored, n) ==
    /\ \A k \in 1..n : ranked[k] = rotated[from[k]]
    /\ \A k, l \in 1..n : k < l => Sorted(rotated, scored, from[k], from[l])

\* ScoreBasedPolicy.order sorts the rotation: every element of it once.
LEMMA RankedSorts ==
  ASSUME RankingTypeInv, NEW D, NEW s \in Seq(D), IsInjective(s), NEW answered \in BOOLEAN
  PROVE  LET rotated == Rotated(s)
             ranked == Ranked(s, answered)
             n == Len(s)
         IN  /\ rotated \in Seq(D) /\ Len(rotated) = n
             /\ IsInjective(rotated) /\ ToSet(rotated) = ToSet(s)
             /\ ranked \in Seq(D) /\ Len(ranked) = n
             /\ IsInjective(ranked) /\ ToSet(ranked) = ToSet(s)
             /\ \E from \in [1..n -> 1..n] :
                   SortedBy(from, ranked, rotated, policy.ranked /\ answered, n)
<1> DEFINE rotated == Rotated(s)
           ranked == Ranked(s, answered)
           n == Len(s)
           scored == policy.ranked /\ answered
<1>1. /\ rotated \in Seq(D) /\ Len(rotated) = n /\ n \in Nat
      /\ IsInjective(rotated) /\ ToSet(rotated) = ToSet(s)
  BY RotatedKeeps DEF RankingTypeInv
<1>2. ranked = IF scored THEN BestFirst(rotated) ELSE rotated
  BY AggregateValid DEF Ranked, RankingTypeInv
<1> HIDE DEF rotated, ranked, scored, n
<1> DEFINE Sorting(f) ==
             /\ ranked \in Seq(D) /\ Len(ranked) = n
             /\ \A k \in 1..n : ranked[k] = rotated[f[k]]
             /\ \A k, l \in 1..n : f[k] = f[l] => k = l
             /\ \A i \in 1..n : \E k \in 1..n : f[k] = i
             /\ \A k, l \in 1..n : k < l => Sorted(rotated, scored, f[k], f[l])
<1>3. PICK from \in [1..n -> 1..n] : Sorting(from)
  <2>1. CASE scored
    <3>1. \A i, j : Sorted(rotated, scored, i, j) <=> Precedes(Scores(rotated), i, j)
      BY <2>1 DEF Sorted
    <3>2. ranked = BestFirst(rotated)  BY <1>2, <2>1
    <3>3. PICK from \in [1..Len(rotated) -> 1..Len(rotated)] :
             /\ BestFirst(rotated) \in Seq(D) /\ Len(BestFirst(rotated)) = Len(rotated)
             /\ \A k \in 1..Len(rotated) : BestFirst(rotated)[k] = rotated[from[k]]
             /\ \A k, l \in 1..Len(rotated) : from[k] = from[l] => k = l
             /\ \A i \in 1..Len(rotated) : \E k \in 1..Len(rotated) : from[k] = i
             /\ \A k, l \in 1..Len(rotated) :
                   k < l => Precedes(Scores(rotated), from[k], from[l])
      BY <1>1, BestFirstSorts
    <3>4. from \in [1..n -> 1..n]  BY <1>1, <3>3
    <3>5. Sorting(from)  BY <1>1, <3>1, <3>2, <3>3
    <3> HIDE DEF Sorting
    <3> QED BY <3>4, <3>5
  <2>2. CASE ~scored
    <3>1. \A i, j : Sorted(rotated, scored, i, j) <=> i < j
      BY <2>2 DEF Sorted
    <3> DEFINE from == [k \in 1..n |-> k]
    <3>2. from \in [1..n -> 1..n] /\ \A k \in 1..n : from[k] = k  OBVIOUS
    <3>3. ranked = rotated  BY <1>2, <2>2
    <3> HIDE DEF from
    <3>4. Sorting(from)  BY <1>1, <3>1, <3>2, <3>3
    <3> HIDE DEF Sorting
    <3> QED BY <3>2, <3>4
  <2> QED BY <2>1, <2>2
<1>4. DOMAIN ranked = 1..n /\ DOMAIN rotated = 1..n  BY <1>1, <1>3
<1>5. IsInjective(ranked)
  <2> SUFFICES ASSUME NEW k \in 1..n, NEW l \in 1..n, ranked[k] = ranked[l]  PROVE k = l
    BY <1>4 DEF IsInjective
  <2>1. from[k] \in 1..n /\ from[l] \in 1..n  OBVIOUS
  <2>2. rotated[from[k]] = rotated[from[l]]  BY <1>3
  <2>3. from[k] = from[l]  BY <1>1, <1>4, <2>1, <2>2 DEF IsInjective
  <2> QED BY <1>3, <2>3
<1>6. ToSet(ranked) = ToSet(rotated)
  <2>1. ToSet(ranked) = {ranked[k] : k \in 1..n} /\ ToSet(rotated) = {rotated[i] : i \in 1..n}
    BY <1>4 DEF ToSet
  <2>2. ASSUME NEW k \in 1..n  PROVE ranked[k] \in ToSet(rotated)
    <3>1. ranked[k] = rotated[from[k]] /\ from[k] \in 1..n  BY <1>3
    <3> QED BY <2>1, <3>1
  <2>3. ASSUME NEW i \in 1..n  PROVE rotated[i] \in ToSet(ranked)
    <3>1. PICK k \in 1..n : from[k] = i  BY <1>3
    <3>2. rotated[i] = ranked[k]  BY <1>3, <3>1
    <3> QED BY <2>1, <3>2
  <2> QED BY <2>1, <2>2, <2>3
<1>7. SortedBy(from, ranked, rotated, scored, n)  BY <1>3 DEF SortedBy
<1>8. ranked \in Seq(D) /\ Len(ranked) = n  BY <1>3
<1> HIDE DEF Sorting
<1> QED BY <1>1, <1>3, <1>5, <1>6, <1>7, <1>8 DEF rotated, ranked, n, scored

\* Where an element is in a list.
Position(s, x) == CHOOSE i \in DOMAIN s : s[i] = x

\* Every pair of providers is in the order the policy promises.
PairSound(order, rotated, scored, p, q) ==
    Position(order, p) < Position(order, q) =>
        \/ IsSticky(p) /\ ~IsSticky(q)
        \/ /\ IsSticky(p) /\ IsSticky(q)
           /\ Position(policy.sticky, p) < Position(policy.sticky, q)
        \/ /\ ~IsSticky(p) /\ ~IsSticky(q)
           /\ scored => ~Higher(ProviderScore(ScoreAggregate(q)),
                                ProviderScore(ScoreAggregate(p)))
           /\ \/ Position(rotated, p) < Position(rotated, q)
              \/ scored /\ Higher(ProviderScore(ScoreAggregate(p)),
                                  ProviderScore(ScoreAggregate(q)))

\* The sticky prefix and the remainder share out the eligible providers.
LEMMA PrefixAndRemainder ==
  ASSUME RankingTypeInv, NEW eligible \in Seq(ToSet(Configured)), IsInjective(eligible)
  PROVE  /\ StickyPrefix(eligible) \in Seq(ToSet(Configured))
         /\ IsInjective(StickyPrefix(eligible))
         /\ Remainder(eligible) \in Seq(ToSet(Configured)) /\ IsInjective(Remainder(eligible))
         /\ ToSet(StickyPrefix(eligible)) = {p \in ToSet(eligible) : IsSticky(p)}
         /\ ToSet(Remainder(eligible)) = {p \in ToSet(eligible) : ~IsSticky(p)}
<1>1. policy.sticky \in Seq(ToSet(Configured)) /\ IsInjective(policy.sticky)
  BY RankingAssumption DEF RankingTypeInv, Policies
<1>2. /\ StickyPrefix(eligible) \in Seq(ToSet(Configured))
      /\ IsInjective(StickyPrefix(eligible))
      /\ ToSet(StickyPrefix(eligible)) = ToSet(policy.sticky) \cap ToSet(eligible)
  BY <1>1, KeptElements, KeptInjective DEF StickyPrefix
<1>3. /\ Remainder(eligible) \in Seq(ToSet(Configured)) /\ IsInjective(Remainder(eligible))
      /\ ToSet(Remainder(eligible))
           = ToSet(eligible) \cap {p \in ToSet(eligible) : ~IsSticky(p)}
  BY KeptElements, KeptInjective DEF Remainder
<1> QED BY <1>2, <1>3 DEF IsSticky

\* StickyRoutingPolicy.order: prefix and ranked remainder, each pair as promised.
LEMMA CallOrder ==
  ASSUME RankingTypeInv, NEW eligible \in Seq(ToSet(Configured)), IsInjective(eligible),
         NEW answered \in BOOLEAN
  PROVE  LET remainder == Remainder(eligible)
             order == StickyPrefix(eligible) \o Ranked(remainder, answered)
         IN  /\ order \in Seq(ToSet(Configured)) /\ IsInjective(order)
             /\ Len(order) = Len(eligible) /\ ToSet(order) = ToSet(eligible)
             /\ \A p, q \in ToSet(eligible) :
                   PairSound(order, Rotated(remainder), policy.ranked /\ answered, p, q)
<1> DEFINE C == ToSet(Configured)
           prefix == StickyPrefix(eligible)
           remainder == Remainder(eligible)
           rotated == Rotated(remainder)
           ranked == Ranked(remainder, answered)
           order == prefix \o ranked
           scored == policy.ranked /\ answered
           m == Len(prefix)
           n == Len(remainder)
<1>1. /\ prefix \in Seq(C) /\ IsInjective(prefix)
      /\ remainder \in Seq(C) /\ IsInjective(remainder)
      /\ ToSet(prefix) = {p \in ToSet(eligible) : IsSticky(p)}
      /\ ToSet(remainder) = {p \in ToSet(eligible) : ~IsSticky(p)}
  BY PrefixAndRemainder
<1>2. /\ rotated \in Seq(C) /\ Len(rotated) = n /\ IsInjective(rotated)
      /\ ranked \in Seq(C) /\ Len(ranked) = n
      /\ IsInjective(ranked) /\ ToSet(ranked) = ToSet(remainder)
      /\ \E f \in [1..n -> 1..n] : SortedBy(f, ranked, rotated, scored, n)
  <2> HIDE DEF remainder, C
  <2> QED BY <1>1, RankedSorts
<1>3. PICK from \in [1..n -> 1..n] : SortedBy(from, ranked, rotated, scored, n)
  BY <1>2
<1> HIDE DEF prefix, remainder, rotated, ranked
<1>4. order \in Seq(C) /\ IsInjective(order) /\ ToSet(order) = ToSet(eligible)
  <2>1. ToSet(prefix) \cap ToSet(ranked) = {}  BY <1>1, <1>2
  <2>2. ToSet(prefix) \cup ToSet(ranked) = ToSet(eligible)  BY <1>1, <1>2
  <2>3. prefix \in Seq(C) /\ IsInjective(prefix) /\ ranked \in Seq(C) /\ IsInjective(ranked)
    BY <1>1, <1>2
  <2> HIDE DEF C
  <2>4. order \in Seq(C)  BY <2>3
  <2>5. IsInjective(prefix \o ranked)
        /\ ToSet(prefix \o ranked) = ToSet(prefix) \cup ToSet(ranked)
    BY <2>1, <2>3, ConcatenationKeeps
  <2> QED BY <2>2, <2>4, <2>5
<1>5. Len(order) = Len(eligible)
  <2>1. Cardinality(ToSet(order)) = Len(order)
    <3> HIDE DEF order, C
    <3> QED BY <1>4, InjectiveCount
  <2>2. Cardinality(ToSet(eligible)) = Len(eligible)  BY InjectiveCount
  <2> QED BY <1>4, <2>1, <2>2
<1>6. /\ m \in Nat /\ n \in Nat /\ DOMAIN prefix = 1..m /\ DOMAIN rotated = 1..n
      /\ DOMAIN order = 1..(m + n)
      /\ \A k \in 1..(m + n) : order[k] = IF k <= m THEN prefix[k] ELSE ranked[k - m]
  <2>1. prefix \in Seq(C) /\ ranked \in Seq(C) /\ Len(ranked) = n /\ n = Len(rotated)
        /\ rotated \in Seq(C) /\ remainder \in Seq(C)
    BY <1>1, <1>2
  <2> HIDE DEF C
  <2>2. m \in Nat /\ n \in Nat /\ DOMAIN prefix = 1..m  BY <2>1
  <2>3. DOMAIN rotated = 1..n
    <3>1. DOMAIN rotated = 1..Len(rotated)  BY <2>1
    <3> QED BY <2>1, <3>1
  <2>4. /\ DOMAIN (prefix \o ranked) = 1..(Len(prefix) + Len(ranked))
        /\ \A k \in 1..(Len(prefix) + Len(ranked)) :
              (prefix \o ranked)[k]
                = IF k <= Len(prefix) THEN prefix[k] ELSE ranked[k - Len(prefix)]
    <3>1. prefix \in Seq(C) /\ ranked \in Seq(C)  BY <2>1
    <3>2. DOMAIN (prefix \o ranked) = 1..(Len(prefix) + Len(ranked))
      BY <3>1, Concatenation
    <3>3. \A k \in 1..(Len(prefix) + Len(ranked)) :
             (prefix \o ranked)[k]
               = IF k <= Len(prefix) THEN prefix[k] ELSE ranked[k - Len(prefix)]
      BY <3>1, Concatenation
    <3> QED BY <3>2, <3>3
  <2>5. Len(ranked) = n  BY <2>1
  <2> HIDE DEF n
  <2> QED BY <2>2, <2>3, <2>4, <2>5
<1>7. ASSUME NEW k \in 1..(m + n)
      PROVE  \/ k <= m /\ IsSticky(order[k])
             \/ k > m /\ k - m \in 1..n /\ ~IsSticky(order[k]) /\ order[k] = ranked[k - m]
  <2>1. CASE k <= m
    <3>1. k \in 1..m /\ order[k] = prefix[k]  BY <1>6, <2>1
    <3>2. order[k] \in ToSet(prefix)  BY <1>6, <3>1 DEF ToSet
    <3> QED BY <1>1, <2>1, <3>2
  <2>2. CASE ~(k <= m)
    <3>1. k > m /\ k - m \in 1..n /\ order[k] = ranked[k - m]  BY <1>6, <2>2
    <3>2. order[k] \in ToSet(ranked)  BY <1>2, <3>1 DEF ToSet
    <3> QED BY <1>1, <1>2, <3>1, <3>2
  <2> QED BY <2>1, <2>2
<1>8. ASSUME NEW p \in ToSet(eligible), NEW q \in ToSet(eligible)
      PROVE  PairSound(order, rotated, scored, p, q)
  <2> DEFINE i == Position(order, p)
             j == Position(order, q)
  <2>1. i \in 1..(m + n) /\ order[i] = p /\ j \in 1..(m + n) /\ order[j] = q
    <3>1. (\E k \in DOMAIN order : order[k] = p) /\ (\E k \in DOMAIN order : order[k] = q)
      <4>1. p \in ToSet(order) /\ q \in ToSet(order)  BY <1>4
      <4> HIDE DEF order
      <4> QED BY <4>1 DEF ToSet
    <3> HIDE DEF order
    <3> QED BY <1>6, <3>1 DEF Position
  <2> HIDE DEF i, j, order
  <2> SUFFICES ASSUME i < j
               PROVE  /\ IsSticky(q) => IsSticky(p)
                      /\ IsSticky(p) /\ IsSticky(q) =>
                           Position(policy.sticky, p) < Position(policy.sticky, q)
                      /\ ~IsSticky(p) =>
                           /\ scored => ~Higher(ProviderScore(ScoreAggregate(q)),
                                                ProviderScore(ScoreAggregate(p)))
                           /\ \/ Position(rotated, p) < Position(rotated, q)
                              \/ scored /\ Higher(ProviderScore(ScoreAggregate(p)),
                                                  ProviderScore(ScoreAggregate(q)))
    BY DEF PairSound, i, j
  <2>2. IsSticky(q) => IsSticky(p)  BY <1>6, <1>7, <2>1
  <2>4. ASSUME IsSticky(p), IsSticky(q)
        PROVE  Position(policy.sticky, p) < Position(policy.sticky, q)
    <3>1. /\ i \in DOMAIN prefix /\ p = prefix[i]
          /\ j \in DOMAIN prefix /\ q = prefix[j]
      <4>1. i \in DOMAIN prefix /\ p = prefix[i]  BY <1>6, <1>7, <2>1, <2>4
      <4>2. j \in DOMAIN prefix /\ q = prefix[j]  BY <1>6, <1>7, <2>1, <2>4
      <4> QED BY <4>1, <4>2
    <3>2. policy.sticky \in Seq(C) /\ IsInjective(policy.sticky)
      BY RankingAssumption DEF RankingTypeInv, Policies
    <3>3. PICK a \in DOMAIN policy.sticky, b \in DOMAIN policy.sticky :
             a < b /\ policy.sticky[a] = p /\ policy.sticky[b] = q
      <4> HIDE DEF C
      <4> QED BY <3>1, <3>2, KeptOrder DEF prefix, StickyPrefix
    <3> DEFINE sticky == policy.sticky
    <3>4. IsInjective(sticky) /\ a \in DOMAIN sticky /\ b \in DOMAIN sticky
          /\ sticky[a] = p /\ sticky[b] = q
      BY <3>2, <3>3
    <3> HIDE DEF sticky
    <3>5. Position(sticky, p) = a /\ Position(sticky, q) = b
      BY <3>4, InjectivePlace DEF Position
    <3> QED BY <3>3, <3>5 DEF sticky
  <2>3. ASSUME ~IsSticky(p)
        PROVE  /\ scored => ~Higher(ProviderScore(ScoreAggregate(q)),
                                    ProviderScore(ScoreAggregate(p)))
               /\ \/ Position(rotated, p) < Position(rotated, q)
                  \/ scored /\ Higher(ProviderScore(ScoreAggregate(p)),
                                      ProviderScore(ScoreAggregate(q)))
    <3> DEFINE a == from[i - m]
               b == from[j - m]
    <3>1. /\ i - m \in 1..n /\ p = ranked[i - m] /\ j - m \in 1..n /\ q = ranked[j - m]
          /\ i - m < j - m
      BY <1>6, <1>7, <2>1, <2>2, <2>3
    <3>2. a \in 1..n /\ b \in 1..n /\ p = rotated[a] /\ q = rotated[b]
          /\ Sorted(rotated, scored, a, b)
      BY <1>3, <3>1 DEF SortedBy
    <3> HIDE DEF a, b
    <3>3. Position(rotated, p) = a /\ Position(rotated, q) = b
      BY <1>2, <1>6, <3>2, InjectivePlace DEF Position
    <3>4. /\ Scores(rotated)[a] = ProviderScore(ScoreAggregate(p))
          /\ Scores(rotated)[b] = ProviderScore(ScoreAggregate(q))
      BY <1>6, <3>2 DEF Scores
    <3>5. CASE ~scored
      BY <3>2, <3>3, <3>5 DEF Sorted
    <3>6. CASE scored
      <4> DEFINE x == Scores(rotated)[a]
                 y == Scores(rotated)[b]
      <4>1. x \in Fractions /\ y \in Fractions
        <5>1. Scores(rotated) \in [1..n -> Fractions]  BY <1>2, ScoresType
        <5> QED BY <3>2, <5>1
      <4>2. Higher(x, y) \/ (~Higher(y, x) /\ a < b)
        BY <3>2, <3>6 DEF Sorted, Precedes
      <4> HIDE DEF x, y
      <4>3. ~Higher(y, x) /\ (a < b \/ Higher(x, y))
        BY <4>1, <4>2, HigherAsymmetric
      <4> QED BY <3>3, <3>4, <3>6, <4>3 DEF x, y
    <3> QED BY <3>5, <3>6
  <2> QED BY <2>2, <2>3, <2>4
<1> QED BY <1>4, <1>5, <1>8 DEF prefix, remainder, rotated, ranked

\* A call is given every eligible provider once, the sticky ones first in their fixed
\* order, the others by score with ties in the order of the rotation.
THEOREM OrderIsSound == RankingSpec => OrderSound
<1> DEFINE elig == last'.eligible
<1>1. ASSUME RankingTypeInv, [RankingNext]_rankingVars, orders' = orders + 1
      PROVE  /\ Len(last'.order) = Len(elig) /\ ToSet(last'.order) = ToSet(elig)
             /\ \A p, q \in ToSet(elig) :
                   PairSound(last'.order, Rotated(Remainder(elig)),
                             policy.ranked /\ last'.answered, p, q)
  <2>1. orders \in Nat  BY <1>1 DEF RankingTypeInv
  <2>2. PICK chosen \in SUBSET ToSet(Configured), answered \in {policy.ranked, FALSE} :
           Orders(Kept(Configured, chosen), answered)
    <3>1. ~(UNCHANGED rankingVars)  BY <1>1, <2>1 DEF rankingVars
    <3>2. ~Ages /\ ~Restarts  BY <1>1, <2>1 DEF Ages, Restarts
    <3>3. ASSUME NEW p, NEW h, Records(NewEvent(p, h))  PROVE FALSE
      BY <1>1, <2>1, <3>3 DEF Records
    <3> QED BY <1>1, <3>1, <3>2, <3>3 DEF RankingNext
  <2>0. answered \in BOOLEAN  BY <1>1 DEF RankingTypeInv, Policies
  <2> DEFINE e == Kept(Configured, chosen)
  <2>3. e \in Seq(ToSet(Configured)) /\ IsInjective(e)  BY KeptConfigured
  <2>4. /\ last'.eligible = e /\ last'.answered = answered
        /\ last'.order = StickyPrefix(e) \o Ranked(Remainder(e), answered)
    BY <2>2 DEF Orders
  <2> HIDE DEF e
  <2> QED BY <1>1, <2>0, <2>3, <2>4, CallOrder
<1>2. RankingTypeInv /\ [RankingNext]_rankingVars =>
         [orders' = orders + 1 =>
            LET order == last'.order
                eligible == last'.eligible
                place(p) == CHOOSE i \in DOMAIN order : order[i] = p
                score(p) == ProviderScore(ScoreAggregate(p))
                rotated == Rotated(Remainder(eligible))
                turn(p) == CHOOSE i \in DOMAIN rotated : rotated[i] = p
                fixed(p) == CHOOSE i \in DOMAIN policy.sticky : policy.sticky[i] = p
                scored == policy.ranked /\ last'.answered
            IN  /\ Len(order) = Len(eligible) /\ ToSet(order) = ToSet(eligible)
                /\ \A p, q \in ToSet(eligible) :
                       place(p) < place(q) =>
                           \/ IsSticky(p) /\ ~IsSticky(q)
                           \/ IsSticky(p) /\ IsSticky(q) /\ fixed(p) < fixed(q)
                           \/ /\ ~IsSticky(p) /\ ~IsSticky(q)
                              /\ scored => ~Higher(score(q), score(p))
                              /\ turn(p) < turn(q) \/ (scored /\ Higher(score(p), score(q)))
         ]_rankingVars
  BY <1>1, Zenon DEF PairSound, Position
<1> QED BY <1>2, RankingTypes, PTL DEF RankingSpec, OrderSound
=============================================================================
