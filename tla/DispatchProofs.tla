--------------------------- MODULE DispatchProofs ---------------------------
(***************************************************************************)
(* Proofs about Dispatch and the RateLimiter inside it, for any principals,*)
(* any limit, any window and any order of calls.                           *)
(***************************************************************************)
EXTENDS Dispatch, FiniteSetTheorems, SequenceTheorems, WellFoundedInduction, TLAPS

(***************************************************************************)
(* What popping from the left leaves of a deque.                           *)
(***************************************************************************)
Time == 0..MaxClock

LEMMA Suffix ==
  ASSUME NEW q \in Seq(Time), NEW k \in 0..Len(q)
  PROVE  /\ SubSeq(q, k + 1, Len(q)) \in Seq(Time)
         /\ Len(SubSeq(q, k + 1, Len(q))) = Len(q) - k
         /\ \A i \in 1..(Len(q) - k) : SubSeq(q, k + 1, Len(q))[i] = q[k + i]
<1>1. Len(q) \in Nat /\ k + 1 \in Int
  BY LenProperties
<1>2. \A i \in (k + 1)..Len(q) : q[i] \in Time
  BY <1>1, ElementOfSeq
<1>3. /\ SubSeq(q, k + 1, Len(q)) \in Seq(Time)
      /\ Len(SubSeq(q, k + 1, Len(q)))
           = IF k + 1 <= Len(q) THEN Len(q) - (k + 1) + 1 ELSE 0
      /\ \A i \in 1..(Len(q) - (k + 1) + 1) :
           SubSeq(q, k + 1, Len(q))[i] = q[(k + 1) + i - 1]
  BY <1>1, <1>2, SubSeqProperties
<1>4. \A i \in 1..(Len(q) - k) : (k + 1) + i - 1 = k + i
  BY <1>1
<1>5. QED
  BY <1>1, <1>3, <1>4

LEMMA LeastElement ==
  ASSUME NEW T \in SUBSET Nat, T # {}
  PROVE  \E k \in T : \A m \in T : k <= m
<1>1. PICK k \in T : \A m \in T : ~(<<m, k>> \in OpToRel(<, Nat))
  BY NatLessThanWellFounded, WFMin
<1>2. \A m \in T : ~(m < k)
  BY <1>1 DEF OpToRel
<1>3. QED
  BY <1>2

(* The number popped that Purged chooses exists: some prefix of the deque  *)
(* has expired and the event behind it, if there is one, has not.          *)
LEMMA PurgedSuffix ==
  ASSUME NEW q \in Seq(Time)
  PROVE  \E k \in 0..Len(q) :
           /\ Limiter!Purged(q) = SubSeq(q, k + 1, Len(q))
           /\ \A i \in 1..k : Limiter!Expired(q[i])
           /\ k < Len(q) => ~Limiter!Expired(q[k + 1])
<1> DEFINE Stops(k) == k < Len(q) => ~Limiter!Expired(q[k + 1])
<1> DEFINE Popped(k) == (\A i \in 1..k : Limiter!Expired(q[i])) /\ Stops(k)
<1>1. \E k \in 0..Len(q) : Popped(k)
  <2> DEFINE Stop == {k \in 0..Len(q) : Stops(k)}
  <2>1. Len(q) \in Nat /\ Len(q) \in Stop /\ Stop \subseteq Nat
    OBVIOUS
  <2>2. PICK k \in Stop : \A m \in Stop : k <= m
    <3> HIDE DEF Stop
    <3>1. QED
      BY <2>1, LeastElement
  <2>3. ASSUME NEW i \in 1..k PROVE Limiter!Expired(q[i])
    <3>1. /\ k \in 0..Len(q) /\ i - 1 \in 0..Len(q) /\ ~(k <= i - 1)
          /\ i - 1 < Len(q) /\ (i - 1) + 1 = i
      BY <2>1, <2>2
    <3>2. i - 1 \notin Stop
      BY <2>2, <3>1
    <3>3. QED
      BY <3>1, <3>2
  <2>4. QED
    BY <2>2, <2>3
<1>2. LET c == CHOOSE k \in 0..Len(q) : Popped(k)
      IN  c \in 0..Len(q) /\ Popped(c) /\ Limiter!Purged(q) = SubSeq(q, c + 1, Len(q))
  BY <1>1 DEF Limiter!Purged
<1>3. QED
  BY <1>2
LEMMA PurgedType ==
  ASSUME NEW q \in Seq(Time)
  PROVE  /\ Limiter!Purged(q) \in Seq(Time)
         /\ Len(Limiter!Purged(q)) \in Nat
         /\ clock \in Time => Append(Limiter!Purged(q), clock) \in Seq(Time)
<1>1. PICK k \in 0..Len(q) : Limiter!Purged(q) = SubSeq(q, k + 1, Len(q))
  BY PurgedSuffix
<1>2. Limiter!Purged(q) \in Seq(Time)
  BY <1>1, Suffix
<1>3. QED
  BY <1>2, AppendProperties, LenProperties

-----------------------------------------------------------------------------
(***************************************************************************)
(* The inductive invariant of the limiter: a deque is what is left of the  *)
(* principal's admissions once a prefix that has expired is dropped.       *)
(* Here a is the sequence of all admissions and e the deque.               *)
(***************************************************************************)
LeftOf(a, e) ==
  /\ Len(e) <= Len(a)
  /\ \A i \in 1..Len(e) : e[i] = a[(Len(a) - Len(e)) + i]
  /\ \A i \in 1..(Len(a) - Len(e)) : Limiter!Expired(a[i])

InOrder(a) ==
  /\ \A i, j \in 1..Len(a) : i <= j => a[i] <= a[j]
  /\ \A i \in 1..Len(a) : a[i] <= clock

DequesRight ==
  \A p \in Principal : LeftOf(admitted[p], events[p]) /\ InOrder(admitted[p])

(* A suffix of a deque is a suffix of the admissions.                      *)
LEMMA SuffixOfSuffix ==
  ASSUME NEW a \in Seq(Time), NEW e \in Seq(Time), NEW f \in Nat,
         NEW k \in 0..Len(e), f + Len(e) = Len(a),
         \A i \in 1..Len(e) : e[i] = a[f + i]
  PROVE  SubSeq(e, k + 1, Len(e)) = SubSeq(a, (f + k) + 1, Len(a))
<1> DEFINE r == SubSeq(e, k + 1, Len(e))
           s == SubSeq(a, (f + k) + 1, Len(a))
<1>1. Len(a) \in Nat /\ Len(e) \in Nat
  BY LenProperties
<1>2. f + k \in 0..Len(a) /\ Len(a) - (f + k) = Len(e) - k
  BY <1>1
<1>3. /\ r \in Seq(Time) /\ Len(r) = Len(e) - k
      /\ \A i \in 1..(Len(e) - k) : r[i] = e[k + i]
  BY Suffix
<1>4. /\ s \in Seq(Time) /\ Len(s) = Len(a) - (f + k)
      /\ \A i \in 1..(Len(a) - (f + k)) : s[i] = a[(f + k) + i]
  BY <1>2, Suffix
<1>5. ASSUME NEW i \in 1..Len(r) PROVE r[i] = s[i]
  <2>1. /\ i \in 1..(Len(e) - k) /\ k + i \in 1..Len(e)
        /\ f + (k + i) = (f + k) + i
    BY <1>1, <1>3
  <2>2. e[k + i] = a[f + (k + i)]
    BY <2>1
  <2>3. r[i] = e[k + i] /\ s[i] = a[(f + k) + i]
    BY <1>2, <1>3, <1>4, <2>1
  <2>4. QED
    BY <2>1, <2>2, <2>3
<1>6. QED
  BY <1>2, <1>3, <1>4, <1>5, SeqEqual

(* What is admitted after a call that has not expired has not expired.     *)
LEMMA LaterIsKept ==
  ASSUME NEW x \in Time, NEW y \in Time, clock \in Time,
         y <= x, ~Limiter!Expired(y)
  PROVE  ~Limiter!Expired(x)
<1>1. Window \in Nat /\ x \in Nat /\ y \in Nat /\ clock \in Nat
  BY LimiterAssumption DEF Time
<1>2. QED
  BY <1>1 DEF Limiter!Expired

(* What a check keeps is the part of the admissions that has not expired:  *)
(* they are in the order of time, so that the first event that has not     *)
(* expired is followed by none that has.                                   *)
LEMMA KeptAreRecent ==
  ASSUME NEW a \in Seq(Time), NEW e \in Seq(Time), clock \in Time,
         LeftOf(a, e), InOrder(a)
  PROVE  \E d \in 0..Len(a) :
           /\ Limiter!Purged(e) = SubSeq(a, d + 1, Len(a))
           /\ \A i \in 1..d : Limiter!Expired(a[i])
           /\ \A i \in (d + 1)..Len(a) : ~Limiter!Expired(a[i])
<1>1. PICK k \in 0..Len(e) :
        /\ Limiter!Purged(e) = SubSeq(e, k + 1, Len(e))
        /\ \A i \in 1..k : Limiter!Expired(e[i])
        /\ k < Len(e) => ~Limiter!Expired(e[k + 1])
  BY PurgedSuffix
<1>2. Len(a) \in Nat /\ Len(e) \in Nat
  BY LenProperties
<1>3. PICK f \in Nat : f = Len(a) - Len(e)
  BY <1>2 DEF LeftOf
<1>4. /\ f + Len(e) = Len(a) /\ f + k \in 0..Len(a)
      /\ \A i \in 1..Len(e) : e[i] = a[f + i]
      /\ \A i \in 1..f : Limiter!Expired(a[i])
  BY <1>2, <1>3 DEF LeftOf
<1>5. Limiter!Purged(e) = SubSeq(a, (f + k) + 1, Len(a))
  BY <1>1, <1>4, SuffixOfSuffix
<1>6. ASSUME NEW i \in 1..(f + k) PROVE Limiter!Expired(a[i])
  <2>1. CASE i \in 1..f
    BY <1>4, <2>1
  <2>2. CASE i \notin 1..f
    <3>1. i - f \in 1..k /\ i - f \in 1..Len(e) /\ f + (i - f) = i
      BY <1>2, <2>2
    <3>2. e[i - f] = a[i]
      BY <1>4, <3>1
    <3>3. QED
      BY <1>1, <3>1, <3>2
  <2>3. QED
    BY <2>1, <2>2
<1>7. ASSUME NEW i \in ((f + k) + 1)..Len(a) PROVE ~Limiter!Expired(a[i])
  <2>1. /\ k < Len(e) /\ k + 1 \in 1..Len(e) /\ f + (k + 1) \in 1..Len(a)
        /\ i \in 1..Len(a) /\ f + (k + 1) <= i
    BY <1>2, <1>4
  <2>2. e[k + 1] = a[f + (k + 1)] /\ a[f + (k + 1)] <= a[i]
    BY <1>4, <2>1 DEF InOrder
  <2>3. ~Limiter!Expired(a[f + (k + 1)])
    BY <1>1, <2>1, <2>2
  <2>4. a[i] \in Time /\ a[f + (k + 1)] \in Time
    <3>1. \A j \in 1..Len(a) : a[j] \in Time
      BY ElementOfSeq
    <3>2. QED
      BY <2>1, <3>1
  <2>5. QED
    BY <2>2, <2>3, <2>4, LaterIsKept
<1>8. QED
  BY <1>4, <1>5, <1>6, <1>7

LEMMA SameCardinality ==
  ASSUME NEW S
  PROVE  History!Cardinality(S) = Cardinality(S)
BY DEF History!Cardinality, Cardinality

(* The limiter counts what the whole history of admissions would.          *)
LEMMA RecentIsKept ==
  ASSUME NEW p \in Principal, LeftOf(admitted[p], events[p]), InOrder(admitted[p]),
         admitted[p] \in Seq(Time), events[p] \in Seq(Time), clock \in Time
  PROVE  History!Recent(p) = Len(Limiter!Purged(events[p]))
<1>1. PICK a \in Seq(Time) : a = admitted[p]
  OBVIOUS
<1>2. PICK d \in 0..Len(a) :
        /\ Limiter!Purged(events[p]) = SubSeq(a, d + 1, Len(a))
        /\ \A i \in 1..d : Limiter!Expired(a[i])
        /\ \A i \in (d + 1)..Len(a) : ~Limiter!Expired(a[i])
  BY <1>1, KeptAreRecent
<1>3. Len(a) \in Nat /\ d \in Nat /\ d <= Len(a) /\ DOMAIN a = 1..Len(a)
  BY LenProperties
<1>4. ASSUME NEW i \in 1..Len(a)
      PROVE  a[i] + Window >= clock <=> i \in (d + 1)..Len(a)
  <2>1. a[i] \in Time
    BY ElementOfSeq
  <2>2. i \in (d + 1)..Len(a) <=> i \notin 1..d
    BY <1>3
  <2>3. i \in (d + 1)..Len(a) <=> ~Limiter!Expired(a[i])
    BY <1>2, <2>2
  <2>4. QED
    BY <2>1, <2>3, LimiterAssumption DEF Limiter!Expired, Time
<1>5. {i \in DOMAIN a : a[i] + Window >= clock} = (d + 1)..Len(a)
  <2>1. (d + 1)..Len(a) \subseteq 1..Len(a)
    BY <1>3
  <2>2. QED
    BY <1>3, <1>4, <2>1
<1>6. Cardinality((d + 1)..Len(a)) = Len(a) - d
  <2>1. d + 1 \in Int /\ Len(a) \in Int
    BY <1>3
  <2>2. Cardinality((d + 1)..Len(a))
          = IF d + 1 > Len(a) THEN 0 ELSE Len(a) - (d + 1) + 1
    BY <2>1, FS_Interval
  <2>3. QED
    BY <1>3, <2>2
<1>7. History!Recent(p) = Cardinality((d + 1)..Len(a))
  BY <1>1, <1>5, SameCardinality DEF History!Recent
<1>8. Len(SubSeq(a, d + 1, Len(a))) = Len(a) - d
  BY Suffix
<1>9. QED
  BY <1>2, <1>6, <1>7, <1>8

-----------------------------------------------------------------------------
(***************************************************************************)
(* The limiter's own steps.                                                *)
(***************************************************************************)
LEMMA LimiterTypes ==
  Limiter!TypeOK =>
    /\ clock \in Time
    /\ \A p \in Principal : events[p] \in Seq(Time) /\ admitted[p] \in Seq(Time)
BY DEF Limiter!TypeOK, Time

LEMMA LimiterTypeStep ==
  ASSUME Limiter!TypeOK, [Limiter!Next]_(Limiter!vars)
  PROVE  Limiter!TypeOK'
<1> USE LimiterAssumption DEF Limiter!TypeOK
<1>1. ASSUME Limiter!Tick PROVE Limiter!TypeOK'
  BY <1>1 DEF Limiter!Tick
<1>2. ASSUME NEW p \in Principal, Limiter!Refuse(p) PROVE Limiter!TypeOK'
  <2>1. Limiter!Purged(events[p]) \in Seq(Time)
    BY LimiterTypes, PurgedType
  <2>2. QED
    BY <1>2, <2>1 DEF Limiter!Refuse, Time
<1>3. ASSUME NEW p \in Principal, Limiter!Admit(p) PROVE Limiter!TypeOK'
  <2>1. /\ Append(Limiter!Purged(events[p]), clock) \in Seq(Time)
        /\ Append(admitted[p], clock) \in Seq(Time)
    BY LimiterTypes, PurgedType, AppendProperties
  <2>2. QED
    BY <1>3, <2>1 DEF Limiter!Admit, Time
<1>4. CASE UNCHANGED Limiter!vars
  BY <1>4 DEF Limiter!vars
<1>5. QED
  BY <1>1, <1>2, <1>3, <1>4 DEF Limiter!Next

(* Time only makes more events expire, and keeps the admissions behind it. *)
LEMMA TickKeeps ==
  ASSUME NEW a \in Seq(Time), NEW e \in Seq(Time), clock \in Time,
         clock' = clock + 1, LeftOf(a, e), InOrder(a)
  PROVE  LeftOf(a, e)' /\ InOrder(a)'
<1>1. \A i \in 1..Len(a) : a[i] \in Nat /\ a[i] <= clock'
  <2>1. ASSUME NEW i \in 1..Len(a) PROVE a[i] \in Nat /\ a[i] <= clock'
    <3>1. a[i] \in Time /\ a[i] <= clock
      BY ElementOfSeq DEF InOrder
    <3>2. QED
      BY <3>1, LimiterAssumption DEF Time
  <2>2. QED
    BY <2>1
<1>2. ASSUME NEW i \in 1..(Len(a) - Len(e)) PROVE Limiter!Expired(a[i])'
  <2>1. Len(a) \in Nat /\ Len(e) \in Nat
    BY LenProperties
  <2>2. i \in 1..Len(a)
    BY <2>1
  <2>3. Limiter!Expired(a[i]) /\ a[i] \in Nat
    BY <1>1, <2>2 DEF LeftOf
  <2>4. QED
    BY <2>3, LimiterAssumption DEF Limiter!Expired, Time
<1>3. QED
  BY <1>1, <1>2 DEF LeftOf, InOrder

(* Dropping the expired prefix keeps the deque right.                      *)
LEMMA RefuseKeeps ==
  ASSUME NEW a \in Seq(Time), NEW e \in Seq(Time), clock \in Time,
         LeftOf(a, e), InOrder(a)
  PROVE  LeftOf(a, Limiter!Purged(e))
<1>1. PICK d \in 0..Len(a) :
        /\ Limiter!Purged(e) = SubSeq(a, d + 1, Len(a))
        /\ \A i \in 1..d : Limiter!Expired(a[i])
  BY KeptAreRecent
<1>2. Len(a) \in Nat /\ d \in Nat
  BY LenProperties
<1>3. PICK r \in Seq(Time) : r = SubSeq(a, d + 1, Len(a))
  BY Suffix
<1>4. Len(r) = Len(a) - d /\ \A i \in 1..(Len(a) - d) : r[i] = a[d + i]
  BY <1>3, Suffix
<1>5. Len(r) <= Len(a) /\ Len(a) - Len(r) = d
  BY <1>2, <1>4
<1>6. LeftOf(a, r)
  BY <1>1, <1>4, <1>5 DEF LeftOf
<1>7. QED
  BY <1>1, <1>3, <1>6

(* Recording an admission at its end keeps it right, and in order.         *)
LEMMA AdmitKeeps ==
  ASSUME NEW a \in Seq(Time), NEW e \in Seq(Time), clock \in Time,
         LeftOf(a, e), InOrder(a)
  PROVE  LeftOf(Append(a, clock), Append(e, clock)) /\ InOrder(Append(a, clock))
<1> DEFINE b == Append(a, clock)
           f == Append(e, clock)
<1>1. Len(a) \in Nat /\ Len(e) \in Nat
  BY LenProperties
<1>2. /\ Len(b) = Len(a) + 1 /\ b[Len(a) + 1] = clock
      /\ \A i \in 1..Len(a) : b[i] = a[i]
  BY AppendProperties
<1>3. /\ Len(f) = Len(e) + 1 /\ f[Len(e) + 1] = clock
      /\ \A i \in 1..Len(e) : f[i] = e[i]
  BY AppendProperties
<1> HIDE DEF b, f
<1>4. ASSUME NEW i \in 1..Len(f) PROVE f[i] = b[(Len(b) - Len(f)) + i]
  <2>1. CASE i \in 1..Len(e)
    <3>1. /\ (Len(b) - Len(f)) + i = (Len(a) - Len(e)) + i
          /\ (Len(a) - Len(e)) + i \in 1..Len(a)
      BY <1>1, <1>2, <1>3, <2>1 DEF LeftOf
    <3>2. e[i] = a[(Len(a) - Len(e)) + i]
      BY <2>1 DEF LeftOf
    <3>3. QED
      BY <1>2, <1>3, <2>1, <3>1, <3>2
  <2>2. CASE i \notin 1..Len(e)
    <3>1. i = Len(e) + 1 /\ (Len(b) - Len(f)) + i = Len(a) + 1
      BY <1>1, <1>2, <1>3, <2>2
    <3>2. QED
      BY <1>2, <1>3, <3>1
  <2>3. QED
    BY <2>1, <2>2
<1>5. ASSUME NEW i \in 1..(Len(b) - Len(f)) PROVE Limiter!Expired(b[i])
  <2>1. i \in 1..(Len(a) - Len(e)) /\ i \in 1..Len(a)
    BY <1>1, <1>2, <1>3
  <2>2. QED
    BY <1>2, <2>1 DEF LeftOf
<1>6. LeftOf(b, f)
  <2>1. Len(f) <= Len(b)
    BY <1>1, <1>2, <1>3 DEF LeftOf
  <2>2. QED
    BY <1>4, <1>5, <2>1 DEF LeftOf
<1>7. \A i \in 1..Len(b) : i \in 1..Len(a) \/ i = Len(a) + 1
  BY <1>1, <1>2
<1>8. ASSUME NEW i \in 1..Len(b) PROVE b[i] <= clock
  <2>1. clock <= clock
    BY LimiterAssumption DEF Time
  <2>2. CASE i = Len(a) + 1
    BY <1>2, <2>1, <2>2
  <2>3. CASE i \in 1..Len(a)
    BY <1>2, <2>3 DEF InOrder
  <2>4. QED
    BY <1>7, <2>2, <2>3
<1>9. ASSUME NEW i \in 1..Len(b), NEW j \in 1..Len(b), i <= j
      PROVE  b[i] <= b[j]
  <2>1. CASE j = Len(a) + 1
    BY <1>2, <1>8, <2>1
  <2>2. CASE j \in 1..Len(a)
    <3>1. i \in 1..Len(a)
      BY <1>1, <1>9, <2>2
    <3>2. QED
      BY <1>2, <1>9, <2>2, <3>1 DEF InOrder
  <2>3. QED
    BY <1>7, <2>1, <2>2
<1>10. QED
  BY <1>6, <1>8, <1>9 DEF InOrder, b, f

(* The limiter's deques stay right, whatever it is asked.                  *)
LEMMA LimiterStep ==
  ASSUME Limiter!TypeOK, DequesRight, [Limiter!Next]_(Limiter!vars)
  PROVE  DequesRight'
<1> SUFFICES ASSUME NEW q \in Principal
             PROVE  LeftOf(admitted[q], events[q])' /\ InOrder(admitted[q])'
  BY DEF DequesRight
<1>1. PICK a \in Seq(Time), e \in Seq(Time) : a = admitted[q] /\ e = events[q]
  BY LimiterTypes
<1>2. clock \in Time /\ LeftOf(a, e) /\ InOrder(a)
  BY <1>1, LimiterTypes DEF DequesRight
<1>a. ASSUME admitted'[q] = a, events'[q] = e, clock' = clock
      PROVE  LeftOf(admitted[q], events[q])' /\ InOrder(admitted[q])'
  BY <1>2, <1>a DEF LeftOf, InOrder, Limiter!Expired
<1>3. ASSUME Limiter!Tick
      PROVE  LeftOf(admitted[q], events[q])' /\ InOrder(admitted[q])'
  <2>1. LeftOf(a, e)' /\ InOrder(a)'
    BY <1>2, <1>3, TickKeeps DEF Limiter!Tick
  <2>2. admitted'[q] = a /\ events'[q] = e
    BY <1>1, <1>3 DEF Limiter!Tick
  <2>3. QED
    BY <2>1, <2>2 DEF LeftOf, InOrder
<1>4. ASSUME NEW p \in Principal, Limiter!Refuse(p)
      PROVE  LeftOf(admitted[q], events[q])' /\ InOrder(admitted[q])'
  <2>1. CASE p # q
    <3>1. admitted'[q] = a /\ events'[q] = e /\ clock' = clock
      BY <1>1, <1>4, <2>1 DEF Limiter!Refuse, Limiter!TypeOK
    <3>2. QED
      BY <1>a, <3>1
  <2>2. CASE p = q
    <3>1. admitted'[q] = a /\ events'[q] = Limiter!Purged(e) /\ clock' = clock
      BY <1>1, <1>4, <2>2 DEF Limiter!Refuse, Limiter!TypeOK
    <3>2. LeftOf(a, Limiter!Purged(e)) /\ InOrder(a)
      BY <1>2, RefuseKeeps
    <3>3. QED
      BY <3>1, <3>2 DEF LeftOf, InOrder, Limiter!Expired
  <2>3. QED
    BY <2>1, <2>2
<1>5. ASSUME NEW p \in Principal, Limiter!Admit(p)
      PROVE  LeftOf(admitted[q], events[q])' /\ InOrder(admitted[q])'
  <2>1. CASE p # q
    <3>1. admitted'[q] = a /\ events'[q] = e /\ clock' = clock
      BY <1>1, <1>5, <2>1 DEF Limiter!Admit, Limiter!TypeOK
    <3>2. QED
      BY <1>a, <3>1
  <2>2. CASE p = q
    <3>1. /\ admitted'[q] = Append(a, clock) /\ clock' = clock
          /\ events'[q] = Append(Limiter!Purged(e), clock)
      BY <1>1, <1>5, <2>2 DEF Limiter!Admit, Limiter!TypeOK
    <3>2. Limiter!Purged(e) \in Seq(Time) /\ LeftOf(a, Limiter!Purged(e))
      BY <1>2, RefuseKeeps, PurgedType
    <3>3. /\ LeftOf(Append(a, clock), Append(Limiter!Purged(e), clock))
          /\ InOrder(Append(a, clock))
      BY <1>2, <3>2, AdmitKeeps
    <3>4. QED
      BY <3>1, <3>3 DEF LeftOf, InOrder, Limiter!Expired
  <2>3. QED
    BY <2>1, <2>2
<1>6. CASE UNCHANGED Limiter!vars
  BY <1>1, <1>6, <1>a DEF Limiter!vars
<1>7. QED
  BY <1>3, <1>4, <1>5, <1>6 DEF Limiter!Next

-----------------------------------------------------------------------------
(***************************************************************************)
(* The pipeline around the limiter.                                        *)
(***************************************************************************)

(* Every step of a call is a step of the limiter, or leaves it alone.      *)
LEMMA PipelineLimiter == TypeOK /\ [Next]_vars => [Limiter!Next]_(Limiter!vars)
<1> SUFFICES ASSUME TypeOK, [Next]_vars PROVE [Limiter!Next]_(Limiter!vars)
  OBVIOUS
<1>1. CASE Tick
  BY <1>1 DEF Tick, Limiter!Next
<1>2. CASE RateLimited
  BY <1>2 DEF RateLimited, Limiter!Next, TypeOK, Calls
<1>3. CASE Checked
  BY <1>3 DEF Checked, Limiter!Next, TypeOK, Calls
<1>4. CASE UNCHANGED limiter
  BY <1>4 DEF limiter, Limiter!vars
<1>5. QED
  BY <1>1, <1>2, <1>3, <1>4
  DEF Next, vars, limiter, NextCall, Unauthenticated, Lookup, HandlerReturns,
      HandlerRaises, Answer, AnswerUnrecorded, AnswerUnknownTool, AnswerError,
      AnswerRaises

LEMMA TypeStep == TypeOK /\ [Next]_vars => TypeOK'
<1> SUFFICES ASSUME TypeOK, [Next]_vars PROVE TypeOK'
  OBVIOUS
<1>1. Limiter!TypeOK'
  BY PipelineLimiter, LimiterTypeStep DEF TypeOK
<1>2. /\ call' \in Calls
      /\ stage' \in {"new", "lookup", "handler", "succeeded", "raised", "ended"}
      /\ error' \in Errors \cup {"none"}
      /\ effect' \in BOOLEAN
      /\ entry' \in {"none", "success", "failure"}
      /\ reply' \in {"none", "result", "error", "exception"}
  <2> USE DEF TypeOK, Errors, Refusals, Goes, Raise, Record
  <2>1. CASE Tick
    BY <2>1 DEF Tick
  <2>2. CASE NextCall
    BY <2>2 DEF NextCall
  <2>3. CASE Unauthenticated
    BY <2>3 DEF Unauthenticated
  <2>4. CASE RateLimited
    BY <2>4 DEF RateLimited
  <2>5. CASE Checked
    BY <2>5 DEF Checked
  <2>6. CASE Lookup
    BY <2>6 DEF Lookup
  <2>7. CASE HandlerReturns
    BY <2>7 DEF HandlerReturns
  <2>8. CASE HandlerRaises
    BY <2>8 DEF HandlerRaises
  <2>9. CASE Answer
    BY <2>9 DEF Answer
  <2>10. CASE AnswerUnrecorded
    BY <2>10 DEF AnswerUnrecorded
  <2>11. CASE AnswerUnknownTool
    BY <2>11 DEF AnswerUnknownTool
  <2>12. CASE AnswerError
    BY <2>12 DEF AnswerError
  <2>13. CASE AnswerRaises
    BY <2>13 DEF AnswerRaises
  <2>14. CASE UNCHANGED vars
    BY <2>14 DEF vars
  <2>15. QED
    BY <2>1, <2>2, <2>3, <2>4, <2>5, <2>6, <2>7, <2>8, <2>9, <2>10, <2>11,
       <2>12, <2>13, <2>14 DEF Next
<1>3. QED
  BY <1>1, <1>2 DEF TypeOK

(* Every variable keeps its type, the limiter's deques included.           *)
THEOREM TypeCorrect == Spec => []TypeOK
<1>1. Init => TypeOK
  <2> SUFFICES ASSUME Init PROVE TypeOK
    OBVIOUS
  <2>1. <<>> \in Seq(0..MaxClock)
    BY EmptySeq
  <2>2. Limiter!TypeOK
    BY <2>1, LimiterAssumption DEF Init, Limiter!Init, Limiter!TypeOK
  <2>3. QED
    BY <2>2 DEF Init, TypeOK, Errors
<1>2. QED
  BY <1>1, TypeStep, PTL DEF Spec

(* Each deque stays a suffix of its principal's admissions, and what it    *)
(* dropped has expired: no admission still in the window is missing from   *)
(* it.  Expired ones may still be in it until the principal's next call    *)
(* (rate_limit.py, the purge at the start of check).                       *)
THEOREM DequesStayRight == Spec => []DequesRight
<1>1. Init => DequesRight
  <2> SUFFICES ASSUME Init, NEW p \in Principal
               PROVE  LeftOf(admitted[p], events[p]) /\ InOrder(admitted[p])
    BY DEF DequesRight
  <2>1. admitted[p] = <<>> /\ events[p] = <<>> /\ Len(<<>>) = 0
    BY EmptySeq DEF Init, Limiter!Init
  <2>2. QED
    BY <2>1 DEF LeftOf, InOrder
<1>2. TypeOK /\ DequesRight /\ [Next]_vars => DequesRight'
  BY PipelineLimiter, LimiterStep DEF TypeOK
<1>3. QED
  BY <1>1, <1>2, TypeCorrect, PTL DEF Spec

(* The limiter that forgets implements the one that remembers every        *)
(* admission: its answers are those of the whole history, for any window.  *)
THEOREM LimiterDecidesByHistory == Spec => DecidesByHistory
<1>1. Init => History!Init
  BY DEF Init, Limiter!Init, History!Init
<1>2. TypeOK /\ DequesRight /\ [Next]_vars => [History!Next]_(History!vars)
  <2> SUFFICES ASSUME TypeOK, DequesRight, [Limiter!Next]_(Limiter!vars)
               PROVE  [History!Next]_(History!vars)
    BY PipelineLimiter
  <2>1. ASSUME NEW p \in Principal
        PROVE  History!Recent(p) = Len(Limiter!Purged(events[p]))
    BY LimiterTypes, RecentIsKept DEF TypeOK, DequesRight
  <2>2. CASE Limiter!Tick
    BY <2>2 DEF Limiter!Tick, History!Tick, History!Next
  <2>3. ASSUME NEW p \in Principal, Limiter!Refuse(p)
        PROVE  History!Refuse(p)
    BY <2>1, <2>3 DEF Limiter!Refuse, History!Refuse
  <2>4. ASSUME NEW p \in Principal, Limiter!Admit(p)
        PROVE  History!Admit(p)
    BY <2>1, <2>4 DEF Limiter!Admit, History!Admit
  <2>5. CASE UNCHANGED Limiter!vars
    BY <2>5 DEF Limiter!vars, History!vars
  <2>6. QED
    BY <2>2, <2>3, <2>4, <2>5 DEF Limiter!Next, History!Next
<1>3. QED
  BY <1>1, <1>2, TypeCorrect, DequesStayRight, PTL
  DEF Spec, DecidesByHistory, History!Safety

-----------------------------------------------------------------------------
(***************************************************************************)
(* One call.  Checks are passed before anything happens, the handler is    *)
(* the only step that has an effect, and the entry and the reply come last.*)
(***************************************************************************)
Passed == /\ call.authentic /\ call.allowed /\ call.permitted
          /\ call.dangerous /\ RequireConfirm => call.confirmed
          /\ decision[call.principal] = "admitted"

CallRight ==
  /\ stage = "new" => error = "none"
  /\ stage \in {"new", "lookup", "handler"} => ~effect
  /\ stage \in {"lookup", "handler", "succeeded"} => Passed /\ error = "none"
  /\ stage \in {"handler", "succeeded"} => call.known
  /\ effect => Passed /\ call.known /\ error \notin Refusals
  /\ stage # "ended" => entry = "none" /\ reply = "none"

(* The checks come before the effect, and the effect before the answer.    *)
LEMMA CallStep ==
  TypeOK /\ CallRight /\ AuditAgreesWithReply /\ [Next]_vars
    => CallRight' /\ AuditAgreesWithReply'
<1> SUFFICES ASSUME TypeOK, CallRight, AuditAgreesWithReply, [Next]_vars
             PROVE  CallRight' /\ AuditAgreesWithReply'
  OBVIOUS
<1>0. /\ call.principal \in Principal /\ call.authentic \in BOOLEAN
      /\ call.allowed \in BOOLEAN /\ call.permitted \in BOOLEAN
      /\ call.dangerous \in BOOLEAN /\ call.confirmed \in BOOLEAN
      /\ call.known \in BOOLEAN /\ effect \in BOOLEAN
      /\ DOMAIN decision = Principal
  BY DEF TypeOK, Calls, Limiter!TypeOK
<1> USE <1>0, DispatchAssumption
    DEF CallRight, Passed, AuditAgreesWithReply, Refusals, Goes, Raise, Record, limiter
<1>1. CASE Tick
  BY <1>1 DEF Tick, Limiter!Tick
<1>2. CASE NextCall
  BY <1>2 DEF NextCall
<1>3. CASE Unauthenticated
  BY <1>3 DEF Unauthenticated
<1>4. CASE RateLimited
  BY <1>4 DEF RateLimited
<1>5. CASE Checked
  <2>1. decision'[call.principal] = "admitted"
    BY <1>5 DEF Checked, Limiter!Admit, TypeOK, Limiter!TypeOK
  <2>2. QED
    BY <1>5, <2>1 DEF Checked, NeedsConfirm
<1>6. CASE Lookup
  BY <1>6 DEF Lookup
<1>7. CASE HandlerReturns
  BY <1>7 DEF HandlerReturns
<1>8. CASE HandlerRaises
  BY <1>8 DEF HandlerRaises
<1>9. CASE Answer
  BY <1>9 DEF Answer
<1>10. CASE AnswerUnrecorded
  BY <1>10 DEF AnswerUnrecorded
<1>11. CASE AnswerUnknownTool
  BY <1>11 DEF AnswerUnknownTool
<1>12. CASE AnswerError
  BY <1>12 DEF AnswerError
<1>13. CASE AnswerRaises
  BY <1>13 DEF AnswerRaises
<1>14. CASE UNCHANGED vars
  BY <1>14 DEF vars
<1>15. QED
  BY <1>1, <1>2, <1>3, <1>4, <1>5, <1>6, <1>7, <1>8, <1>9, <1>10, <1>11,
     <1>12, <1>13, <1>14 DEF Next

LEMMA CallInductive == Spec => [](CallRight /\ AuditAgreesWithReply)
<1>1. Init => CallRight /\ AuditAgreesWithReply
  BY DEF Init, CallRight, AuditAgreesWithReply, Refusals
<1>2. QED
  BY <1>1, CallStep, TypeCorrect, PTL DEF Spec

(* No order of exceptions makes the audit log contradict the reply.        *)
THEOREM AuditIsHonest == Spec => []AuditAgreesWithReply
BY CallInductive, PTL

(* No call that a check refuses reaches a handler.                         *)
THEOREM RefusalsAreFree == Spec => []RefusedHasNoEffect
<1>1. CallRight => RefusedHasNoEffect
  BY DEF CallRight, Passed, RefusedHasNoEffect
<1>2. QED
  BY <1>1, CallInductive, PTL
=============================================================================
