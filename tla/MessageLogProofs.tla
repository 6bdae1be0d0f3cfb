-------------------------- MODULE MessageLogProofs --------------------------
(***************************************************************************)
(* Theorems about MessageLog.  The three logs share only the clock and the *)
(* threads, so each of them has invariants of its own.                     *)
(***************************************************************************)
EXTENDS MessageLog, SequenceTheorems, WellFoundedInduction, FiniteSetTheorems, TLAPS

-----------------------------------------------------------------------------
(* The searches of LogIndex. *)

Ranges(n) == (1 .. n + 1) \X (1 .. n + 1)
Half(r) == r[1] + (r[2] - r[1]) \div 2

\* One round of the bisection, with f for the rest of it.
Round(right, f, r) ==
  IF r[2] <= r[1] THEN r[1]
  ELSE IF right[Half(r)] THEN f[<<Half(r) + 1, r[2]>>]
  ELSE f[<<r[1], Half(r)>>]

LEMMA BisectByRounds ==
  ASSUME NEW n \in Nat, NEW right
  PROVE  Bisect(right, n) = (CHOOSE f : f = [r \in Ranges(n) |-> Round(right, f, r)])[<<1, n + 1>>]
BY DEF Bisect, Ranges, Round, Half

\* right holds up to a point and not afterwards.
Monotone(right, n) == \A i, j \in 1 .. n : i < j /\ right[j] => right[i]

\* k is the first place of a range at which right does not hold, or the range's end.
Splits(right, r, k) ==
  /\ k \in r[1] .. r[2]
  /\ \A i \in r[1] .. k - 1 : right[i]
  /\ k < r[2] => ~ right[k]

LEMMA SplitExists ==
  ASSUME NEW n \in Nat, NEW right, NEW r \in Ranges(n), r[1] <= r[2]
  PROVE  \E k : Splits(right, r, k)
<1> DEFINE ends == {k \in r[1] .. r[2] : k = r[2] \/ ~ right[k]}
<1>1. r[1] \in 1 .. n + 1 /\ r[2] \in 1 .. n + 1
  BY DEF Ranges
<1>2. ends \subseteq Nat /\ ends # {}
  BY <1>1
<1>3. PICK k \in ends : \A j \in ends : ~ (<<j, k>> \in OpToRel(<, Nat))
  <2> HIDE DEF ends
  <2> QED BY <1>2, NatLessThanWellFounded, WFMin
<1>4. \A j \in ends : ~ (j < k)
  BY <1>2, <1>3 DEF OpToRel
<1>5. \A i \in r[1] .. k - 1 : right[i]
  BY <1>1, <1>4
<1> QED BY <1>1, <1>5 DEF Splits

LEMMA SplitIsUnique ==
  ASSUME NEW n \in Nat, NEW right, NEW r \in Ranges(n), NEW k, NEW j,
         Splits(right, r, k), Splits(right, r, j)
  PROVE  k = j
<1>1. r[1] \in 1 .. n + 1 /\ r[2] \in 1 .. n + 1
  BY DEF Ranges
<1>2. ~ (k < j) /\ ~ (j < k)
  BY <1>1 DEF Splits
<1> QED BY <1>1, <1>2 DEF Splits

\* The range in which a round of the bisection goes on: smaller, with the same outcome.
Rest(right, r) == IF right[Half(r)] THEN <<Half(r) + 1, r[2]>> ELSE <<r[1], Half(r)>>

LEMMA HalfSplits ==
  ASSUME NEW n \in Nat, NEW right, Monotone(right, n), NEW r \in Ranges(n), r[1] < r[2]
  PROVE  LET s == Rest(right, r)
         IN /\ s \in Ranges(n) /\ s[1] <= s[2] /\ s[2] - s[1] < r[2] - r[1]
            /\ \A k : Splits(right, s, k) => Splits(right, r, k)
            /\ \A f : Round(right, f, r) = f[s]
<1> DEFINE mid == Half(r)
<1>1. r[1] \in 1 .. n + 1 /\ r[2] \in 1 .. n + 1
  BY DEF Ranges
<1>2. mid \in r[1] .. r[2] - 1 /\ mid \in 1 .. n
  BY <1>1 DEF Half
<1>3. \A f : Round(right, f, r) = IF right[mid] THEN f[<<mid + 1, r[2]>>] ELSE f[<<r[1], mid>>]
  BY <1>1 DEF Round
<1> HIDE DEF mid
<1>4. CASE right[mid]
  <2> DEFINE s == <<mid + 1, r[2]>>
  <2>1. s \in Ranges(n) /\ s[1] = mid + 1 /\ s[2] = r[2]
    BY <1>1, <1>2 DEF Ranges
  <2> HIDE DEF s
  <2>2. \A i \in r[1] .. mid : right[i]
    BY <1>1, <1>2, <1>4 DEF Monotone
  <2>3. ASSUME NEW k, Splits(right, s, k) PROVE Splits(right, r, k)
    <3>1. k \in mid + 1 .. r[2] /\ (\A i \in mid + 1 .. k - 1 : right[i]) /\ (k < r[2] => ~ right[k])
      BY <2>1, <2>3 DEF Splits
    <3>2. \A i \in r[1] .. k - 1 : i \in r[1] .. mid \/ i \in mid + 1 .. k - 1
      BY <1>1, <1>2, <3>1
    <3> QED BY <1>1, <1>2, <2>2, <3>1, <3>2 DEF Splits
  <2>4. s[1] <= s[2] /\ s[2] - s[1] < r[2] - r[1]
    BY <1>1, <1>2, <2>1
  <2> QED BY <1>3, <1>4, <2>1, <2>3, <2>4 DEF s, mid, Rest
<1>5. CASE ~ right[mid]
  <2> DEFINE s == <<r[1], mid>>
  <2>1. s \in Ranges(n) /\ s[1] = r[1] /\ s[2] = mid
    BY <1>1, <1>2 DEF Ranges
  <2> HIDE DEF s
  <2>2. ASSUME NEW k, Splits(right, s, k) PROVE Splits(right, r, k)
    BY <1>1, <1>2, <1>5, <2>1, <2>2 DEF Splits
  <2>3. s[1] <= s[2] /\ s[2] - s[1] < r[2] - r[1]
    BY <1>1, <1>2, <2>1
  <2> QED BY <1>3, <1>5, <2>1, <2>2, <2>3 DEF s, mid, Rest
<1> QED BY <1>4, <1>5

\* The recursion of Bisect has a solution.
LEMMA RoundsHaveSolution ==
  ASSUME NEW n \in Nat, NEW right, Monotone(right, n)
  PROVE  \E f : f = [r \in Ranges(n) |-> Round(right, f, r)]
<1> DEFINE f == [r \in Ranges(n) |-> IF r[2] <= r[1] THEN r[1] ELSE CHOOSE k : Splits(right, r, k)]
<1>1. ASSUME NEW r \in Ranges(n), r[1] <= r[2] PROVE Splits(right, r, f[r])
  <2>1. r[1] \in 1 .. n + 1 /\ r[2] \in 1 .. n + 1
    BY DEF Ranges
  <2>2. CASE r[1] = r[2]
    BY <2>1, <2>2 DEF Splits
  <2>3. CASE r[1] # r[2]
    <3>1. f[r] = CHOOSE k : Splits(right, r, k)
      BY <1>1, <2>1, <2>3
    <3> QED BY <1>1, <3>1, SplitExists
  <2> QED BY <2>2, <2>3
<1>2. ASSUME NEW r \in Ranges(n) PROVE f[r] = Round(right, f, r)
  <2>1. CASE r[2] <= r[1]
    BY <2>1 DEF Round
  <2>2. CASE ~ (r[2] <= r[1])
    <3> DEFINE s == Rest(right, r)
    <3>0. r[1] < r[2] /\ r[1] <= r[2]
      BY <2>2 DEF Ranges
    <3>1. /\ s \in Ranges(n) /\ s[1] <= s[2]
          /\ \A k : Splits(right, s, k) => Splits(right, r, k)
          /\ \A g : Round(right, g, r) = g[s]
      BY <3>0, HalfSplits
    <3> HIDE DEF s, f
    <3>2. Splits(right, s, f[s]) /\ Splits(right, r, f[r])
      BY <1>1, <3>0, <3>1
    <3>3. Splits(right, r, f[s])
      BY <3>1, <3>2
    <3>4. f[s] = f[r]
      BY <3>2, <3>3, SplitIsUnique
    <3> QED BY <3>1, <3>4
  <2> QED BY <2>1, <2>2
<1>3. f = [r \in Ranges(n) |-> Round(right, f, r)]
  BY <1>2
<1> QED BY <1>3

\* What the bisection is for (std::lower_bound and std::upper_bound): the first place
\* at which a predicate does not hold, for a predicate that holds up to some place.
THEOREM BisectFinds ==
  ASSUME NEW n \in Nat, NEW right, Monotone(right, n)
  PROVE  /\ Bisect(right, n) \in 1 .. n + 1
         /\ \A i \in 1 .. n : right[i] <=> i < Bisect(right, n)
<1> DEFINE f == CHOOSE g : g = [r \in Ranges(n) |-> Round(right, g, r)]
<1>1. f = [r \in Ranges(n) |-> Round(right, f, r)]
  BY RoundsHaveSolution
<1>2. Bisect(right, n) = f[<<1, n + 1>>]
  BY BisectByRounds
<1> HIDE DEF f
<1> DEFINE proper == {r \in Ranges(n) : r[1] <= r[2]}
           wrong == {m \in Nat : \E r \in proper : m = r[2] - r[1] /\ ~ Splits(right, r, f[r])}
<1>3. wrong = {}
  <2> SUFFICES ASSUME wrong # {} PROVE FALSE
    OBVIOUS
  <2>1. PICK m \in wrong : \A k \in wrong : ~ (<<k, m>> \in OpToRel(<, Nat))
    BY NatLessThanWellFounded, WFMin
  <2>2. \A k \in wrong : ~ (k < m)
    BY <2>1 DEF OpToRel
  <2>3. PICK r \in proper : m = r[2] - r[1] /\ ~ Splits(right, r, f[r])
    OBVIOUS
  <2>4. f[r] = Round(right, f, r)
    BY <1>1
  <2>5. r[1] \in 1 .. n + 1 /\ r[2] \in 1 .. n + 1
    BY DEF Ranges
  <2>6. CASE r[1] = r[2]
    BY <2>3, <2>4, <2>5, <2>6 DEF Round, Splits
  <2>7. CASE r[1] # r[2]
    <3> DEFINE s == Rest(right, r)
    <3>0. r[1] < r[2]
      BY <2>5, <2>7
    <3>1. /\ s \in Ranges(n) /\ s[1] <= s[2] /\ s[2] - s[1] < r[2] - r[1]
          /\ \A k : Splits(right, s, k) => Splits(right, r, k)
          /\ \A g : Round(right, g, r) = g[s]
      BY <3>0, HalfSplits
    <3> HIDE DEF s
    <3>2. ~ Splits(right, s, f[s])
      BY <2>3, <2>4, <3>1
    <3>3. s[1] \in 1 .. n + 1 /\ s[2] \in 1 .. n + 1
      BY <3>1 DEF Ranges
    <3>4. s[2] - s[1] \in wrong
      BY <3>1, <3>2, <3>3
    <3> QED BY <2>2, <2>3, <2>5, <3>1, <3>3, <3>4
  <2> QED BY <2>6, <2>7
<1>4. Splits(right, <<1, n + 1>>, f[<<1, n + 1>>])
  <2>1. <<1, n + 1>> \in proper /\ n \in Nat
    BY DEF Ranges
  <2>2. (n + 1) - 1 = n
    OBVIOUS
  <2> QED BY <1>3, <2>1, <2>2
<1>5. /\ Bisect(right, n) \in 1 .. n + 1
      /\ \A i \in 1 .. Bisect(right, n) - 1 : right[i]
      /\ Bisect(right, n) < n + 1 => ~ right[Bisect(right, n)]
  BY <1>2, <1>4 DEF Splits
<1> QED BY <1>5 DEF Monotone

TimeIndex == Seq([time : Nat, number : Nat])

LEMMA TimesOfIndex ==
  ASSUME NEW times \in TimeIndex
  PROVE  /\ Len(times) \in Nat /\ DOMAIN times = 1 .. Len(times)
         /\ times = <<>> <=> Len(times) = 0
         /\ \A i \in 1 .. Len(times) : times[i].time \in Nat /\ times[i].number \in Nat
<1> DEFINE entries == [time : Nat, number : Nat]
<1>1. times \in Seq(entries)
  BY DEF TimeIndex
<1>2. \A e \in entries : e.time \in Nat /\ e.number \in Nat
  OBVIOUS
<1> HIDE DEF entries
<1>3. Len(times) \in Nat /\ DOMAIN times = 1 .. Len(times)
  BY <1>1, LenProperties
<1>4. \A i \in 1 .. Len(times) : times[i] \in entries
  BY <1>1, ElementOfSeq
<1>5. times = <<>> <=> Len(times) = 0
  BY <1>1, EmptySeq
<1> QED BY <1>2, <1>3, <1>4, <1>5

LEMMA BoundsSplitTimes ==
  ASSUME NEW times \in TimeIndex, Sorted(times), NEW t \in Nat
  PROVE  /\ LowerBound(times, t) \in 1 .. Len(times) + 1
         /\ UpperBound(times, t) \in 1 .. Len(times) + 1
         /\ \A i \in 1 .. Len(times) : times[i].time < t <=> i < LowerBound(times, t)
         /\ \A i \in 1 .. Len(times) : times[i].time <= t <=> i < UpperBound(times, t)
<1> DEFINE n == Len(times)
<1>1. n \in Nat /\ DOMAIN times = 1 .. n /\ \A i \in 1 .. n : times[i].time \in Nat
  BY TimesOfIndex
<1> HIDE DEF n
<1>2. \A i, j \in 1 .. n : i < j => times[i].time <= times[j].time
  BY <1>1 DEF Sorted
<1> DEFINE before == [k \in DOMAIN times |-> times[k].time < t]
           upTo == [k \in DOMAIN times |-> times[k].time <= t]
<1>3. Monotone(before, n) /\ \A i \in 1 .. n : before[i] <=> times[i].time < t
  <2>1. \A i \in 1 .. n : before[i] <=> times[i].time < t
    BY <1>1
  <2> HIDE DEF before
  <2> QED BY <1>1, <1>2, <2>1 DEF Monotone
<1>4. Monotone(upTo, n) /\ \A i \in 1 .. n : upTo[i] <=> times[i].time <= t
  <2>1. \A i \in 1 .. n : upTo[i] <=> times[i].time <= t
    BY <1>1
  <2> HIDE DEF upTo
  <2> QED BY <1>1, <1>2, <2>1 DEF Monotone
<1>5. LowerBound(times, t) = Bisect(before, n) /\ UpperBound(times, t) = Bisect(upTo, n)
  BY DEF LowerBound, UpperBound, n
<1> HIDE DEF before, upTo
<1>6. /\ Bisect(before, n) \in 1 .. n + 1
      /\ \A i \in 1 .. n : before[i] <=> i < Bisect(before, n)
  BY <1>1, <1>3, BisectFinds
<1>7. /\ Bisect(upTo, n) \in 1 .. n + 1
      /\ \A i \in 1 .. n : upTo[i] <=> i < Bisect(upTo, n)
  BY <1>1, <1>4, BisectFinds
<1> QED BY <1>3, <1>4, <1>5, <1>6, <1>7 DEF n

\* A time index that follows its log: one entry for each message, in order.
Follows(times, popped) == \A k \in DOMAIN times : times[k].number = popped + k - 1

Within(times, start, end) ==
  {k - 1 : k \in {j \in DOMAIN times : start <= times[j].time /\ times[j].time <= end}}

\* A sorted index that follows its log yields exactly the messages of the interval.
THEOREM TimeQueriesAreExact ==
  ASSUME NEW times \in TimeIndex, Sorted(times), NEW popped \in Nat, Follows(times, popped),
         NEW start \in Nat, NEW end \in Nat
  PROVE  /\ Positions(GetIndicesForTime(start, end, times, popped)) = Within(times, start, end)
         /\ times # <<>> /\ start <= end /\ start <= times[Len(times)].time /\ end >= times[1].time =>
              LET range == GetIndicesForTime(start, end, times, popped)
              IN range.first >= 0 /\ range.last >= 0
<1> DEFINE n == Len(times)
           lower == LowerBound(times, start)
           upper == UpperBound(times, end)
           range == GetIndicesForTime(start, end, times, popped)
<1>1. /\ n \in Nat /\ DOMAIN times = 1 .. n /\ \A i \in 1 .. n : times[i].time \in Nat
      /\ times = <<>> <=> n = 0
  BY TimesOfIndex
<1>2. /\ \A i, j \in 1 .. n : i < j => times[i].time <= times[j].time
      /\ \A k \in 1 .. n : times[k].number - popped = k - 1
  <2>1. \A k \in 1 .. n : times[k].number = popped + k - 1
    BY <1>1 DEF Follows
  <2>2. \A k \in 1 .. n : (popped + k - 1) - popped = k - 1
    BY <1>1
  <2>3. \A i, j \in 1 .. n : i < j => times[i].time <= times[j].time
    BY <1>1 DEF Sorted
  <2> HIDE DEF n
  <2> QED BY <2>1, <2>2, <2>3
<1>3. /\ lower \in 1 .. n + 1 /\ upper \in 1 .. n + 1
      /\ \A i \in 1 .. n : times[i].time < start <=> i < lower
      /\ \A i \in 1 .. n : times[i].time <= end <=> i < upper
  BY BoundsSplitTimes
<1>4. ASSUME NEW k \in 1 .. n
      PROVE  start <= times[k].time /\ times[k].time <= end <=> lower <= k /\ k < upper
  <2>1. times[k].time \in Nat /\ (times[k].time < start <=> k < lower) /\ (times[k].time <= end <=> k < upper)
    BY <1>1, <1>3
  <2> QED BY <1>3, <2>1
<1>5. Within(times, start, end) = lower - 1 .. upper - 2
  <2>1. Within(times, start, end) = {k - 1 : k \in {j \in 1 .. n : lower <= j /\ j < upper}}
    BY <1>1, <1>4 DEF Within
  <2>2. ASSUME NEW i \in lower - 1 .. upper - 2 PROVE i \in {k - 1 : k \in {j \in 1 .. n : lower <= j /\ j < upper}}
    <3>1. i + 1 \in {j \in 1 .. n : lower <= j /\ j < upper} /\ i = (i + 1) - 1
      BY <1>1, <1>3
    <3> QED BY <3>1
  <2>3. ASSUME NEW k \in {j \in 1 .. n : lower <= j /\ j < upper} PROVE k - 1 \in lower - 1 .. upper - 2
    BY <1>1, <1>3
  <2> QED BY <2>1, <2>2, <2>3
<1>6. CASE \/ times = <<>> \/ end < start \/ end < times[1].time \/ start > times[n].time
  <2>1. range = Nowhere
    BY <1>6 DEF GetIndicesForTime
  <2>2. Positions(range) = {}
    BY <2>1 DEF Positions, Nowhere
  <2>3. ASSUME NEW k \in 1 .. n PROVE ~ (start <= times[k].time /\ times[k].time <= end)
    <3>1. times[1].time <= times[k].time /\ times[k].time <= times[n].time
      BY <1>1, <1>2
    <3>2. times[1].time \in Nat /\ times[n].time \in Nat /\ times[k].time \in Nat
      BY <1>1
    <3> QED BY <1>1, <1>6, <3>1, <3>2
  <2>4. Within(times, start, end) = {}
    BY <1>1, <2>3 DEF Within
  <2>5. ~ (times # <<>> /\ start <= end /\ start <= times[n].time /\ end >= times[1].time)
    BY <1>1, <1>6
  <2> QED BY <2>2, <2>4, <2>5
<1>7. CASE ~ (\/ times = <<>> \/ end < start \/ end < times[1].time \/ start > times[n].time)
  <2>1. 1 \in 1 .. n /\ n \in 1 .. n /\ times[1].time \in Nat /\ times[n].time \in Nat
    BY <1>1, <1>7
  <2>2. /\ start <= times[n].time /\ times[1].time <= end
        /\ times[1].number - popped = 0 /\ times[n].number - popped = n - 1
    BY <1>2, <1>7, <2>1
  <2>3. range.first = IF times[1].time <= start /\ start <= times[n].time /\ lower <= n
                      THEN times[lower].number - popped ELSE times[1].number - popped
    BY <1>7 DEF GetIndicesForTime
  <2>4. range.last = IF times[1].time <= end /\ end <= times[n].time /\ upper <= n
                     THEN times[upper].number - popped ELSE times[n].number - popped + 1
    BY <1>7 DEF GetIndicesForTime
  <2> HIDE DEF range, lower, upper, n
  <2>5. lower <= n
    <3>1. ~ (n < lower)
      BY <1>3, <2>1, <2>2
    <3> QED BY <1>1, <1>3, <3>1
  <2>6. range.first = lower - 1
    <3>1. CASE times[1].time <= start
      BY <1>2, <1>3, <2>2, <2>3, <2>5, <3>1
    <3>2. CASE ~ (times[1].time <= start)
      <4>1. ~ (1 < lower)
        BY <1>3, <2>1, <3>2
      <4>2. lower = 1
        BY <1>3, <4>1
      <4> QED BY <2>2, <2>3, <3>2, <4>2
    <3> QED BY <3>1, <3>2
  <2>7. range.last = upper - 1
    <3>1. CASE end <= times[n].time /\ upper <= n
      BY <1>2, <1>3, <2>2, <2>4, <3>1
    <3>2. CASE ~ (end <= times[n].time /\ upper <= n)
      <4>1. upper = n + 1
        <5>1. times[n].time <= end \/ upper = n + 1
          BY <1>1, <1>3, <2>1, <3>2
        <5> QED BY <1>1, <1>3, <2>1, <5>1
      <4> QED BY <1>1, <2>2, <2>4, <3>2, <4>1
    <3> QED BY <3>1, <3>2
  <2>8. Positions(range) = lower - 1 .. upper - 2
    BY <1>3, <2>6, <2>7 DEF Positions
  <2> QED BY <1>3, <1>5, <2>6, <2>7, <2>8 DEF range
<1> QED BY <1>6, <1>7

-----------------------------------------------------------------------------
(***************************************************************************)
(* Dropping from the front.                                                *)
(***************************************************************************)

\* What is left is the index from its first live entry on.
LEMMA EraseFromFront ==
  ASSUME NEW S, NEW q \in Seq(S), NEW numbers, \A k \in 1 .. Len(q) : numbers[k] \in Nat, NEW popped \in Nat
  PROVE  \E m \in 0 .. Len(q) :
           /\ EraseNegative(q, numbers, popped) \in Seq(S)
           /\ Len(EraseNegative(q, numbers, popped)) = Len(q) - m
           /\ \A k \in 1 .. Len(q) - m : EraseNegative(q, numbers, popped)[k] = q[k + m]
           /\ \A k \in 1 .. m : numbers[k] < popped
           /\ m < Len(q) => numbers[m + 1] >= popped
<1> DEFINE n == Len(q)
           live == {k \in DOMAIN q : numbers[k] - popped >= 0}
           rest == EraseNegative(q, numbers, popped)
<1>1. n \in Nat /\ DOMAIN q = 1 .. n /\ \A k \in 1 .. n : q[k] \in S
  BY LenProperties, ElementOfSeq
<1>2. \A k \in 1 .. n : k \in live <=> numbers[k] >= popped
  BY <1>1
<1>3. CASE live = {}
  <2>1. rest = <<>>
    BY <1>3 DEF EraseNegative
  <2>2. rest \in Seq(S) /\ Len(rest) = 0
    BY <2>1, EmptySeq
  <2>3. \A k \in 1 .. n : numbers[k] < popped
    BY <1>2, <1>3
  <2> HIDE DEF n, rest, live
  <2>4. n \in 0 .. n /\ n - n = 0 /\ ~ (n < n)
    BY <1>1
  <2> QED BY <2>2, <2>3, <2>4 DEF n, rest
<1>4. CASE live # {}
  <2>0. live \subseteq Nat
    BY <1>1
  <2>1. PICK f \in live : \A j \in live : ~ (<<j, f>> \in OpToRel(<, Nat))
    BY <1>4, <2>0, NatLessThanWellFounded, WFMin
  <2> HIDE DEF live
  <2>2. \A j \in live : f <= j
    <3>1. \A j \in live : ~ (j < f)
      BY <2>0, <2>1 DEF OpToRel
    <3>2. f \in Nat
      BY <2>0
    <3> QED BY <2>0, <3>1, <3>2
  <2>3. \A k \in live : (\A j \in live : k <= j) => k = f
    BY <2>0, <2>2
  <2>4. (CHOOSE k \in live : \A j \in live : k <= j) = f
    BY <2>2, <2>3
  <2>5. rest = SubSeq(q, f, n)
    BY <1>4, <2>4 DEF EraseNegative, live
  <2>6. f \in 1 .. n /\ numbers[f] >= popped
    BY <1>1, <1>2 DEF live
  <2>7. \A k \in 1 .. f - 1 : numbers[k] < popped
    BY <1>1, <1>2, <2>2, <2>6
  <2> HIDE DEF n, rest
  <2>8. /\ rest \in Seq(S) /\ Len(rest) = n - f + 1
        /\ \A i \in 1 .. n - f + 1 : rest[i] = q[f + i - 1]
    BY <1>1, <2>5, <2>6, SubSeqProperties
  <2>9. /\ f - 1 \in 0 .. n /\ n - (f - 1) = n - f + 1 /\ (f - 1) + 1 = f
        /\ \A i \in 1 .. n - f + 1 : f + i - 1 = i + (f - 1)
    BY <1>1, <2>6
  <2>10. PICK m \in 0 .. n : m = f - 1
    BY <2>9
  <2>11. /\ Len(rest) = n - m /\ \A i \in 1 .. n - m : rest[i] = q[i + m]
         /\ \A k \in 1 .. m : numbers[k] < popped
         /\ numbers[m + 1] >= popped
    BY <2>6, <2>7, <2>8, <2>9, <2>10
  <2> QED BY <2>8, <2>11 DEF n, rest
<1> QED BY <1>3, <1>4

\* An index with increasing numbers keeps exactly its live entries.
LEMMA EraseKeepsLive ==
  ASSUME NEW index \in Seq(Nat), NEW popped \in Nat,
         \A i, j \in DOMAIN index : i < j => index[i] < index[j]
  PROVE  LET rest == EraseNegativeIndices(index, popped)
         IN /\ rest \in Seq(Nat)
            /\ \A i, j \in DOMAIN rest : i < j => rest[i] < rest[j]
            /\ {rest[k] : k \in DOMAIN rest} = {i \in {index[k] : k \in DOMAIN index} : i >= popped}
<1> DEFINE rest == EraseNegativeIndices(index, popped)
           n == Len(index)
<1>1. n \in Nat /\ DOMAIN index = 1 .. n /\ \A k \in 1 .. n : index[k] \in Nat
  BY LenProperties, ElementOfSeq
<1>2. PICK m \in 0 .. n :
        /\ rest \in Seq(Nat) /\ Len(rest) = n - m
        /\ \A k \in 1 .. n - m : rest[k] = index[k + m]
        /\ \A k \in 1 .. m : index[k] < popped
        /\ m < n => index[m + 1] >= popped
  BY <1>1, EraseFromFront DEF EraseNegativeIndices
<1> HIDE DEF rest, n
<1>3. DOMAIN rest = 1 .. n - m
  BY <1>2, LenProperties
<1>4. \A i, j \in 1 .. n : i < j => index[i] < index[j]
  BY <1>1
<1>5. \A k \in 1 .. n : index[k] >= popped <=> k > m
  <2> SUFFICES ASSUME NEW k \in 1 .. n PROVE index[k] >= popped <=> k > m
    OBVIOUS
  <2>1. CASE k <= m
    BY <1>1, <1>2, <2>1
  <2>2. CASE k = m + 1
    BY <1>1, <1>2, <2>2
  <2>3. CASE k > m + 1
    <3>1. m + 1 \in 1 .. n /\ index[m + 1] < index[k] /\ m < n
      BY <1>1, <1>4, <2>3
    <3> QED BY <1>1, <1>2, <2>3, <3>1
  <2> QED BY <1>1, <2>1, <2>2, <2>3
<1>6. ASSUME NEW i \in 1 .. n - m, NEW j \in 1 .. n - m, i < j PROVE rest[i] < rest[j]
  <2>1. i + m \in 1 .. n /\ j + m \in 1 .. n /\ i + m < j + m
    BY <1>1, <1>6
  <2> QED BY <1>2, <1>4, <2>1
<1>7. ASSUME NEW k \in 1 .. n - m PROVE rest[k] \in {i \in {index[j] : j \in 1 .. n} : i >= popped}
  <2>1. k + m \in 1 .. n /\ k + m > m
    BY <1>1
  <2>2. rest[k] = index[k + m] /\ index[k + m] >= popped
    BY <1>2, <1>5, <2>1
  <2> QED BY <2>1, <2>2
<1>8. ASSUME NEW k \in 1 .. n, index[k] >= popped PROVE index[k] \in {rest[j] : j \in 1 .. n - m}
  <2>1. k - m \in 1 .. n - m /\ (k - m) + m = k
    BY <1>1, <1>5, <1>8
  <2> QED BY <1>2, <2>1
<1>9. {rest[k] : k \in 1 .. n - m} = {i \in {index[j] : j \in 1 .. n} : i >= popped}
  BY <1>7, <1>8
<1> QED BY <1>1, <1>2, <1>3, <1>6, <1>9 DEF rest

\* The time index of a log: the time and the number of each message.
IndexOf(log, popped) == [k \in DOMAIN log |-> [time |-> log[k].time, number |-> popped + k - 1]]

LEMMA IndexOfTypes ==
  ASSUME NEW S, \A e \in S : e.time \in Nat, NEW log \in Seq(S), NEW popped \in Nat
  PROVE  /\ IndexOf(log, popped) \in TimeIndex
         /\ Len(IndexOf(log, popped)) = Len(log) /\ DOMAIN IndexOf(log, popped) = 1 .. Len(log)
         /\ \A k \in 1 .. Len(log) : /\ IndexOf(log, popped)[k].time = log[k].time
                                     /\ IndexOf(log, popped)[k].number = popped + k - 1
                                     /\ IndexOf(log, popped)[k] = [time |-> log[k].time, number |-> popped + k - 1]
         /\ Follows(IndexOf(log, popped), popped)
<1> DEFINE n == Len(log)
           times == IndexOf(log, popped)
<1>1. n \in Nat /\ DOMAIN log = 1 .. n /\ \A k \in 1 .. n : log[k].time \in Nat
  <2>1. \A k \in 1 .. n : log[k] \in S
    BY ElementOfSeq
  <2> QED BY <2>1, LenProperties
<1>2. times = [k \in 1 .. n |-> [time |-> log[k].time, number |-> popped + k - 1]]
  BY <1>1 DEF IndexOf
<1>3. \A k \in 1 .. n : popped + k - 1 \in Nat
  BY <1>1
<1> HIDE DEF n, times
<1>4. times \in [1 .. n -> [time : Nat, number : Nat]]
  BY <1>1, <1>2, <1>3
<1>5. times \in TimeIndex
  <2>1. \A T : [1 .. n -> T] \subseteq Seq(T)
    BY <1>1, SeqDef
  <2> QED BY <1>4, <2>1 DEF TimeIndex
<1>6. Len(times) = n /\ DOMAIN times = 1 .. n
  BY <1>1, <1>2, <1>5, TimesOfIndex
<1>7. \A k \in 1 .. n : /\ times[k].time = log[k].time
                        /\ times[k].number = popped + k - 1
                        /\ times[k] = [time |-> log[k].time, number |-> popped + k - 1]
  BY <1>2
<1> QED BY <1>5, <1>6, <1>7 DEF n, times, Follows

\* Adding a message to a log, and its time to the index.
LEMMA IndexGrows ==
  ASSUME NEW S, \A e \in S : e.time \in Nat, NEW log \in Seq(S), NEW popped \in Nat, NEW e \in S
  PROVE  IndexOf(Append(log, e), popped)
           = Append(IndexOf(log, popped), [time |-> e.time, number |-> popped + Len(log)])
<1> DEFINE n == Len(log)
           entry == [time |-> e.time, number |-> popped + n]
           old == IndexOf(log, popped)
           new == IndexOf(Append(log, e), popped)
<1>1. /\ n \in Nat /\ e.time \in Nat /\ Append(log, e) \in Seq(S) /\ Len(Append(log, e)) = n + 1
      /\ \A k \in 1 .. n : Append(log, e)[k] = log[k]
      /\ Append(log, e)[n + 1] = e
  BY AppendProperties, LenProperties
<1>2. /\ old \in TimeIndex /\ Len(old) = n
      /\ \A k \in 1 .. n : old[k] = [time |-> log[k].time, number |-> popped + k - 1]
  BY IndexOfTypes
<1>3. /\ new \in TimeIndex /\ Len(new) = n + 1
      /\ \A k \in 1 .. n + 1 : new[k] = [time |-> Append(log, e)[k].time, number |-> popped + k - 1]
  <2> DEFINE longer == Append(log, e)
  <2>1. longer \in Seq(S) /\ Len(longer) = n + 1
    BY <1>1
  <2> HIDE DEF longer
  <2>2. /\ IndexOf(longer, popped) \in TimeIndex /\ Len(IndexOf(longer, popped)) = n + 1
        /\ \A k \in 1 .. n + 1 : IndexOf(longer, popped)[k] = [time |-> longer[k].time, number |-> popped + k - 1]
    BY <2>1, IndexOfTypes
  <2> QED BY <2>2 DEF longer
<1>4. entry \in [time : Nat, number : Nat]
  BY <1>1
<1> HIDE DEF n, old, new
<1>5. /\ Append(old, entry) \in TimeIndex /\ Len(Append(old, entry)) = n + 1
      /\ \A k \in 1 .. n : Append(old, entry)[k] = old[k]
      /\ Append(old, entry)[n + 1] = entry
  BY <1>2, <1>4, AppendProperties DEF TimeIndex
<1>6. ASSUME NEW k \in 1 .. n PROVE new[k] = Append(old, entry)[k]
  <2>1. k \in 1 .. n + 1
    BY <1>1
  <2>2. new[k] = [time |-> Append(log, e)[k].time, number |-> popped + k - 1]
    BY <1>3, <2>1
  <2>3. Append(old, entry)[k] = [time |-> log[k].time, number |-> popped + k - 1]
    BY <1>2, <1>5
  <2> QED BY <1>1, <2>2, <2>3
<1>7. new[n + 1] = entry
  <2>1. n + 1 \in 1 .. n + 1 /\ popped + (n + 1) - 1 = popped + n
    BY <1>1
  <2> QED BY <1>1, <1>3, <2>1
<1>8. \A k \in 1 .. n + 1 : new[k] = Append(old, entry)[k]
  <2>1. \A k \in 1 .. n + 1 : k \in 1 .. n \/ k = n + 1
    BY <1>1
  <2> QED BY <1>5, <1>6, <1>7, <2>1
<1>9. new = Append(old, entry)
  BY <1>3, <1>5, <1>8, SeqEqual DEF TimeIndex
<1> QED BY <1>9 DEF old, new, n

\* Dropping the oldest message of a log, and culling the index.
LEMMA IndexShrinks ==
  ASSUME NEW S, \A e \in S : e.time \in Nat, NEW log \in Seq(S), log # <<>>, NEW popped \in Nat
  PROVE  CullSimTimeIndices(IndexOf(log, popped), popped + 1) = IndexOf(Tail(log), popped + 1)
<1> DEFINE n == Len(log)
           old == IndexOf(log, popped)
           new == IndexOf(Tail(log), popped + 1)
           rest == CullSimTimeIndices(old, popped + 1)
           numbers == [k \in DOMAIN old |-> old[k].number]
<1>1. n \in Nat /\ n >= 1
  <2>1. n \in Nat /\ n # 0
    BY LenProperties, EmptySeq
  <2> QED BY <2>1
<1>2. /\ Tail(log) \in Seq(S) /\ Len(Tail(log)) = n - 1
      /\ \A k \in 1 .. n - 1 : Tail(log)[k] = log[k + 1]
  BY HeadTailProperties
<1>3. /\ old \in TimeIndex /\ Len(old) = n /\ DOMAIN old = 1 .. n
      /\ \A k \in 1 .. n : old[k].number = popped + k - 1
      /\ \A k \in 1 .. n : old[k] = [time |-> log[k].time, number |-> popped + k - 1]
  BY IndexOfTypes
<1>4. /\ new \in TimeIndex /\ Len(new) = n - 1
      /\ \A k \in 1 .. n - 1 : new[k] = [time |-> Tail(log)[k].time, number |-> (popped + 1) + k - 1]
  <2> DEFINE shorter == Tail(log)
             more == popped + 1
  <2>1. shorter \in Seq(S) /\ Len(shorter) = n - 1 /\ more \in Nat
    BY <1>2
  <2> HIDE DEF shorter, more
  <2>2. /\ IndexOf(shorter, more) \in TimeIndex /\ Len(IndexOf(shorter, more)) = n - 1
        /\ \A k \in 1 .. n - 1 : IndexOf(shorter, more)[k] = [time |-> shorter[k].time, number |-> more + k - 1]
    BY <2>1, IndexOfTypes
  <2> QED BY <2>2 DEF shorter, more
<1>5. \A k \in 1 .. n : numbers[k] = popped + k - 1
  BY <1>3
<1>6. rest = EraseNegative(old, numbers, popped + 1)
  BY DEF CullSimTimeIndices
<1> HIDE DEF n, old, new, rest, numbers
<1>7. \A k \in 1 .. n : numbers[k] \in Nat
  BY <1>1, <1>5
<1>8. PICK m \in 0 .. n :
        /\ rest \in TimeIndex /\ Len(rest) = n - m
        /\ \A k \in 1 .. n - m : rest[k] = old[k + m]
        /\ \A k \in 1 .. m : numbers[k] < popped + 1
        /\ m < n => numbers[m + 1] >= popped + 1
  <2> DEFINE entries == [time : Nat, number : Nat]
             more == popped + 1
  <2>1. old \in Seq(entries) /\ more \in Nat
    BY <1>3 DEF TimeIndex
  <2> HIDE DEF entries, more
  <2>2. \E m \in 0 .. n :
           /\ EraseNegative(old, numbers, more) \in Seq(entries)
           /\ Len(EraseNegative(old, numbers, more)) = n - m
           /\ \A k \in 1 .. n - m : EraseNegative(old, numbers, more)[k] = old[k + m]
           /\ \A k \in 1 .. m : numbers[k] < more
           /\ m < n => numbers[m + 1] >= more
    BY <1>3, <1>7, <2>1, EraseFromFront
  <2> QED BY <1>6, <2>2 DEF TimeIndex, entries, more
<1>9. m = 1
  <2>1. m # 0
    BY <1>1, <1>5, <1>8
  <2>2. ~ (m >= 2)
    <3>1. ASSUME m >= 2 PROVE FALSE
      <4>1. 2 \in 1 .. m /\ 2 \in 1 .. n
        BY <1>1, <3>1
      <4>2. numbers[2] < popped + 1 /\ numbers[2] = popped + 2 - 1
        BY <1>5, <1>8, <4>1
      <4> QED BY <4>2
    <3> QED BY <3>1
  <2> QED BY <1>1, <2>1, <2>2
<1>10. Len(rest) = n - 1
  BY <1>8, <1>9
<1>11. ASSUME NEW k \in 1 .. n - 1 PROVE rest[k] = new[k]
  <2>1. k + 1 \in 1 .. n /\ k \in 1 .. n - m
    BY <1>1, <1>9
  <2>2. rest[k] = old[k + 1]
    BY <1>8, <1>9, <2>1
  <2>3. old[k + 1] = [time |-> log[k + 1].time, number |-> popped + (k + 1) - 1]
    BY <1>3, <2>1
  <2>4. new[k] = [time |-> log[k + 1].time, number |-> (popped + 1) + k - 1]
    BY <1>2, <1>4
  <2>5. popped + (k + 1) - 1 = (popped + 1) + k - 1
    BY <1>1
  <2> QED BY <2>2, <2>3, <2>4, <2>5
<1>12. rest = new
  BY <1>4, <1>8, <1>10, <1>11, SeqEqual DEF TimeIndex
<1> QED BY <1>12 DEF rest, new, old

-----------------------------------------------------------------------------
(* The types of MessageLog. *)

CallRecords == [client : Clients, service : Services, time : 0 .. MaxTime]
StateRecords == [time : 0 .. MaxTime, actors : Seq(Actors), events : BOOLEAN]
ReportRecords == [client : Clients, type : Types, time : 0 .. MaxTime]
Times == [time : 0 .. MaxTime, number : Nat]
Kinds == {"call", "states", "event", "report", "stamped"}

ThreadTypes ==
  /\ running \in BOOLEAN /\ timeNow \in 0 .. MaxTime
  /\ op \in [Threads \cup Reporters -> {Idle} \cup Call \cup States \cup Event \cup Report]

CommTypes ==
  /\ commOn \in BOOLEAN /\ commLimit \in Limits \cup {0}
  /\ commPushed \in Nat /\ commPopped \in Nat
  /\ commLog \in Seq(CallRecords) /\ commTimes \in Seq(Times)
  /\ byClient \in [Clients -> Seq(Nat)] /\ byService \in [Services -> Seq(Nat)]

WorldTypes ==
  /\ worldOn \in BOOLEAN /\ worldLimit \in Limits \cup {0}
  /\ worldPushed \in Nat /\ worldPopped \in Nat
  /\ worldLog \in Seq(StateRecords) /\ worldTimes \in Seq(Times)
  /\ actorIndex \in [Actors -> Seq([number : Nat, entry : Nat])]

DiagTypes ==
  /\ diagLog \in Seq(ReportRecords) /\ diagTimes \in Seq(Times)
  /\ diagByClient \in [Clients -> Seq(Nat)] /\ diagByType \in [Types -> Seq(Nat)]

LEMMA TypesByLog == TypeOK <=> ThreadTypes /\ CommTypes /\ WorldTypes /\ DiagTypes
BY DEF TypeOK, ThreadTypes, CommTypes, WorldTypes, DiagTypes, CallRecords, StateRecords,
       ReportRecords, Times

\* What a thread is about to add.
LEMMA Operations ==
  ASSUME ThreadTypes, NEW t \in Threads \cup Reporters
  PROVE  /\ op[t].kind = "call" => /\ op[t].client \in Clients /\ op[t].service \in Services
                                   /\ op[t].time \in 0 .. MaxTime
         /\ op[t].kind = "states" => op[t].actors \in Seq(Actors) /\ op[t].time \in 0 .. MaxTime
         /\ op[t].kind = "event" => op[t].time \in 0 .. MaxTime
         /\ op[t].kind \in {"report", "stamped"} =>
              op[t] \in Report /\ op[t].client \in Clients /\ op[t].type \in Types /\ op[t].time \in 0 .. MaxTime
<1>1. /\ \A o \in Call : o.kind = "call" /\ o.client \in Clients /\ o.service \in Services /\ o.time \in 0 .. MaxTime
      /\ \A o \in Event : o.kind = "event" /\ o.time \in 0 .. MaxTime
      /\ \A o \in Report : o.kind \in {"report", "stamped"} /\ o.client \in Clients /\ o.type \in Types
                            /\ o.time \in 0 .. MaxTime
  BY DEF Call, Event, Report
<1>2. \A o \in States : o.kind = "states" /\ o.actors \in Seq(Actors) /\ o.time \in 0 .. MaxTime
  <2> DEFINE orders == {s \in Seq(Actors) : Len(s) <= Cardinality(Actors)}
  <2>1. \A s \in orders : s \in Seq(Actors)
    OBVIOUS
  <2>2. States = [kind : {"states"}, actors : orders, time : 0 .. MaxTime]
    BY DEF States
  <2> HIDE DEF orders
  <2> QED BY <2>1, <2>2
<1>3. op[t] \in {Idle} \cup Call \cup States \cup Event \cup Report
  BY DEF ThreadTypes
<1>4. Idle.kind = "idle"
  BY DEF Idle
<1> QED BY <1>1, <1>2, <1>3, <1>4

LEMMA ThreadTypesInit == Init => ThreadTypes
<1>1. 0 \in 0 .. MaxTime
  BY LogAssumption
<1> SUFFICES ASSUME Init PROVE ThreadTypes
  OBVIOUS
<1>2. op \in [Threads \cup Reporters -> {Idle} \cup Call \cup States \cup Event \cup Report]
  <2> DEFINE ops == {Idle} \cup Call \cup States \cup Event \cup Report
  <2>1. Idle \in ops
    OBVIOUS
  <2> HIDE DEF ops
  <2>2. op \in [Threads \cup Reporters -> ops]
    BY <2>1 DEF Init
  <2> QED BY <2>2 DEF ops
<1> QED BY <1>1, <1>2 DEF Init, ThreadTypes

LEMMA ThreadTypesStep == ThreadTypes /\ [Next]_vars => ThreadTypes'
<1> SUFFICES ASSUME ThreadTypes, [Next]_vars PROVE ThreadTypes'
  OBVIOUS
<1> DEFINE ops == {Idle} \cup Call \cup States \cup Event \cup Report
<1>1. running \in BOOLEAN /\ timeNow \in 0 .. MaxTime /\ op \in [Threads \cup Reporters -> ops]
  BY DEF ThreadTypes
<1>2. ASSUME running' \in BOOLEAN, timeNow' \in 0 .. MaxTime, op' \in [Threads \cup Reporters -> ops]
      PROVE  ThreadTypes'
  BY <1>2 DEF ThreadTypes
<1>3. Idle \in ops
  OBVIOUS
<1>4. ASSUME NEW t \in Threads \cup Reporters, NEW o \in ops, UNCHANGED clock, op' = [op EXCEPT ![t] = o]
      PROVE  ThreadTypes'
  <2> HIDE DEF ops
  <2> QED BY <1>1, <1>2, <1>4 DEF clock
<1>5. CASE StartRun \/ AdvanceTime \/ EndRun
  <2>1. op' = op
    BY <1>5 DEF StartRun, AdvanceTime, EndRun
  <2>2. running' \in BOOLEAN
    BY <1>1, <1>5, Zenon DEF StartRun, AdvanceTime, EndRun
  <2>3. timeNow' = timeNow \/ (timeNow < MaxTime /\ timeNow' = timeNow + 1) \/ timeNow' = 0
    BY <1>5 DEF StartRun, AdvanceTime, EndRun
  <2>4. timeNow' \in 0 .. MaxTime
    BY <1>1, <2>3, LogAssumption
  <2> QED BY <1>1, <1>2, <2>1, <2>2, <2>4
<1>6. CASE EnableCommunicationLogging \/ EnableActorRuntimeLogging \/ UNCHANGED vars
  <2>1. UNCHANGED <<clock, op>>
    BY <1>6 DEF EnableCommunicationLogging, EnableActorRuntimeLogging, vars
  <2> QED BY <1>1, <1>2, <2>1 DEF clock
<1>7. ASSUME NEW t \in Threads, BeginCall(t) PROVE ThreadTypes'
  <2>1. PICK c \in Clients, s \in Services :
          op' = [op EXCEPT ![t] = [kind |-> "call", client |-> c, service |-> s, time |-> timeNow]]
    BY <1>7 DEF BeginCall
  <2>2. [kind |-> "call", client |-> c, service |-> s, time |-> timeNow] \in Call
    BY <1>1 DEF Call
  <2> QED BY <1>4, <1>7, <2>1, <2>2 DEF BeginCall
<1>8. ASSUME NEW t \in Threads, BeginStates(t) PROVE ThreadTypes'
  <2>0. PICK S \in SUBSET Actors : \E order \in Orders(S) :
          op' = [op EXCEPT ![t] = [kind |-> "states", actors |-> order, time |-> timeNow]]
    BY <1>8 DEF BeginStates
  <2>1. PICK order \in Orders(S) :
          op' = [op EXCEPT ![t] = [kind |-> "states", actors |-> order, time |-> timeNow]]
    BY <2>0
  <2>2. IsFiniteSet(S) /\ Cardinality(S) \in Nat /\ Cardinality(S) <= Cardinality(Actors)
    BY LogAssumption, FS_Subset, FS_CardinalityType
  <2>3. order \in [1 .. Cardinality(S) -> Actors]
    BY DEF Orders
  <2>4. order \in Seq(Actors) /\ Len(order) = Cardinality(S)
    BY <2>2, <2>3, SeqDef
  <2>5. order \in {s \in Seq(Actors) : Len(s) <= Cardinality(Actors)}
    BY <2>2, <2>4
  <2>6. [kind |-> "states", actors |-> order, time |-> timeNow] \in States
    BY <1>1, <2>5 DEF States
  <2> QED BY <1>4, <1>8, <2>1, <2>6 DEF BeginStates
<1>9. ASSUME NEW t \in Threads, BeginEvent(t) PROVE ThreadTypes'
  <2>1. [kind |-> "event", time |-> timeNow] \in Event
    BY <1>1 DEF Event
  <2> QED BY <1>4, <1>9, <2>1 DEF BeginEvent
<1>10. ASSUME NEW t \in Threads, AddMessage(t) \/ UpdateState(t) \/ CreateState(t) PROVE ThreadTypes'
  <2>1. op' = [op EXCEPT ![t] = Idle] /\ UNCHANGED clock
    BY <1>10 DEF AddMessage, UpdateState, CreateState, clock
  <2> QED BY <1>3, <1>4, <2>1
<1>11. ASSUME NEW d \in Reporters, BeginReport(d) PROVE ThreadTypes'
  <2>1. PICK c \in Clients, y \in Types :
          op' = [op EXCEPT ![d] = [kind |-> "report", client |-> c, type |-> y, time |-> timeNow]]
    BY <1>11 DEF BeginReport
  <2>2. [kind |-> "report", client |-> c, type |-> y, time |-> timeNow] \in Report
    BY <1>1 DEF Report
  <2> QED BY <1>4, <1>11, <2>1, <2>2 DEF BeginReport
<1>12. ASSUME NEW d \in Reporters, IndexReport(d) PROVE ThreadTypes'
  <2>1. op[d] \in Report
    BY <1>12, Operations DEF IndexReport
  <2>2. [op[d] EXCEPT !.kind = "stamped"] \in Report
    BY <2>1 DEF Report
  <2>3. op' = [op EXCEPT ![d] = [op[d] EXCEPT !.kind = "stamped"]]
    BY <1>12 DEF IndexReport
  <2> QED BY <1>4, <1>12, <2>2, <2>3 DEF IndexReport
<1>13. ASSUME NEW d \in Reporters, StoreReport(d) PROVE ThreadTypes'
  <2>1. op' = [op EXCEPT ![d] = Idle] /\ UNCHANGED clock
    BY <1>13 DEF StoreReport
  <2> QED BY <1>3, <1>4, <2>1
<1> QED
  BY <1>5, <1>6, <1>7, <1>8, <1>9, <1>10, <1>11, <1>12, <1>13 DEF Next

-----------------------------------------------------------------------------
(***************************************************************************)
(* The communication log.                                                  *)
(***************************************************************************)
LEMMA CommChanges ==
  [Next]_vars => UNCHANGED comm \/ EnableCommunicationLogging \/ \E t \in Threads : AddMessage(t)
BY DEF Next, vars, StartRun, AdvanceTime, EndRun, EnableActorRuntimeLogging, BeginCall, BeginStates,
       BeginEvent, UpdateState, CreateState, BeginReport, IndexReport, StoreReport

\* The log and its indices.
CommShape(log, clients, services, times, popped) ==
  /\ log \in Seq(CallRecords) /\ times \in Seq(Times) /\ popped \in Nat
  /\ clients \in [Clients -> Seq(Nat)] /\ services \in [Services -> Seq(Nat)]

\* What is kept of them when a message is added.
CommKept(log, clients, services, times, popped) ==
  \/ /\ log = commLog /\ popped = commPopped /\ times = commTimes
     /\ clients = byClient /\ services = byService
  \/ /\ commLog # <<>>
     /\ log = Tail(commLog) /\ popped = commPopped + 1
     /\ times = CullSimTimeIndices(commTimes, commPopped + 1)
     /\ clients = CullInvalidIndices(byClient, commPopped + 1)
     /\ services = CullInvalidIndices(byService, commPopped + 1)

CallRecord(o) == [client |-> o.client, service |-> o.service, time |-> o.time]

\* Adding a message is: keep, then append.
LEMMA AddMessageByParts ==
  ASSUME CommTypes, NEW t \in Threads, AddMessage(t)
  PROVE  \E log, clients, services, times, popped :
           /\ CommKept(log, clients, services, times, popped)
           /\ commLog' = Append(log, CallRecord(op[t])) /\ commPopped' = popped
           /\ byClient' = [clients EXCEPT ![op[t].client] = Append(@, commPushed)]
           /\ byService' = [services EXCEPT ![op[t].service] = Append(@, commPushed)]
           /\ commTimes' = Append(times, [time |-> op[t].time, number |-> commPushed])
<1> DEFINE full == commLimit # 0 /\ Len(commLog) + 1 > commLimit
           e == CallRecord(op[t])
<1>1. CASE ~ full
  <2>1. commPopped + 0 = commPopped
    BY DEF CommTypes
  <2>2. /\ commLog' = Append(commLog, e) /\ commPopped' = commPopped
        /\ byClient' = [byClient EXCEPT ![op[t].client] = Append(@, commPushed)]
        /\ byService' = [byService EXCEPT ![op[t].service] = Append(@, commPushed)]
        /\ commTimes' = Append(commTimes, [time |-> op[t].time, number |-> commPushed])
    BY <1>1, <2>1 DEF AddMessage, CallRecord
  <2> QED BY <2>2 DEF CommKept
<1>2. CASE full
  <2>1. commLog # <<>>
    <3>1. commLimit \in Nat /\ commLimit # 0 /\ Len(commLog) \in Nat
      BY <1>2, LogAssumption, LenProperties DEF CommTypes
    <3>2. Len(commLog) # 0
      BY <1>2, <3>1
    <3> QED BY <3>2, EmptySeq
  <2>2. Tail(Append(commLog, e)) = Append(Tail(commLog), e)
    BY <2>1, HeadTailAppend DEF CommTypes
  <2>3. /\ commLog' = Tail(Append(commLog, e)) /\ commPopped' = commPopped + 1
        /\ byClient' = [CullInvalidIndices(byClient, commPopped + 1) EXCEPT ![op[t].client] = Append(@, commPushed)]
        /\ byService' = [CullInvalidIndices(byService, commPopped + 1) EXCEPT ![op[t].service] = Append(@, commPushed)]
        /\ commTimes' = Append(CullSimTimeIndices(commTimes, commPopped + 1), [time |-> op[t].time, number |-> commPushed])
    BY <1>2 DEF AddMessage, CallRecord
  <2> QED BY <2>1, <2>2, <2>3 DEF CommKept
<1> QED BY <1>1, <1>2

LEMMA CulledTypes ==
  ASSUME NEW popped \in Nat
  PROVE  /\ \A q \in Seq(Nat) : EraseNegativeIndices(q, popped) \in Seq(Nat)
         /\ \A times \in Seq(Times) : CullSimTimeIndices(times, popped) \in Seq(Times)
<1>1. ASSUME NEW q \in Seq(Nat) PROVE EraseNegativeIndices(q, popped) \in Seq(Nat)
  <2>1. \A k \in 1 .. Len(q) : q[k] \in Nat
    BY ElementOfSeq
  <2> QED BY <2>1, EraseFromFront DEF EraseNegativeIndices
<1>2. ASSUME NEW times \in Seq(Times) PROVE CullSimTimeIndices(times, popped) \in Seq(Times)
  <2> DEFINE numbers == [k \in DOMAIN times |-> times[k].number]
  <2>0. \A e \in Times : e.number \in Nat
    BY DEF Times
  <2>1. DOMAIN times = 1 .. Len(times) /\ \A k \in 1 .. Len(times) : times[k] \in Times
    BY LenProperties, ElementOfSeq
  <2>2. \A k \in 1 .. Len(times) : numbers[k] \in Nat
    BY <2>0, <2>1
  <2> HIDE DEF numbers
  <2>3. EraseNegative(times, numbers, popped) \in Seq(Times)
    BY <2>2, EraseFromFront
  <2> QED BY <2>3 DEF CullSimTimeIndices, numbers
<1> QED BY <1>1, <1>2

LEMMA KeptTypes ==
  ASSUME CommTypes, NEW log, NEW clients, NEW services, NEW times, NEW popped,
         CommKept(log, clients, services, times, popped)
  PROVE  CommShape(log, clients, services, times, popped)
<1>1. commPopped \in Nat /\ commPopped + 1 \in Nat
  BY DEF CommTypes
<1>2. /\ CullInvalidIndices(byClient, commPopped + 1) \in [Clients -> Seq(Nat)]
      /\ CullInvalidIndices(byService, commPopped + 1) \in [Services -> Seq(Nat)]
  BY <1>1, CulledTypes DEF CommTypes, CullInvalidIndices
<1>3. CullSimTimeIndices(commTimes, commPopped + 1) \in Seq(Times)
  BY <1>1, CulledTypes DEF CommTypes
<1>4. commLog # <<>> => Tail(commLog) \in Seq(CallRecords)
  BY HeadTailProperties DEF CommTypes
<1> QED BY <1>1, <1>2, <1>3, <1>4 DEF CommKept, CommShape, CommTypes

LEMMA CommTypesStep == ThreadTypes /\ CommTypes /\ [Next]_vars => CommTypes'
<1> SUFFICES ASSUME ThreadTypes, CommTypes, [Next]_vars PROVE CommTypes'
  OBVIOUS
<1>1. CASE UNCHANGED comm
  BY <1>1 DEF comm, CommTypes
<1>2. CASE EnableCommunicationLogging
  BY <1>2 DEF EnableCommunicationLogging, CommTypes
<1>3. ASSUME NEW t \in Threads, AddMessage(t) PROVE CommTypes'
  <2>1. PICK log, clients, services, times, popped :
           /\ CommKept(log, clients, services, times, popped)
           /\ commLog' = Append(log, CallRecord(op[t])) /\ commPopped' = popped
           /\ byClient' = [clients EXCEPT ![op[t].client] = Append(@, commPushed)]
           /\ byService' = [services EXCEPT ![op[t].service] = Append(@, commPushed)]
           /\ commTimes' = Append(times, [time |-> op[t].time, number |-> commPushed])
    BY <1>3, AddMessageByParts
  <2>2. CommShape(log, clients, services, times, popped)
    BY <2>1, KeptTypes
  <2>3. op[t].client \in Clients /\ op[t].service \in Services /\ op[t].time \in 0 .. MaxTime
    BY <1>3, Operations DEF AddMessage
  <2>4. commPushed \in Nat /\ commPushed' = commPushed + 1 /\ UNCHANGED <<commOn, commLimit>>
    BY <1>3 DEF CommTypes, AddMessage
  <2>5. CallRecord(op[t]) \in CallRecords /\ [time |-> op[t].time, number |-> commPushed] \in Times
    BY <2>3, <2>4 DEF CallRecord, CallRecords, Times
  <2>6. commLog' \in Seq(CallRecords) /\ commTimes' \in Seq(Times)
    BY <2>1, <2>2, <2>5, AppendProperties DEF CommShape
  <2>7. /\ byClient' \in [Clients -> Seq(Nat)]
        /\ byService' \in [Services -> Seq(Nat)]
    <3>1. \A q \in Seq(Nat) : Append(q, commPushed) \in Seq(Nat)
      BY <2>4, AppendProperties
    <3> QED BY <2>1, <2>2, <2>3, <3>1 DEF CommShape
  <2>8. commPopped' \in Nat
    BY <2>1, <2>2 DEF CommShape
  <2> QED BY <2>4, <2>6, <2>7, <2>8 DEF CommTypes
<1> QED BY <1>1, <1>2, <1>3, CommChanges

\* Adding a number at the end of an index, and dropping the oldest message.
LEMMA ListsGrow ==
  ASSUME NEW index \in Seq(Nat), NEW n \in Nat, NEW P \in SUBSET (1 .. n), NEW popped \in Nat,
         Lists(index, P, popped)
  PROVE  Lists(Append(index, popped + n), P \cup {n + 1}, popped)
<1> DEFINE m == Len(index)
           longer == Append(index, popped + n)
<1>1. m \in Nat /\ DOMAIN index = 1 .. m /\ popped + n \in Nat /\ \A k \in 1 .. m : index[k] \in Nat
  BY LenProperties, ElementOfSeq
<1>2. /\ longer \in Seq(Nat) /\ Len(longer) = m + 1
      /\ \A k \in 1 .. m : longer[k] = index[k]
      /\ longer[m + 1] = popped + n
  BY <1>1, AppendProperties
<1>3. DOMAIN longer = 1 .. m + 1
  BY <1>2, LenProperties
<1> HIDE DEF m, longer
<1>4. /\ \A i, j \in 1 .. m : i < j => index[i] < index[j]
      /\ {index[k] : k \in 1 .. m} = {popped + k - 1 : k \in P}
  BY <1>1 DEF Lists
<1>5. \A k \in 1 .. m : index[k] < popped + n
  <2> SUFFICES ASSUME NEW k \in 1 .. m PROVE index[k] < popped + n
    OBVIOUS
  <2>1. PICK p \in P : index[k] = popped + p - 1
    BY <1>4
  <2>2. p \in 1 .. n
    OBVIOUS
  <2> QED BY <2>1, <2>2
<1>6. \A k \in 1 .. m + 1 : k \in 1 .. m \/ k = m + 1
  BY <1>1
<1>7. \A i, j \in 1 .. m + 1 : i < j => longer[i] < longer[j]
  <2> SUFFICES ASSUME NEW i \in 1 .. m + 1, NEW j \in 1 .. m + 1, i < j PROVE longer[i] < longer[j]
    OBVIOUS
  <2>1. i \in 1 .. m
    BY <1>1
  <2>2. CASE j \in 1 .. m
    BY <1>2, <1>4, <2>1, <2>2
  <2>3. CASE j = m + 1
    BY <1>2, <1>5, <2>1, <2>3
  <2> QED BY <1>6, <2>2, <2>3
<1>8. {longer[k] : k \in 1 .. m + 1} = {popped + k - 1 : k \in P \cup {n + 1}}
  <2>1. popped + (n + 1) - 1 = popped + n
    OBVIOUS
  <2>2. {longer[k] : k \in 1 .. m + 1} = {index[k] : k \in 1 .. m} \cup {popped + n}
    <3>1. m + 1 \in 1 .. m + 1 /\ \A k \in 1 .. m : k \in 1 .. m + 1
      BY <1>1
    <3> QED BY <1>2, <1>6, <3>1
  <2>3. {popped + k - 1 : k \in P \cup {n + 1}} = {popped + k - 1 : k \in P} \cup {popped + n}
    BY <2>1
  <2> QED BY <1>4, <2>2, <2>3
<1> QED BY <1>3, <1>7, <1>8 DEF Lists, longer

LEMMA ListsShrink ==
  ASSUME NEW index \in Seq(Nat), NEW n \in Nat, NEW P \in SUBSET (1 .. n), NEW popped \in Nat,
         Lists(index, P, popped)
  PROVE  Lists(EraseNegativeIndices(index, popped + 1), {k \in 1 .. n - 1 : k + 1 \in P}, popped + 1)
<1> DEFINE rest == EraseNegativeIndices(index, popped + 1)
           Q == {k \in 1 .. n - 1 : k + 1 \in P}
<1>1. popped + 1 \in Nat /\ \A i, j \in DOMAIN index : i < j => index[i] < index[j]
  BY DEF Lists
<1>2. /\ \A i, j \in DOMAIN rest : i < j => rest[i] < rest[j]
      /\ {rest[k] : k \in DOMAIN rest} = {i \in {index[k] : k \in DOMAIN index} : i >= popped + 1}
  BY <1>1, EraseKeepsLive
<1>3. {index[k] : k \in DOMAIN index} = {popped + k - 1 : k \in P}
  BY DEF Lists
<1> HIDE DEF rest
<1>4. {i \in {popped + k - 1 : k \in P} : i >= popped + 1} = {(popped + 1) + k - 1 : k \in Q}
  <2>1. ASSUME NEW p \in P, popped + p - 1 >= popped + 1
        PROVE  popped + p - 1 \in {(popped + 1) + k - 1 : k \in Q}
    <3>1. p \in 1 .. n
      OBVIOUS
    <3>2. p - 1 \in Q /\ popped + p - 1 = (popped + 1) + (p - 1) - 1
      <4>1. (p - 1) + 1 = p /\ p - 1 \in 1 .. n - 1
        BY <2>1, <3>1
      <4> QED BY <3>1, <4>1
    <3> QED BY <3>2
  <2>2. ASSUME NEW k \in Q
        PROVE  (popped + 1) + k - 1 \in {i \in {popped + p - 1 : p \in P} : i >= popped + 1}
    <3>1. k + 1 \in P /\ (popped + 1) + k - 1 = popped + (k + 1) - 1 /\ popped + (k + 1) - 1 >= popped + 1
      OBVIOUS
    <3> QED BY <3>1
  <2> QED BY <2>1, <2>2
<1> QED BY <1>2, <1>3, <1>4 DEF Lists, rest

OfClient(log, c) == {k \in DOMAIN log : log[k].client = c}
OfService(log, s) == {k \in DOMAIN log : log[k].service = s}
OfType(log, y) == {k \in DOMAIN log : log[k].type = y}

LEMMA PositionsShrink ==
  ASSUME NEW log \in Seq(CallRecords), log # <<>>, NEW x
  PROVE  /\ OfClient(Tail(log), x) = {k \in 1 .. Len(log) - 1 : k + 1 \in OfClient(log, x)}
         /\ OfService(Tail(log), x) = {k \in 1 .. Len(log) - 1 : k + 1 \in OfService(log, x)}
         /\ OfClient(log, x) \in SUBSET (1 .. Len(log)) /\ OfService(log, x) \in SUBSET (1 .. Len(log))
<1>1. Len(log) \in Nat /\ DOMAIN log = 1 .. Len(log)
  BY LenProperties
<1>2. /\ Tail(log) \in Seq(CallRecords) /\ Len(Tail(log)) = Len(log) - 1
      /\ \A k \in 1 .. Len(log) - 1 : Tail(log)[k] = log[k + 1]
  BY HeadTailProperties
<1>3. DOMAIN Tail(log) = 1 .. Len(log) - 1
  BY <1>2, LenProperties
<1>4. \A k \in 1 .. Len(log) - 1 : k + 1 \in 1 .. Len(log)
  BY <1>1
<1> QED BY <1>1, <1>2, <1>3, <1>4 DEF OfClient, OfService

LEMMA PositionsGrow ==
  ASSUME NEW S, NEW log \in Seq(S), NEW e \in S, NEW x
  PROVE  /\ OfClient(Append(log, e), x)
               = IF e.client = x THEN OfClient(log, x) \cup {Len(log) + 1} ELSE OfClient(log, x)
         /\ OfService(Append(log, e), x)
               = IF e.service = x THEN OfService(log, x) \cup {Len(log) + 1} ELSE OfService(log, x)
         /\ OfType(Append(log, e), x)
               = IF e.type = x THEN OfType(log, x) \cup {Len(log) + 1} ELSE OfType(log, x)
         /\ OfClient(log, x) \in SUBSET (1 .. Len(log)) /\ OfService(log, x) \in SUBSET (1 .. Len(log))
         /\ OfType(log, x) \in SUBSET (1 .. Len(log))
<1> DEFINE n == Len(log)
           longer == Append(log, e)
<1>1. n \in Nat /\ DOMAIN log = 1 .. n
  BY LenProperties
<1>2. /\ longer \in Seq(S) /\ Len(longer) = n + 1
      /\ \A k \in 1 .. n : longer[k] = log[k]
      /\ longer[n + 1] = e
  BY AppendProperties
<1>3. DOMAIN longer = 1 .. n + 1
  BY <1>2, LenProperties
<1>4. 1 .. n + 1 = (1 .. n) \cup {n + 1} /\ n + 1 \notin 1 .. n
  BY <1>1
<1> HIDE DEF n, longer
<1>5. OfClient(longer, x) = IF e.client = x THEN OfClient(log, x) \cup {n + 1} ELSE OfClient(log, x)
  BY <1>1, <1>2, <1>3, <1>4 DEF OfClient
<1>6. OfService(longer, x) = IF e.service = x THEN OfService(log, x) \cup {n + 1} ELSE OfService(log, x)
  BY <1>1, <1>2, <1>3, <1>4 DEF OfService
<1>7. OfType(longer, x) = IF e.type = x THEN OfType(log, x) \cup {n + 1} ELSE OfType(log, x)
  BY <1>1, <1>2, <1>3, <1>4 DEF OfType
<1>8. /\ OfClient(log, x) \in SUBSET (1 .. n) /\ OfService(log, x) \in SUBSET (1 .. n)
      /\ OfType(log, x) \in SUBSET (1 .. n)
  BY <1>1 DEF OfClient, OfService, OfType
<1> QED BY <1>5, <1>6, <1>7, <1>8 DEF n, longer

\* The indices follow the log.
CommFollows(log, clients, services, times, popped) ==
  /\ \A c \in Clients : Lists(clients[c], OfClient(log, c), popped)
  /\ \A s \in Services : Lists(services[s], OfService(log, s), popped)
  /\ times = IndexOf(log, popped)

LEMMA CommFollowsInit ==
  Init => IndicesFollowLog
<1> SUFFICES ASSUME Init PROVE IndicesFollowLog
  OBVIOUS
<1>1. Len(<<>>) = 0 /\ DOMAIN <<>> = {}
  OBVIOUS
<1>2. \A popped : Lists(<<>>, {}, popped)
  BY <1>1 DEF Lists
<1>3. [k \in {} |-> [time |-> commLog[k].time, number |-> commPopped + k - 1]] = <<>>
  OBVIOUS
<1>4. /\ \A c \in Clients : {k \in DOMAIN commLog : commLog[k].client = c} = {}
      /\ \A s \in Services : {k \in DOMAIN commLog : commLog[k].service = s} = {}
      /\ DOMAIN commLog = {}
  BY <1>1 DEF Init
<1> QED BY <1>1, <1>2, <1>3, <1>4 DEF Init, IndicesFollowLog

LEMMA CommRecordTimes == \A e \in CallRecords : e.time \in Nat
<1>1. 0 .. MaxTime \subseteq Nat
  OBVIOUS
<1> QED BY <1>1 DEF CallRecords

LEMMA FollowsInParts ==
  IndicesFollowLog <=> /\ Len(commLog) = commPushed - commPopped
                       /\ CommFollows(commLog, byClient, byService, commTimes, commPopped)
BY DEF IndicesFollowLog, CommFollows, OfClient, OfService, IndexOf

LEMMA KeptFollows ==
  ASSUME CommTypes, IndicesFollowLog, NEW log, NEW clients, NEW services, NEW times, NEW popped,
         CommKept(log, clients, services, times, popped)
  PROVE  CommFollows(log, clients, services, times, popped) /\ popped + Len(log) = commPushed
<1>1. CommFollows(commLog, byClient, byService, commTimes, commPopped) /\ Len(commLog) = commPushed - commPopped
  BY FollowsInParts
<1>2. commPopped \in Nat /\ commPushed \in Nat /\ Len(commLog) \in Nat
  BY LenProperties DEF CommTypes
<1>3. commPopped + Len(commLog) = commPushed
  BY <1>1, <1>2
<1>4. CASE log = commLog /\ popped = commPopped /\ times = commTimes /\ clients = byClient /\ services = byService
  BY <1>1, <1>3, <1>4
<1>5. ASSUME commLog # <<>>, log = Tail(commLog), popped = commPopped + 1,
             times = CullSimTimeIndices(commTimes, commPopped + 1),
             clients = CullInvalidIndices(byClient, commPopped + 1),
             services = CullInvalidIndices(byService, commPopped + 1)
      PROVE  CommFollows(log, clients, services, times, popped) /\ popped + Len(log) = commPushed
  <2>1. commLog \in Seq(CallRecords)
    BY DEF CommTypes
  <2>2. times = IndexOf(log, popped)
    BY <1>1, <1>2, <1>5, <2>1, CommRecordTimes, IndexShrinks DEF CommFollows
  <2>3. Len(log) = Len(commLog) - 1
    BY <1>5, <2>1, HeadTailProperties
  <2>4. ASSUME NEW c \in Clients PROVE Lists(clients[c], OfClient(log, c), popped)
    <3>1. byClient[c] \in Seq(Nat) /\ Lists(byClient[c], OfClient(commLog, c), commPopped)
      BY <1>1 DEF CommTypes, CommFollows
    <3>2. /\ OfClient(log, c) = {k \in 1 .. Len(commLog) - 1 : k + 1 \in OfClient(commLog, c)}
          /\ OfClient(commLog, c) \in SUBSET (1 .. Len(commLog))
      BY <1>5, <2>1, PositionsShrink
    <3>3. clients[c] = EraseNegativeIndices(byClient[c], commPopped + 1)
      BY <1>5 DEF CullInvalidIndices, CommTypes
    <3> QED BY <1>2, <1>5, <3>1, <3>2, <3>3, ListsShrink
  <2>5. ASSUME NEW s \in Services PROVE Lists(services[s], OfService(log, s), popped)
    <3>1. byService[s] \in Seq(Nat) /\ Lists(byService[s], OfService(commLog, s), commPopped)
      BY <1>1 DEF CommTypes, CommFollows
    <3>2. /\ OfService(log, s) = {k \in 1 .. Len(commLog) - 1 : k + 1 \in OfService(commLog, s)}
          /\ OfService(commLog, s) \in SUBSET (1 .. Len(commLog))
      BY <1>5, <2>1, PositionsShrink
    <3>3. services[s] = EraseNegativeIndices(byService[s], commPopped + 1)
      BY <1>5 DEF CullInvalidIndices, CommTypes
    <3> QED BY <1>2, <1>5, <3>1, <3>2, <3>3, ListsShrink
  <2>6. popped + Len(log) = commPushed
    BY <1>2, <1>3, <1>5, <2>3
  <2> QED BY <2>2, <2>4, <2>5, <2>6 DEF CommFollows
<1> QED BY <1>4, <1>5 DEF CommKept

LEMMA IndicesStep ==
  ThreadTypes /\ CommTypes /\ IndicesFollowLog /\ [Next]_vars => IndicesFollowLog'
<1> SUFFICES ASSUME ThreadTypes, CommTypes, IndicesFollowLog, [Next]_vars PROVE IndicesFollowLog'
  OBVIOUS
<1>1. CASE UNCHANGED comm \/ EnableCommunicationLogging
  <2>1. UNCHANGED <<commLog, commPushed, commPopped, byClient, byService, commTimes>>
    BY <1>1 DEF comm, EnableCommunicationLogging
  <2> QED BY <2>1 DEF IndicesFollowLog
<1>2. ASSUME NEW t \in Threads, AddMessage(t) PROVE IndicesFollowLog'
  <2> DEFINE e == CallRecord(op[t])
  <2>1. PICK log, clients, services, times, popped :
           /\ CommKept(log, clients, services, times, popped)
           /\ commLog' = Append(log, CallRecord(op[t])) /\ commPopped' = popped
           /\ byClient' = [clients EXCEPT ![op[t].client] = Append(@, commPushed)]
           /\ byService' = [services EXCEPT ![op[t].service] = Append(@, commPushed)]
           /\ commTimes' = Append(times, [time |-> op[t].time, number |-> commPushed])
    BY <1>2, AddMessageByParts
  <2>2. CommShape(log, clients, services, times, popped)
    BY <2>1, KeptTypes
  <2>3. CommFollows(log, clients, services, times, popped) /\ popped + Len(log) = commPushed
    BY <2>1, KeptFollows
  <2>4. op[t].client \in Clients /\ op[t].service \in Services /\ op[t].time \in 0 .. MaxTime
    BY <1>2, Operations DEF AddMessage
  <2>5. e \in CallRecords /\ e.client = op[t].client /\ e.service = op[t].service /\ e.time = op[t].time
    BY <2>4 DEF CallRecord, CallRecords
  <2> HIDE DEF e
  <2>6. log \in Seq(CallRecords) /\ Len(log) \in Nat /\ popped \in Nat /\ commLog' = Append(log, e)
    BY <2>1, <2>2, LenProperties DEF CommShape, e
  <2>7. commTimes' = IndexOf(commLog', commPopped')
    <3>1. IndexOf(Append(log, e), popped) = Append(IndexOf(log, popped), [time |-> e.time, number |-> popped + Len(log)])
      BY <2>5, <2>6, CommRecordTimes, IndexGrows
    <3> QED BY <2>1, <2>3, <2>5, <2>6, <3>1 DEF CommFollows
  <2>8. ASSUME NEW c \in Clients PROVE Lists(byClient'[c], OfClient(commLog', c), commPopped')
    <3>1. clients[c] \in Seq(Nat) /\ Lists(clients[c], OfClient(log, c), popped)
      BY <2>2, <2>3 DEF CommShape, CommFollows
    <3>2. /\ OfClient(commLog', c) = IF e.client = c THEN OfClient(log, c) \cup {Len(log) + 1} ELSE OfClient(log, c)
          /\ OfClient(log, c) \in SUBSET (1 .. Len(log))
      BY <2>5, <2>6, PositionsGrow
    <3>3. byClient'[c] = IF e.client = c THEN Append(clients[c], commPushed) ELSE clients[c]
      BY <2>1, <2>2, <2>5 DEF CommShape
    <3>4. Lists(Append(clients[c], popped + Len(log)), OfClient(log, c) \cup {Len(log) + 1}, popped)
      BY <2>6, <3>1, <3>2, ListsGrow
    <3> QED BY <2>1, <2>3, <3>1, <3>2, <3>3, <3>4
  <2>9. ASSUME NEW s \in Services PROVE Lists(byService'[s], OfService(commLog', s), commPopped')
    <3>1. services[s] \in Seq(Nat) /\ Lists(services[s], OfService(log, s), popped)
      BY <2>2, <2>3 DEF CommShape, CommFollows
    <3>2. /\ OfService(commLog', s) = IF e.service = s THEN OfService(log, s) \cup {Len(log) + 1} ELSE OfService(log, s)
          /\ OfService(log, s) \in SUBSET (1 .. Len(log))
      BY <2>5, <2>6, PositionsGrow
    <3>3. byService'[s] = IF e.service = s THEN Append(services[s], commPushed) ELSE services[s]
      BY <2>1, <2>2, <2>5 DEF CommShape
    <3>4. Lists(Append(services[s], popped + Len(log)), OfService(log, s) \cup {Len(log) + 1}, popped)
      BY <2>6, <3>1, <3>2, ListsGrow
    <3> QED BY <2>1, <2>3, <3>1, <3>2, <3>3, <3>4
  <2>10. Len(commLog') = commPushed' - commPopped'
    <3>1. Len(Append(log, e)) = Len(log) + 1
      BY <2>5, <2>6, AppendProperties
    <3>2. commPushed' = commPushed + 1 /\ commPushed \in Nat
      BY <1>2 DEF AddMessage, CommTypes
    <3>3. (commPushed + 1) - popped = Len(log) + 1
      BY <2>3, <2>6, <3>2
    <3> QED BY <2>1, <2>6, <3>1, <3>2, <3>3
  <2>11. CommFollows(commLog', byClient', byService', commTimes', commPopped')
    BY <2>7, <2>8, <2>9 DEF CommFollows
  <2> QED BY <2>10, <2>11 DEF IndicesFollowLog, CommFollows, OfClient, OfService, IndexOf
<1> QED BY <1>1, <1>2, CommChanges

\* A query by time, as the positions in the log.
LEMMA TimeQuery ==
  ASSUME NEW S, \A e \in S : e.time \in Nat, NEW log \in Seq(S), NEW popped \in Nat,
         NEW times, times = IndexOf(log, popped), Sorted(times), NEW start \in Nat, NEW end \in Nat
  PROVE  Positions(GetIndicesForTime(start, end, times, popped))
           = {k - 1 : k \in {j \in DOMAIN log : InTime(log[j], start, end)}}
<1>1. /\ times \in TimeIndex /\ Follows(times, popped) /\ DOMAIN times = 1 .. Len(log)
      /\ \A k \in 1 .. Len(log) : times[k].time = log[k].time
  BY IndexOfTypes
<1>2. DOMAIN log = 1 .. Len(log)
  BY LenProperties
<1>3. Positions(GetIndicesForTime(start, end, times, popped)) = Within(times, start, end)
  BY <1>1, TimeQueriesAreExact
<1>4. {j \in DOMAIN times : start <= times[j].time /\ times[j].time <= end}
        = {j \in DOMAIN log : InTime(log[j], start, end)}
  BY <1>1, <1>2 DEF InTime
<1> QED BY <1>3, <1>4 DEF Within

LEMMA NamedQuery ==
  ASSUME NEW index, NEW key, NEW P \in SUBSET Nat, commPopped \in Nat, Lists(index[key], P, commPopped)
  PROVE  GetLogIndices(index, {key}) = {k - 1 : k \in P}
<1>1. {index[key][k] : k \in DOMAIN index[key]} = {commPopped + k - 1 : k \in P}
  BY DEF Lists
<1>2. UNION {{index[c][k] : k \in DOMAIN index[c]} : c \in {key}} = {index[key][k] : k \in DOMAIN index[key]}
  OBVIOUS
<1>3. GetLogIndices(index, {key}) = {i - commPopped : i \in {commPopped + k - 1 : k \in P}}
  BY <1>1, <1>2 DEF GetLogIndices
<1>4. \A k \in P : (commPopped + k - 1) - commPopped = k - 1
  OBVIOUS
<1>5. {i - commPopped : i \in {commPopped + k - 1 : k \in P}} = {k - 1 : k \in P}
  <2>1. ASSUME NEW k \in P PROVE k - 1 \in {i - commPopped : i \in {commPopped + p - 1 : p \in P}}
    <3>1. commPopped + k - 1 \in {commPopped + p - 1 : p \in P}
      OBVIOUS
    <3> QED BY <1>4, <3>1
  <2>2. ASSUME NEW i \in {commPopped + p - 1 : p \in P} PROVE i - commPopped \in {k - 1 : k \in P}
    BY <1>4
  <2> QED BY <2>1, <2>2
<1> QED BY <1>3, <1>5

LEMMA CallQueries == CommTypes /\ IndicesFollowLog => CallQueriesAreExact
<1> SUFFICES ASSUME CommTypes, IndicesFollowLog, Sorted(commTimes),
                    NEW c \in Clients, NEW s \in Services, NEW start \in 0 .. MaxTime, NEW end \in 0 .. MaxTime,
                    {k \in DOMAIN commLog : commLog[k].client = c \/ commLog[k].service = s} # {}
             PROVE  RetrieveCalls({c}, {s}, start, end)
                      = {k - 1 : k \in {j \in {k \in DOMAIN commLog : commLog[k].client = c \/ commLog[k].service = s} :
                                         InTime(commLog[j], start, end)}}
  BY DEF CallQueriesAreExact
<1> DEFINE wanted == {k \in DOMAIN commLog : commLog[k].client = c \/ commLog[k].service = s}
           timely == {j \in DOMAIN commLog : InTime(commLog[j], start, end)}
           named == GetLogIndices(byClient, {c}) \cup GetLogIndices(byService, {s})
           timed == Positions(GetIndicesForTime(start, end, commTimes, commPopped))
<1>1. CommFollows(commLog, byClient, byService, commTimes, commPopped)
  BY FollowsInParts
<1>2. commLog \in Seq(CallRecords) /\ commPopped \in Nat /\ DOMAIN commLog = 1 .. Len(commLog) /\ Len(commLog) \in Nat
  BY LenProperties DEF CommTypes
<1>3. start \in Nat /\ end \in Nat /\ start >= 0
  BY LogAssumption
<1>4. timed = {k - 1 : k \in timely}
  <2>1. commTimes = IndexOf(commLog, commPopped) /\ Sorted(commTimes)
    BY <1>1 DEF CommFollows
  <2>2. \A e \in CallRecords : e.time \in Nat
    BY CommRecordTimes
  <2>3. commLog \in Seq(CallRecords) /\ commPopped \in Nat /\ start \in Nat /\ end \in Nat
    BY <1>2, <1>3
  <2>4. Positions(GetIndicesForTime(start, end, commTimes, commPopped))
          = {k - 1 : k \in {j \in DOMAIN commLog : InTime(commLog[j], start, end)}}
    BY <2>1, <2>2, <2>3, TimeQuery
  <2> QED BY <2>4
<1>5. GetLogIndices(byClient, {c}) = {k - 1 : k \in OfClient(commLog, c)}
  <2>1. OfClient(commLog, c) \in SUBSET Nat
    BY <1>2 DEF OfClient
  <2> QED BY <1>1, <1>2, <2>1, NamedQuery DEF CommFollows
<1>6. GetLogIndices(byService, {s}) = {k - 1 : k \in OfService(commLog, s)}
  <2>1. OfService(commLog, s) \in SUBSET Nat
    BY <1>2 DEF OfService
  <2> QED BY <1>1, <1>2, <2>1, NamedQuery DEF CommFollows
<1>7. wanted = OfClient(commLog, c) \cup OfService(commLog, s)
  BY DEF OfClient, OfService
<1>8. RetrieveCalls({c}, {s}, start, end) = IF named # {} THEN named \cap timed ELSE timed
  BY <1>3 DEF RetrieveCalls
<1>9. wanted \subseteq Nat /\ timely \subseteq Nat /\ wanted # {}
  BY <1>2
<1> HIDE DEF named, timed
<1>10. named = {k - 1 : k \in wanted}
  BY <1>5, <1>6, <1>7 DEF named
<1>11. {k - 1 : k \in {j \in wanted : InTime(commLog[j], start, end)}} = {k - 1 : k \in wanted \cap timely}
  <2>1. {j \in wanted : InTime(commLog[j], start, end)} = wanted \cap timely
    OBVIOUS
  <2> QED BY <2>1
<1> HIDE DEF wanted, timely
<1>12. {k - 1 : k \in wanted} \cap {k - 1 : k \in timely} = {k - 1 : k \in wanted \cap timely}
  <2>1. ASSUME NEW k \in wanted, NEW j \in timely, k - 1 = j - 1 PROVE k \in wanted \cap timely
    <3>1. k \in Nat /\ j \in Nat
      BY <1>9
    <3>2. k = j
      BY <2>1, <3>1
    <3> QED BY <3>2
  <2> QED BY <2>1
<1>13. {k - 1 : k \in wanted} # {}
  BY <1>9
<1> QED BY <1>4, <1>8, <1>10, <1>11, <1>12, <1>13 DEF wanted

LEMMA CommTypesInit == Init => CommTypes
<1> SUFFICES ASSUME Init PROVE CommTypes
  OBVIOUS
<1>1. \A S : <<>> \in Seq(S)
  BY EmptySeq
<1> QED BY <1>1 DEF Init, CommTypes

\* The three indices of the communication log (MessageLogger::AddMessage and
\* CullInvalidIndices) list exactly the messages that are left in it, whatever was
\* added, by however many threads and in whatever order of times, and however often
\* the length of the log was changed.
THEOREM IndicesAlwaysFollow == Spec => []IndicesFollowLog
<1> DEFINE Inv == ThreadTypes /\ CommTypes /\ IndicesFollowLog
<1>1. Init => Inv
  BY ThreadTypesInit, CommTypesInit, CommFollowsInit
<1>2. Inv /\ [Next]_vars => Inv'
  BY ThreadTypesStep, CommTypesStep, IndicesStep
<1> QED BY <1>1, <1>2, PTL DEF Spec

\* A query of the calls by client or service and time (RetrieveMessages) is exact
\* while the log is sorted by time.
THEOREM CallQueriesAlwaysExact == Spec => []CallQueriesAreExact
<1> DEFINE Inv == ThreadTypes /\ CommTypes /\ IndicesFollowLog
<1>1. Init => Inv
  BY ThreadTypesInit, CommTypesInit, CommFollowsInit
<1>2. Inv /\ [Next]_vars => Inv'
  BY ThreadTypesStep, CommTypesStep, IndicesStep
<1>3. Inv => CallQueriesAreExact
  BY CallQueries
<1> QED BY <1>1, <1>2, <1>3, PTL DEF Spec

-----------------------------------------------------------------------------
(***************************************************************************)
(* The world log.                                                          *)
(***************************************************************************)
LEMMA WorldChanges ==
  [Next]_vars => UNCHANGED world \/ EnableActorRuntimeLogging
                   \/ \E t \in Threads : UpdateState(t) \/ CreateState(t)
BY DEF Next, vars, StartRun, AdvanceTime, EndRun, EnableCommunicationLogging, BeginCall, AddMessage,
       BeginStates, BeginEvent, BeginReport, IndexReport, StoreReport

StateRecord(o) == [time |-> o.time, actors |-> ActorsOf(o), events |-> o.kind = "event"]

LEMMA StateRecordTypes ==
  ASSUME ThreadTypes, NEW t \in Threads, op[t].kind \in {"states", "event"}
  PROVE  /\ op[t].time \in 0 .. MaxTime /\ ActorsOf(op[t]) \in Seq(Actors)
         /\ StateRecord(op[t]) \in StateRecords /\ StateRecord(op[t]).time = op[t].time
<1>1. op[t].time \in 0 .. MaxTime
  BY Operations
<1>2. ActorsOf(op[t]) \in Seq(Actors)
  <2>1. <<>> \in Seq(Actors)
    BY EmptySeq
  <2> QED BY <2>1, Operations DEF ActorsOf
<1>3. (op[t].kind = "event") \in BOOLEAN
  OBVIOUS
<1> QED BY <1>1, <1>2, <1>3 DEF StateRecord, StateRecords

LEMMA StateRecordTimes ==
  \A e \in StateRecords : e.time \in Nat /\ e.actors \in Seq(Actors)
<1>1. 0 .. MaxTime \subseteq Nat
  OBVIOUS
<1> QED BY <1>1 DEF StateRecords

\* An update of the actor index writes numbers and entries.
LEMMA ActorIndexTypes ==
  ASSUME ThreadTypes, WorldTypes, NEW t \in Threads, op[t].kind \in {"states", "event"}, NEW offset \in Nat
  PROVE  IndexActors(op[t], offset) \in [Actors -> Seq([number : Nat, entry : Nat])]
<1> DEFINE entries == [number : Nat, entry : Nat]
           added == ActorsOf(op[t])
           at(a) == {k \in DOMAIN added : added[k] = a}
           entry(a) == [number |-> worldPushed, entry |-> offset + (CHOOSE k \in at(a) : TRUE)]
<1>1. added \in Seq(Actors) /\ DOMAIN added = 1 .. Len(added)
  BY StateRecordTypes, LenProperties
<1>2. worldPushed \in Nat /\ \A a \in Actors : actorIndex[a] \in Seq(entries)
  BY DEF WorldTypes
<1>3. ASSUME NEW a \in Actors, at(a) # {} PROVE entry(a) \in entries
  <2>1. (CHOOSE k \in at(a) : TRUE) \in at(a)
    BY <1>3
  <2>2. (CHOOSE k \in at(a) : TRUE) \in Nat
    BY <1>1, <2>1
  <2> QED BY <1>2, <2>2
<1>4. IndexActors(op[t], offset) = [a \in Actors |-> IF at(a) = {} THEN actorIndex[a] ELSE Append(actorIndex[a], entry(a))]
  BY DEF IndexActors
<1> HIDE DEF entry, at, added, entries
<1>5. ASSUME NEW a \in Actors
      PROVE  (IF at(a) = {} THEN actorIndex[a] ELSE Append(actorIndex[a], entry(a))) \in Seq(entries)
  <2>1. CASE at(a) = {}
    BY <1>2, <2>1
  <2>2. CASE at(a) # {}
    <3>1. Append(actorIndex[a], entry(a)) \in Seq(entries)
      BY <1>2, <1>3, <2>2, AppendProperties
    <3> QED BY <2>2, <3>1
  <2> QED BY <2>1, <2>2
<1> QED BY <1>4, <1>5 DEF entries

\* What is kept of the log and of its time index when a state is added.
WorldKept(log, times, popped) ==
  \/ log = worldLog /\ popped = worldPopped /\ times = worldTimes
  \/ /\ worldLog # <<>> /\ log = Tail(worldLog) /\ popped = worldPopped + 1
     /\ times = CullSimTimeIndices(worldTimes, worldPopped + 1)

LEMMA CreateStateByParts ==
  ASSUME WorldTypes, NEW t \in Threads, CreateState(t)
  PROVE  \E log, times, popped :
           /\ WorldKept(log, times, popped)
           /\ worldLog' = Append(log, StateRecord(op[t])) /\ worldPopped' = popped
           /\ worldTimes' = Append(times, [time |-> op[t].time, number |-> worldPushed])
<1> DEFINE full == worldLimit # 0 /\ Len(worldLog) + 1 > worldLimit
           e == StateRecord(op[t])
<1>1. CASE ~ full
  <2>1. worldPopped + 0 = worldPopped
    BY DEF WorldTypes
  <2>2. /\ worldLog' = Append(worldLog, e) /\ worldPopped' = worldPopped
        /\ worldTimes' = Append(worldTimes, [time |-> op[t].time, number |-> worldPushed])
    BY <1>1, <2>1 DEF CreateState, StateRecord
  <2> QED BY <2>2 DEF WorldKept
<1>2. CASE full
  <2>1. worldLog # <<>>
    <3>1. worldLimit \in Nat /\ worldLimit # 0 /\ Len(worldLog) \in Nat
      BY <1>2, LogAssumption, LenProperties DEF WorldTypes
    <3>2. Len(worldLog) # 0
      BY <1>2, <3>1
    <3> QED BY <3>2, EmptySeq
  <2>2. Tail(Append(worldLog, e)) = Append(Tail(worldLog), e)
    BY <2>1, HeadTailAppend DEF WorldTypes
  <2>3. /\ worldLog' = Tail(Append(worldLog, e)) /\ worldPopped' = worldPopped + 1
        /\ worldTimes' = Append(CullSimTimeIndices(worldTimes, worldPopped + 1),
                                [time |-> op[t].time, number |-> worldPushed])
    BY <1>2 DEF CreateState, StateRecord
  <2> QED BY <2>1, <2>2, <2>3 DEF WorldKept
<1> QED BY <1>1, <1>2

LEMMA WorldKeptTypes ==
  ASSUME WorldTypes, NEW log, NEW times, NEW popped, WorldKept(log, times, popped)
  PROVE  log \in Seq(StateRecords) /\ times \in Seq(Times) /\ popped \in Nat
<1>1. worldPopped \in Nat /\ worldPopped + 1 \in Nat
  BY DEF WorldTypes
<1>2. CullSimTimeIndices(worldTimes, worldPopped + 1) \in Seq(Times)
  BY <1>1, CulledTypes DEF WorldTypes
<1>3. worldLog # <<>> => Tail(worldLog) \in Seq(StateRecords)
  BY HeadTailProperties DEF WorldTypes
<1> QED BY <1>1, <1>2, <1>3 DEF WorldKept, WorldTypes

\* The new last state when an update joins it.
Joined(o) ==
  [worldLog[Len(worldLog)] EXCEPT !.actors = @ \o ActorsOf(o), !.events = @ \/ o.kind = "event"]

LEMMA UpdateStateByParts ==
  ASSUME ThreadTypes, WorldTypes, NEW t \in Threads, UpdateState(t)
  PROVE  /\ Len(worldLog) \in 1 .. Len(worldLog)
         /\ worldLog[Len(worldLog)] \in StateRecords
         /\ worldLog' = [worldLog EXCEPT ![Len(worldLog)] = Joined(op[t])]
         /\ Joined(op[t]) \in StateRecords /\ Joined(op[t]).time = worldLog[Len(worldLog)].time
<1> DEFINE n == Len(worldLog)
           last == worldLog[n]
<1>1. op[t].kind \in {"states", "event"} /\ worldLog # <<>> /\ worldLog \in Seq(StateRecords)
  BY DEF UpdateState, HasStateFor, WorldTypes
<1>2. n \in Nat /\ n # 0
  BY <1>1, EmptySeq, LenProperties
<1>3. n \in 1 .. n
  BY <1>2
<1>4. last \in StateRecords
  BY <1>1, <1>3, ElementOfSeq
<1>5. last.time \in 0 .. MaxTime /\ last.actors \in Seq(Actors)
  BY <1>4 DEF StateRecords
<1>6. last.events \in BOOLEAN /\ DOMAIN last = {"time", "actors", "events"}
  BY <1>4, Zenon DEF StateRecords
<1>7. last.actors \o ActorsOf(op[t]) \in Seq(Actors)
  BY <1>1, <1>5, StateRecordTypes, ConcatProperties
<1>8. worldLog' = [worldLog EXCEPT ![n] = Joined(op[t])]
  <2>1. worldLog' = [worldLog EXCEPT ![n].actors = @ \o ActorsOf(op[t]), ![n].events = @ \/ op[t].kind = "event"]
    BY DEF UpdateState
  <2> QED BY <2>1 DEF Joined
<1>9. /\ Joined(op[t]).time = last.time /\ Joined(op[t]).actors = last.actors \o ActorsOf(op[t])
      /\ Joined(op[t]).events = (last.events \/ op[t].kind = "event")
  BY <1>6 DEF Joined
<1>10. Joined(op[t]) \in StateRecords
  <2>1. ASSUME NEW T, NEW A, NEW E, NEW r \in [time : T, actors : A, events : E], NEW a \in A, NEW e \in E
        PROVE  [r EXCEPT !.actors = a, !.events = e] \in [time : T, actors : A, events : E]
    OBVIOUS
  <2>2. (last.events \/ op[t].kind = "event") \in BOOLEAN
    OBVIOUS
  <2>3. [last EXCEPT !.actors = last.actors \o ActorsOf(op[t]), !.events = (last.events \/ op[t].kind = "event")]
          \in [time : 0 .. MaxTime, actors : Seq(Actors), events : BOOLEAN]
    BY <1>4, <1>7, <2>1, <2>2, Zenon DEF StateRecords
  <2> QED BY <2>3 DEF Joined, StateRecords
<1> QED BY <1>3, <1>4, <1>8, <1>9, <1>10

LEMMA WorldTypesInit == Init => WorldTypes
<1> SUFFICES ASSUME Init PROVE WorldTypes
  OBVIOUS
<1>1. \A S : <<>> \in Seq(S)
  BY EmptySeq
<1> QED BY <1>1 DEF Init, WorldTypes

LEMMA WorldTypesStep == ThreadTypes /\ WorldTypes /\ [Next]_vars => WorldTypes'
<1> SUFFICES ASSUME ThreadTypes, WorldTypes, [Next]_vars PROVE WorldTypes'
  OBVIOUS
<1>1. CASE UNCHANGED world
  BY <1>1 DEF world, WorldTypes
<1>2. CASE EnableActorRuntimeLogging
  BY <1>2 DEF EnableActorRuntimeLogging, WorldTypes
<1>3. ASSUME NEW t \in Threads, UpdateState(t) PROVE WorldTypes'
  <2>1. worldLog' \in Seq(StateRecords)
    <3>1. /\ worldLog \in Seq(StateRecords) /\ Joined(op[t]) \in StateRecords
          /\ worldLog' = [worldLog EXCEPT ![Len(worldLog)] = Joined(op[t])]
          /\ Len(worldLog) \in 1 .. Len(worldLog)
      BY <1>3, UpdateStateByParts DEF WorldTypes
    <3> QED BY <3>1, ExceptSeq
  <2>2. Len(worldLog[Len(worldLog)].actors) \in Nat
    <3>1. worldLog[Len(worldLog)].actors \in Seq(Actors)
      BY <1>3, UpdateStateByParts, StateRecordTimes
    <3> QED BY <3>1, LenProperties
  <2>3. actorIndex' \in [Actors -> Seq([number : Nat, entry : Nat])]
    BY <1>3, <2>2, ActorIndexTypes DEF UpdateState
  <2> QED BY <1>3, <2>1, <2>3 DEF UpdateState, WorldTypes
<1>4. ASSUME NEW t \in Threads, CreateState(t) PROVE WorldTypes'
  <2>1. PICK log, times, popped :
           /\ WorldKept(log, times, popped)
           /\ worldLog' = Append(log, StateRecord(op[t])) /\ worldPopped' = popped
           /\ worldTimes' = Append(times, [time |-> op[t].time, number |-> worldPushed])
    BY <1>4, CreateStateByParts
  <2>2. log \in Seq(StateRecords) /\ times \in Seq(Times) /\ popped \in Nat
    BY <2>1, WorldKeptTypes
  <2>3. /\ op[t].kind \in {"states", "event"} /\ worldPushed' = worldPushed + 1
        /\ actorIndex' = IndexActors(op[t], 0) /\ UNCHANGED <<worldOn, worldLimit>> /\ worldPushed \in Nat
    BY <1>4 DEF CreateState, WorldTypes
  <2>4. StateRecord(op[t]) \in StateRecords /\ [time |-> op[t].time, number |-> worldPushed] \in Times
    BY <2>3, StateRecordTypes DEF Times
  <2>5. worldLog' \in Seq(StateRecords) /\ worldTimes' \in Seq(Times)
    BY <2>1, <2>2, <2>4, AppendProperties
  <2>6. actorIndex' \in [Actors -> Seq([number : Nat, entry : Nat])]
    BY <2>3, ActorIndexTypes
  <2> QED BY <2>1, <2>2, <2>3, <2>5, <2>6 DEF WorldTypes
<1> QED BY <1>1, <1>2, <1>3, <1>4, WorldChanges

\* The time index follows the log.
WorldFollows ==
  /\ worldPopped + Len(worldLog) = worldPushed
  /\ worldTimes = IndexOf(worldLog, worldPopped)

LEMMA EmptyIndex == \A popped : IndexOf(<<>>, popped) = <<>>
<1>1. DOMAIN <<>> = {}
  OBVIOUS
<1> QED BY <1>1 DEF IndexOf

LEMMA WorldFollowsInit == Init => WorldFollows
<1>1. Len(<<>>) = 0
  OBVIOUS
<1> QED BY <1>1, EmptyIndex DEF Init, WorldFollows

LEMMA WorldFollowsStep ==
  ThreadTypes /\ WorldTypes /\ WorldFollows /\ [Next]_vars => WorldFollows'
<1> SUFFICES ASSUME ThreadTypes, WorldTypes, WorldFollows, [Next]_vars PROVE WorldFollows'
  OBVIOUS
<1>0. /\ worldLog \in Seq(StateRecords) /\ worldPopped \in Nat /\ worldPushed \in Nat
      /\ Len(worldLog) \in Nat /\ DOMAIN worldLog = 1 .. Len(worldLog)
  BY LenProperties DEF WorldTypes
<1>1. CASE UNCHANGED world
  BY <1>1 DEF world, WorldFollows
<1>2. CASE EnableActorRuntimeLogging
  BY <1>2 DEF EnableActorRuntimeLogging, WorldFollows
<1>3. ASSUME NEW t \in Threads, UpdateState(t) PROVE WorldFollows'
  <2>1. /\ worldLog' = [worldLog EXCEPT ![Len(worldLog)] = Joined(op[t])]
        /\ Joined(op[t]) \in StateRecords /\ Joined(op[t]).time = worldLog[Len(worldLog)].time
        /\ Len(worldLog) \in 1 .. Len(worldLog)
    BY <1>3, UpdateStateByParts
  <2>2. /\ worldLog' \in Seq(StateRecords) /\ Len(worldLog') = Len(worldLog)
        /\ \A k \in 1 .. Len(worldLog) : worldLog'[k] = IF k = Len(worldLog) THEN Joined(op[t]) ELSE worldLog[k]
    BY <1>0, <2>1, ExceptSeq
  <2>3. DOMAIN worldLog' = DOMAIN worldLog
    BY <1>0, <2>1
  <2>4. \A k \in DOMAIN worldLog : worldLog'[k].time = worldLog[k].time
    BY <1>0, <2>1, <2>2
  <2>5. IndexOf(worldLog', worldPopped) = IndexOf(worldLog, worldPopped)
    BY <2>3, <2>4 DEF IndexOf
  <2> QED BY <1>3, <2>2, <2>5 DEF UpdateState, WorldFollows
<1>4. ASSUME NEW t \in Threads, CreateState(t) PROVE WorldFollows'
  <2> DEFINE e == StateRecord(op[t])
  <2>1. PICK log, times, popped :
           /\ WorldKept(log, times, popped)
           /\ worldLog' = Append(log, StateRecord(op[t])) /\ worldPopped' = popped
           /\ worldTimes' = Append(times, [time |-> op[t].time, number |-> worldPushed])
    BY <1>4, CreateStateByParts
  <2>2. log \in Seq(StateRecords) /\ popped \in Nat /\ Len(log) \in Nat
    BY <2>1, WorldKeptTypes, LenProperties
  <2>3. e \in StateRecords /\ e.time = op[t].time
    BY <1>4, StateRecordTypes DEF CreateState
  <2>4. \A r \in StateRecords : r.time \in Nat
    BY StateRecordTimes
  <2>5. times = IndexOf(log, popped) /\ popped + Len(log) = worldPushed
    <3>1. CASE log = worldLog /\ popped = worldPopped /\ times = worldTimes
      BY <3>1 DEF WorldFollows
    <3>2. ASSUME worldLog # <<>>, log = Tail(worldLog), popped = worldPopped + 1,
                 times = CullSimTimeIndices(worldTimes, worldPopped + 1)
          PROVE  times = IndexOf(log, popped) /\ popped + Len(log) = worldPushed
      <4>1. CullSimTimeIndices(IndexOf(worldLog, worldPopped), worldPopped + 1)
              = IndexOf(Tail(worldLog), worldPopped + 1)
        BY <1>0, <2>4, <3>2, IndexShrinks
      <4>2. Len(Tail(worldLog)) = Len(worldLog) - 1
        BY <1>0, <3>2, HeadTailProperties
      <4> QED BY <1>0, <3>2, <4>1, <4>2 DEF WorldFollows
    <3> QED BY <2>1, <3>1, <3>2 DEF WorldKept
  <2> HIDE DEF e
  <2>6. IndexOf(Append(log, e), popped) = Append(IndexOf(log, popped), [time |-> e.time, number |-> popped + Len(log)])
    BY <2>2, <2>3, <2>4, IndexGrows
  <2>7. Len(Append(log, e)) = Len(log) + 1
    BY <2>2, <2>3, AppendProperties
  <2>8. worldPushed' = worldPushed + 1
    BY <1>4 DEF CreateState
  <2>9. worldLog' = Append(log, e)
    BY <2>1 DEF e
  <2> QED BY <1>0, <2>1, <2>2, <2>3, <2>5, <2>6, <2>7, <2>8, <2>9 DEF WorldFollows
<1> QED BY <1>1, <1>2, <1>3, <1>4, WorldChanges

LEMMA StateQueries == WorldTypes /\ WorldFollows => StateQueriesAreExact
<1> SUFFICES ASSUME WorldTypes, WorldFollows, Sorted(worldTimes),
                    NEW start \in 0 .. MaxTime, NEW end \in 0 .. MaxTime,
                    worldLog # <<>>, start <= end,
                    start <= worldLog[Len(worldLog)].time, end >= worldLog[1].time
             PROVE  RetrieveStates(start, end)
                      = {k - 1 : k \in {j \in DOMAIN worldLog : InTime(worldLog[j], start, end)}}
  BY DEF StateQueriesAreExact
<1> DEFINE range == GetIndicesForTime(start, end, worldTimes, worldPopped)
           n == Len(worldLog)
<1>1. worldLog \in Seq(StateRecords) /\ worldPopped \in Nat /\ start \in Nat /\ end \in Nat
  BY LogAssumption DEF WorldTypes
<1>2. \A e \in StateRecords : e.time \in Nat
  BY StateRecordTimes
<1>3. worldTimes = IndexOf(worldLog, worldPopped)
  BY DEF WorldFollows
<1>4. Positions(GetIndicesForTime(start, end, worldTimes, worldPopped))
        = {k - 1 : k \in {j \in DOMAIN worldLog : InTime(worldLog[j], start, end)}}
  BY <1>1, <1>2, <1>3, TimeQuery
<1>5. /\ worldTimes \in TimeIndex /\ Follows(worldTimes, worldPopped) /\ Len(worldTimes) = n
      /\ \A k \in 1 .. n : worldTimes[k].time = worldLog[k].time
  BY <1>1, <1>2, <1>3, IndexOfTypes
<1>6. n \in Nat /\ n # 0
  BY <1>1, EmptySeq, LenProperties
<1>7. worldTimes # <<>> /\ worldTimes[n].time = worldLog[n].time /\ worldTimes[1].time = worldLog[1].time
  <2>1. Len(<<>>) = 0
    OBVIOUS
  <2> QED BY <1>5, <1>6, <2>1
<1>8. range.first >= 0 /\ range.last >= 0
  BY <1>1, <1>5, <1>7, TimeQueriesAreExact
<1> QED BY <1>4, <1>8 DEF RetrieveStates

\* A query of the world log by time (ActorRunTimeLogger) that meets the times of the
\* log returns the states of the interval while the log is sorted, whatever updates
\* joined a state, opened a new one or pushed the oldest out.
THEOREM StateQueriesAlwaysExact == Spec => []StateQueriesAreExact
<1> DEFINE Inv == ThreadTypes /\ WorldTypes /\ WorldFollows
<1>1. Init => Inv
  BY ThreadTypesInit, WorldTypesInit, WorldFollowsInit
<1>2. Inv /\ [Next]_vars => Inv'
  BY ThreadTypesStep, WorldTypesStep, WorldFollowsStep
<1>3. Inv => StateQueriesAreExact
  BY StateQueries
<1> QED BY <1>1, <1>2, <1>3, PTL DEF Spec

-----------------------------------------------------------------------------
(***************************************************************************)
(* The diagnostics log.                                                    *)
(***************************************************************************)
ReportRecord(o) == [client |-> o.client, type |-> o.type, time |-> o.time]

LEMMA ReportRecordTypes ==
  ASSUME ThreadTypes, NEW d \in Reporters, op[d].kind \in {"report", "stamped"}
  PROVE  /\ op[d].client \in Clients /\ op[d].type \in Types /\ op[d].time \in 0 .. MaxTime
         /\ ReportRecord(op[d]) \in ReportRecords
         /\ ReportRecord(op[d]).client = op[d].client /\ ReportRecord(op[d]).type = op[d].type
         /\ ReportRecord(op[d]).time = op[d].time
<1>1. op[d].client \in Clients /\ op[d].type \in Types /\ op[d].time \in 0 .. MaxTime
  BY Operations
<1> QED BY <1>1 DEF ReportRecord, ReportRecords

LEMMA ReportRecordTimes == \A e \in ReportRecords : e.time \in Nat
<1>1. 0 .. MaxTime \subseteq Nat
  OBVIOUS
<1> QED BY <1>1 DEF ReportRecords

\* A thread that is not reporting.
Reporting(t) == op[t].kind \in {"report", "stamped"}

\* Steps that leave the diagnostics alone neither begin nor advance a report.
LEMMA DiagChanges ==
  ASSUME ThreadTypes, [Next]_vars
  PROVE  \/ \E d \in Reporters : BeginReport(d) \/ IndexReport(d) \/ StoreReport(d)
         \/ /\ UNCHANGED diag
            /\ \A d \in Reporters : op'[d] = op[d] \/ (~ Reporting(d) /\ ~ Reporting(d)')
<1>0. op \in [Threads \cup Reporters -> {Idle} \cup Call \cup States \cup Event \cup Report]
  BY DEF ThreadTypes
<1>1. ASSUME NEW t \in Threads \cup Reporters, NEW o, op' = [op EXCEPT ![t] = o],
             op[t].kind \notin {"report", "stamped"}, o.kind \notin {"report", "stamped"}
      PROVE  \A d \in Reporters : op'[d] = op[d] \/ (~ Reporting(d) /\ ~ Reporting(d)')
  <2> SUFFICES ASSUME NEW d \in Reporters PROVE op'[d] = op[d] \/ (~ Reporting(d) /\ ~ Reporting(d)')
    OBVIOUS
  <2>1. op'[d] = IF d = t THEN o ELSE op[d]
    BY <1>0, <1>1
  <2> QED BY <1>1, <2>1 DEF Reporting
<1>2. Idle.kind = "idle"
  BY DEF Idle
<1>3. CASE op' = op /\ UNCHANGED diag
  BY <1>3
<1>4. ASSUME NEW t \in Threads, BeginCall(t)
      PROVE  UNCHANGED diag /\ \A d \in Reporters : op'[d] = op[d] \/ (~ Reporting(d) /\ ~ Reporting(d)')
  <2>1. PICK c \in Clients, s \in Services :
          op' = [op EXCEPT ![t] = [kind |-> "call", client |-> c, service |-> s, time |-> timeNow]]
    BY <1>4 DEF BeginCall
  <2> QED BY <1>1, <1>2, <1>4, <2>1 DEF BeginCall
<1>5. ASSUME NEW t \in Threads, BeginStates(t)
      PROVE  UNCHANGED diag /\ \A d \in Reporters : op'[d] = op[d] \/ (~ Reporting(d) /\ ~ Reporting(d)')
  <2>0. PICK S \in SUBSET Actors : \E order \in Orders(S) :
          op' = [op EXCEPT ![t] = [kind |-> "states", actors |-> order, time |-> timeNow]]
    BY <1>5 DEF BeginStates
  <2>1. PICK order \in Orders(S) :
          op' = [op EXCEPT ![t] = [kind |-> "states", actors |-> order, time |-> timeNow]]
    BY <2>0
  <2> QED BY <1>1, <1>2, <1>5, <2>1 DEF BeginStates
<1>6. ASSUME NEW t \in Threads, BeginEvent(t)
      PROVE  UNCHANGED diag /\ \A d \in Reporters : op'[d] = op[d] \/ (~ Reporting(d) /\ ~ Reporting(d)')
  BY <1>1, <1>2, <1>6 DEF BeginEvent
<1>7. ASSUME NEW t \in Threads, AddMessage(t) \/ UpdateState(t) \/ CreateState(t)
      PROVE  UNCHANGED diag /\ \A d \in Reporters : op'[d] = op[d] \/ (~ Reporting(d) /\ ~ Reporting(d)')
  <2>1. op' = [op EXCEPT ![t] = Idle] /\ UNCHANGED diag /\ op[t].kind \in {"call", "states", "event"}
    BY <1>7 DEF AddMessage, UpdateState, CreateState
  <2> QED BY <1>1, <1>2, <2>1
<1>8. CASE StartRun \/ AdvanceTime \/ EndRun \/ EnableCommunicationLogging \/ EnableActorRuntimeLogging \/ UNCHANGED vars
  BY <1>3, <1>8 DEF StartRun, AdvanceTime, EndRun, EnableCommunicationLogging, EnableActorRuntimeLogging, vars
<1> QED BY <1>4, <1>5, <1>6, <1>7, <1>8 DEF Next

LEMMA DiagTypesInit == Init => DiagTypes
<1> SUFFICES ASSUME Init PROVE DiagTypes
  OBVIOUS
<1>1. \A S : <<>> \in Seq(S)
  BY EmptySeq
<1> QED BY <1>1 DEF Init, DiagTypes

LEMMA DiagTypesStep == ThreadTypes /\ DiagTypes /\ [Next]_vars => DiagTypes'
<1> SUFFICES ASSUME ThreadTypes, DiagTypes, [Next]_vars PROVE DiagTypes'
  OBVIOUS
<1>0. Len(diagLog) \in Nat
  BY LenProperties DEF DiagTypes
<1>1. CASE UNCHANGED diag
  BY <1>1 DEF diag, DiagTypes
<1>2. ASSUME NEW d \in Reporters, BeginReport(d) PROVE DiagTypes'
  <2>1. PICK c \in Clients, y \in Types :
          /\ diagByClient' = [diagByClient EXCEPT ![c] = Append(@, Len(diagLog))]
          /\ diagByType' = [diagByType EXCEPT ![y] = Append(@, Len(diagLog))]
    BY <1>2 DEF BeginReport
  <2>2. \A q \in Seq(Nat) : Append(q, Len(diagLog)) \in Seq(Nat)
    BY <1>0, AppendProperties
  <2> QED BY <1>2, <2>1, <2>2 DEF BeginReport, DiagTypes
<1>3. ASSUME NEW d \in Reporters, IndexReport(d) PROVE DiagTypes'
  <2>1. op[d].time \in 0 .. MaxTime
    BY <1>3, Operations DEF IndexReport
  <2>2. [time |-> op[d].time, number |-> Len(diagLog)] \in Times
    BY <1>0, <2>1 DEF Times
  <2>3. diagTimes' \in Seq(Times)
    BY <1>3, <2>2, AppendProperties DEF IndexReport, DiagTypes
  <2> QED BY <1>3, <2>3 DEF IndexReport, DiagTypes
<1>4. ASSUME NEW d \in Reporters, StoreReport(d) PROVE DiagTypes'
  <2>1. ReportRecord(op[d]) \in ReportRecords
    BY <1>4, ReportRecordTypes DEF StoreReport
  <2>2. diagLog' = Append(diagLog, ReportRecord(op[d]))
    BY <1>4 DEF StoreReport, ReportRecord
  <2>3. diagLog' \in Seq(ReportRecords)
    BY <2>1, <2>2, AppendProperties DEF DiagTypes
  <2> QED BY <1>4, <2>3 DEF StoreReport, DiagTypes
<1> QED BY <1>1, <1>2, <1>3, <1>4, DiagChanges

\* The logs keep their types: numbers in the indices are natural numbers, and the
\* logs hold calls, states and reports of the clients and actors that there are.
THEOREM LogTypes == Spec => []TypeOK
<1> DEFINE Inv == ThreadTypes /\ CommTypes /\ WorldTypes /\ DiagTypes
<1>1. Init => Inv
  BY ThreadTypesInit, CommTypesInit, WorldTypesInit, DiagTypesInit
<1>2. Inv /\ [Next]_vars => Inv'
  BY ThreadTypesStep, CommTypesStep, WorldTypesStep, DiagTypesStep
<1>3. Inv => TypeOK
  BY TypesByLog
<1> QED BY <1>1, <1>2, <1>3, PTL DEF Spec

\* With the report that a thread is working on: entered in the indices by client and
\* by type first, in the time index next, and stored last.
Entered(d) == IF Reporting(d) THEN Append(diagLog, ReportRecord(op[d])) ELSE diagLog
Stamped(d) == IF op[d].kind = "stamped" THEN Append(diagLog, ReportRecord(op[d])) ELSE diagLog

DiagFollows(d) ==
  /\ diagTimes = IndexOf(Stamped(d), 0)
  /\ \A c \in Clients : Lists(diagByClient[c], OfClient(Entered(d), c), 0)
  /\ \A y \in Types : Lists(diagByType[y], OfType(Entered(d), y), 0)

LEMMA DiagFollowsInit == ASSUME NEW d \in Reporters PROVE Init => DiagFollows(d)
<1> SUFFICES ASSUME Init PROVE DiagFollows(d)
  OBVIOUS
<1>1. DOMAIN <<>> = {} /\ op[d] = Idle /\ Idle.kind = "idle"
  BY DEF Init, Idle
<1>2. Entered(d) = <<>> /\ Stamped(d) = <<>>
  BY <1>1 DEF Entered, Stamped, Reporting, Init
<1>3. Lists(<<>>, {}, 0)
  BY <1>1 DEF Lists
<1>4. \A x : OfClient(<<>>, x) = {} /\ OfType(<<>>, x) = {}
  BY <1>1 DEF OfClient, OfType
<1> QED BY <1>2, <1>3, <1>4, EmptyIndex DEF DiagFollows, Init

LEMMA DiagFollowsStep ==
  ASSUME NEW d, Reporters = {d}
  PROVE  ThreadTypes /\ DiagTypes /\ DiagFollows(d) /\ [Next]_vars => DiagFollows(d)'
<1> SUFFICES ASSUME ThreadTypes, DiagTypes, DiagFollows(d), [Next]_vars PROVE DiagFollows(d)'
  OBVIOUS
<1>0. /\ diagLog \in Seq(ReportRecords) /\ Len(diagLog) \in Nat /\ 0 + Len(diagLog) = Len(diagLog)
      /\ op \in [Threads \cup Reporters -> {Idle} \cup Call \cup States \cup Event \cup Report]
      /\ d \in Reporters
  BY LenProperties DEF DiagTypes, ThreadTypes
<1>1. ASSUME UNCHANGED diag, op'[d] = op[d] \/ (~ Reporting(d) /\ ~ Reporting(d)') PROVE DiagFollows(d)'
  <2>1. Entered(d)' = Entered(d) /\ Stamped(d)' = Stamped(d)
    BY <1>1 DEF diag, Entered, Stamped, Reporting
  <2> QED BY <1>1, <2>1 DEF diag, DiagFollows
<1>2. CASE BeginReport(d)
  <2>1. PICK c \in Clients, y \in Types :
          /\ diagByClient' = [diagByClient EXCEPT ![c] = Append(@, Len(diagLog))]
          /\ diagByType' = [diagByType EXCEPT ![y] = Append(@, Len(diagLog))]
          /\ op' = [op EXCEPT ![d] = [kind |-> "report", client |-> c, type |-> y, time |-> timeNow]]
    BY <1>2 DEF BeginReport
  <2> DEFINE e == [client |-> c, type |-> y, time |-> timeNow]
  <2>2. UNCHANGED <<diagLog, diagTimes>> /\ op[d].kind = "idle"
    BY <1>2 DEF BeginReport, Idle
  <2>3. op'[d] = [kind |-> "report", client |-> c, type |-> y, time |-> timeNow]
    BY <1>0, <2>1
  <2>4. Entered(d) = diagLog /\ Stamped(d) = diagLog /\ Entered(d)' = Append(diagLog, e) /\ Stamped(d)' = diagLog
    BY <2>2, <2>3 DEF Entered, Stamped, Reporting, ReportRecord
  <2>5. e \in ReportRecords /\ e.client = c /\ e.type = y
    BY DEF ReportRecords, ThreadTypes
  <2> HIDE DEF e
  <2>6. ASSUME NEW x \in Clients PROVE Lists(diagByClient'[x], OfClient(Entered(d)', x), 0)
    <3>1. diagByClient[x] \in Seq(Nat) /\ Lists(diagByClient[x], OfClient(diagLog, x), 0)
      BY <2>4 DEF DiagTypes, DiagFollows
    <3>2. /\ OfClient(Append(diagLog, e), x)
               = IF c = x THEN OfClient(diagLog, x) \cup {Len(diagLog) + 1} ELSE OfClient(diagLog, x)
          /\ OfClient(diagLog, x) \in SUBSET (1 .. Len(diagLog))
      BY <1>0, <2>5, PositionsGrow
    <3>3. diagByClient'[x] = IF c = x THEN Append(diagByClient[x], Len(diagLog)) ELSE diagByClient[x]
      BY <2>1 DEF DiagTypes
    <3>4. Lists(Append(diagByClient[x], 0 + Len(diagLog)), OfClient(diagLog, x) \cup {Len(diagLog) + 1}, 0)
      BY <1>0, <3>1, <3>2, ListsGrow
    <3> QED BY <1>0, <2>4, <3>1, <3>2, <3>3, <3>4
  <2>7. ASSUME NEW x \in Types PROVE Lists(diagByType'[x], OfType(Entered(d)', x), 0)
    <3>1. diagByType[x] \in Seq(Nat) /\ Lists(diagByType[x], OfType(diagLog, x), 0)
      BY <2>4 DEF DiagTypes, DiagFollows
    <3>2. /\ OfType(Append(diagLog, e), x)
               = IF y = x THEN OfType(diagLog, x) \cup {Len(diagLog) + 1} ELSE OfType(diagLog, x)
          /\ OfType(diagLog, x) \in SUBSET (1 .. Len(diagLog))
      BY <1>0, <2>5, PositionsGrow
    <3>3. diagByType'[x] = IF y = x THEN Append(diagByType[x], Len(diagLog)) ELSE diagByType[x]
      BY <2>1 DEF DiagTypes
    <3>4. Lists(Append(diagByType[x], 0 + Len(diagLog)), OfType(diagLog, x) \cup {Len(diagLog) + 1}, 0)
      BY <1>0, <3>1, <3>2, ListsGrow
    <3> QED BY <1>0, <2>4, <3>1, <3>2, <3>3, <3>4
  <2> QED BY <2>2, <2>4, <2>6, <2>7 DEF DiagFollows
<1>3. CASE IndexReport(d)
  <2>1. /\ op[d].kind = "report" /\ UNCHANGED <<diagLog, diagByClient, diagByType>>
        /\ diagTimes' = Append(diagTimes, [time |-> op[d].time, number |-> Len(diagLog)])
        /\ op' = [op EXCEPT ![d].kind = "stamped"]
    BY <1>3 DEF IndexReport
  <2>2. op[d] \in Report
    BY <1>0, <2>1, Operations
  <2>3. op'[d] = [op[d] EXCEPT !.kind = "stamped"]
    BY <1>0, <2>1
  <2>4. op'[d].kind = "stamped" /\ op'[d].client = op[d].client /\ op'[d].type = op[d].type /\ op'[d].time = op[d].time
    BY <2>2, <2>3 DEF Report
  <2>5. ReportRecord(op'[d]) = ReportRecord(op[d])
    BY <2>4 DEF ReportRecord
  <2> DEFINE e == ReportRecord(op[d])
  <2>6. Entered(d)' = Entered(d) /\ Stamped(d) = diagLog /\ Stamped(d)' = Append(diagLog, e)
    BY <2>1, <2>4, <2>5 DEF Entered, Stamped, Reporting
  <2>7. e \in ReportRecords /\ e.time = op[d].time
    BY <1>0, <2>1, ReportRecordTypes
  <2> HIDE DEF e
  <2>8. \A r \in ReportRecords : r.time \in Nat
    BY ReportRecordTimes
  <2>9. IndexOf(Append(diagLog, e), 0) = Append(IndexOf(diagLog, 0), [time |-> e.time, number |-> 0 + Len(diagLog)])
    BY <1>0, <2>7, <2>8, IndexGrows
  <2> QED BY <1>0, <2>1, <2>6, <2>7, <2>9 DEF DiagFollows
<1>4. CASE StoreReport(d)
  <2>1. /\ op[d].kind = "stamped" /\ UNCHANGED <<diagTimes, diagByClient, diagByType>>
        /\ diagLog' = Append(diagLog, ReportRecord(op[d])) /\ op' = [op EXCEPT ![d] = Idle]
    BY <1>4 DEF StoreReport, ReportRecord
  <2>2. op'[d] = Idle /\ Idle.kind = "idle"
    BY <1>0, <2>1 DEF Idle
  <2>3. /\ Entered(d) = diagLog' /\ Stamped(d) = diagLog'
        /\ Entered(d)' = diagLog' /\ Stamped(d)' = diagLog'
    BY <2>1, <2>2 DEF Entered, Stamped, Reporting
  <2> QED BY <2>1, <2>3 DEF DiagFollows
<1> QED BY <1>0, <1>1, <1>2, <1>3, <1>4, DiagChanges

LEMMA ReportQueries ==
  ASSUME NEW d, Reporters = {d}, DiagTypes, DiagFollows(d)
  PROVE  ReportQueriesAreExact
<1> SUFFICES ASSUME Sorted(diagTimes), op[d] = Idle, NEW C \in SUBSET Clients, NEW Y \in SUBSET Types,
                    NEW start \in 0 .. MaxTime, NEW end \in 0 .. MaxTime
             PROVE  RetrieveReports(C, Y, start, end) =
                      {k - 1 : k \in {j \in DOMAIN diagLog :
                         /\ diagLog[j].client \in C /\ diagLog[j].type \in Y
                         /\ InTime(diagLog[j], start, end)}}
  BY DEF ReportQueriesAreExact
<1> DEFINE n == Len(diagLog)
           ofC == IF C = Clients THEN 0 .. n - 1
                  ELSE UNION {{diagByClient[c][k] : k \in DOMAIN diagByClient[c]} : c \in C}
           ofY == IF Y = Types THEN 0 .. n - 1
                  ELSE UNION {{diagByType[y][k] : k \in DOMAIN diagByType[y]} : y \in Y}
           timed == Positions(GetIndicesForTime(start, end, diagTimes, 0))
           inC == {j \in 1 .. n : diagLog[j].client \in C}
           inY == {j \in 1 .. n : diagLog[j].type \in Y}
           inT == {j \in 1 .. n : InTime(diagLog[j], start, end)}
<1>1. Entered(d) = diagLog /\ Stamped(d) = diagLog
  BY DEF Entered, Stamped, Reporting, Idle
<1>2. /\ diagLog \in Seq(ReportRecords) /\ n \in Nat /\ DOMAIN diagLog = 1 .. n
      /\ start \in Nat /\ end \in Nat /\ 0 \in Nat /\ start >= 0
  BY LogAssumption, LenProperties DEF DiagTypes
<1>3. ASSUME NEW j \in 1 .. n PROVE diagLog[j].client \in Clients /\ diagLog[j].type \in Types
  <2>1. diagLog[j] \in ReportRecords
    BY <1>2, ElementOfSeq
  <2> QED BY <2>1 DEF ReportRecords
<1>4. timed = {k - 1 : k \in inT}
  <2>1. diagTimes = IndexOf(diagLog, 0) /\ Sorted(diagTimes)
    BY <1>1 DEF DiagFollows
  <2>2. \A e \in ReportRecords : e.time \in Nat
    BY ReportRecordTimes
  <2>3. diagLog \in Seq(ReportRecords) /\ start \in Nat /\ end \in Nat /\ 0 \in Nat
    BY <1>2
  <2> HIDE DEF timed, ofC, ofY, inT, inC, inY
  <2>4. ASSUME NEW popped \in Nat, diagTimes = IndexOf(diagLog, popped)
        PROVE  Positions(GetIndicesForTime(start, end, diagTimes, popped))
                 = {k - 1 : k \in {j \in DOMAIN diagLog : InTime(diagLog[j], start, end)}}
    BY <2>1, <2>2, <2>3, <2>4, TimeQuery
  <2> QED BY <1>2, <2>1, <2>3, <2>4 DEF timed, inT
<1>5. {k - 1 : k \in 1 .. n} = 0 .. n - 1
  <2>1. ASSUME NEW k \in 0 .. n - 1 PROVE k \in {i - 1 : i \in 1 .. n}
    <3>1. k + 1 \in 1 .. n /\ (k + 1) - 1 = k
      BY <1>2
    <3> QED BY <3>1
  <2>2. ASSUME NEW k \in 1 .. n PROVE k - 1 \in 0 .. n - 1
    BY <1>2
  <2> QED BY <2>1, <2>2
<1>6. ofC = {k - 1 : k \in inC}
  <2>1. CASE C = Clients
    <3>1. inC = 1 .. n
      BY <1>3, <2>1
    <3> QED BY <1>5, <2>1, <3>1
  <2>2. CASE C # Clients
    <3>1. ASSUME NEW c \in C
          PROVE  {diagByClient[c][k] : k \in DOMAIN diagByClient[c]} = {k - 1 : k \in OfClient(diagLog, c)}
      <4>1. {diagByClient[c][k] : k \in DOMAIN diagByClient[c]} = {0 + k - 1 : k \in OfClient(diagLog, c)}
        BY <1>1 DEF DiagFollows, Lists
      <4>2. \A k \in OfClient(diagLog, c) : 0 + k - 1 = k - 1
        BY <1>2 DEF OfClient
      <4> QED BY <4>1, <4>2
    <3>2. inC = UNION {OfClient(diagLog, c) : c \in C}
      BY <1>2 DEF OfClient
    <3> DEFINE listed(c) == {diagByClient[c][k] : k \in DOMAIN diagByClient[c]}
    <3>3. ofC = UNION {listed(c) : c \in C} /\ \A c \in C : listed(c) = {k - 1 : k \in OfClient(diagLog, c)}
      BY <2>2, <3>1
    <3> HIDE DEF ofC, inC, listed
    <3>4. \A i : i \in ofC <=> \E c \in C : \E k \in OfClient(diagLog, c) : i = k - 1
      BY <3>3
    <3>5. \A i : i \in {k - 1 : k \in inC} <=> \E c \in C : \E k \in OfClient(diagLog, c) : i = k - 1
      BY <3>2
    <3> QED BY <3>4, <3>5
  <2> QED BY <2>1, <2>2
<1>7. ofY = {k - 1 : k \in inY}
  <2>1. CASE Y = Types
    <3>1. inY = 1 .. n
      BY <1>3, <2>1
    <3> QED BY <1>5, <2>1, <3>1
  <2>2. CASE Y # Types
    <3>1. ASSUME NEW y \in Y
          PROVE  {diagByType[y][k] : k \in DOMAIN diagByType[y]} = {k - 1 : k \in OfType(diagLog, y)}
      <4>1. {diagByType[y][k] : k \in DOMAIN diagByType[y]} = {0 + k - 1 : k \in OfType(diagLog, y)}
        BY <1>1 DEF DiagFollows, Lists
      <4>2. \A k \in OfType(diagLog, y) : 0 + k - 1 = k - 1
        BY <1>2 DEF OfType
      <4> QED BY <4>1, <4>2
    <3>2. inY = UNION {OfType(diagLog, y) : y \in Y}
      BY <1>2 DEF OfType
    <3> DEFINE listed(y) == {diagByType[y][k] : k \in DOMAIN diagByType[y]}
    <3>3. ofY = UNION {listed(y) : y \in Y} /\ \A y \in Y : listed(y) = {k - 1 : k \in OfType(diagLog, y)}
      BY <2>2, <3>1
    <3> HIDE DEF ofY, inY, listed
    <3>4. \A i : i \in ofY <=> \E y \in Y : \E k \in OfType(diagLog, y) : i = k - 1
      BY <3>3
    <3>5. \A i : i \in {k - 1 : k \in inY} <=> \E y \in Y : \E k \in OfType(diagLog, y) : i = k - 1
      BY <3>2
    <3> QED BY <3>4, <3>5
  <2> QED BY <2>1, <2>2
<1>8. RetrieveReports(C, Y, start, end) = timed \cap ofC \cap ofY
  BY <1>2 DEF RetrieveReports
<1>9. {j \in DOMAIN diagLog : /\ diagLog[j].client \in C /\ diagLog[j].type \in Y
                              /\ InTime(diagLog[j], start, end)} = inT \cap inC \cap inY
  BY <1>2
<1>10. inT \subseteq 1 .. n /\ inC \subseteq 1 .. n /\ inY \subseteq 1 .. n
  OBVIOUS
<1> HIDE DEF timed, ofC, ofY, inT, inC, inY
<1>11. {k - 1 : k \in inT} \cap {k - 1 : k \in inC} \cap {k - 1 : k \in inY} = {k - 1 : k \in inT \cap inC \cap inY}
  <2>1. ASSUME NEW k \in inT, NEW j \in inC, NEW i \in inY, k - 1 = j - 1, k - 1 = i - 1
        PROVE  k \in inT \cap inC \cap inY
    <3>1. k \in 1 .. n /\ j \in 1 .. n /\ i \in 1 .. n
      BY <1>10
    <3>2. k = j /\ k = i
      BY <2>1, <3>1
    <3> QED BY <3>2
  <2> QED BY <2>1
<1> QED BY <1>4, <1>6, <1>7, <1>8, <1>9, <1>11

\* With one thread that reports, a query of the diagnostics between two reports returns
\* exactly the reports that meet all of its filters, while the log is sorted.
THEOREM ReportQueriesAlwaysExact ==
  ASSUME NEW d, Reporters = {d}
  PROVE  Spec => []ReportQueriesAreExact
<1> DEFINE Inv == ThreadTypes /\ DiagTypes /\ DiagFollows(d)
<1>1. Init => Inv
  BY ThreadTypesInit, DiagTypesInit, DiagFollowsInit
<1>2. Inv /\ [Next]_vars => Inv'
  BY ThreadTypesStep, DiagTypesStep, DiagFollowsStep
<1>3. Inv => ReportQueriesAreExact
  BY ReportQueries
<1> QED BY <1>1, <1>2, <1>3, PTL DEF Spec
=============================================================================
