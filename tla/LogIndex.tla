------------------------------ MODULE LogIndex ------------------------------
(***************************************************************************)
(* The searches that the three loggers of MessageLogger.cpp share.  A log  *)
(* keeps the last messages of all that were added; a message is known by   *)
(* its number, counted from 0 since the log was created, and its position  *)
(* in the log is its number minus the number of messages that have been    *)
(* dropped ("popped") from the front.  A time index is a sequence of       *)
(* records [time, number], searched by bisection.                          *)
(***************************************************************************)
EXTENDS Integers, Sequences

\* The range that the searches return when there is nothing to return.
Nowhere == [first |-> -1, last |-> -1]

Positions(range) == range.first .. range.last - 1

\* Bisection of the first k in 1 .. n + 1 at which right(k) does not hold, as
\* std::lower_bound and std::upper_bound do it: for an index that is not sorted
\* the result is whatever the halving meets.
Bisect(right, n) ==
  LET search[range \in (1 .. n + 1) \X (1 .. n + 1)] ==
        LET mid == range[1] + (range[2] - range[1]) \div 2
        IN IF range[2] <= range[1] THEN range[1]
           ELSE IF right[mid] THEN search[<<mid + 1, range[2]>>]
           ELSE search[<<range[1], mid>>]
  IN search[<<1, n + 1>>]

LowerBound(times, t) ==
  Bisect([k \in DOMAIN times |-> times[k].time < t], Len(times))

\* Mutant: the other bound.
UpperBound_Lower(times, t) == LowerBound(times, t)
UpperBound(times, t) ==
  Bisect([k \in DOMAIN times |-> times[k].time <= t], Len(times))

Sorted(times) ==
  \A i, j \in DOMAIN times : i < j => times[i].time <= times[j].time

\* Positions first .. last - 1 of the messages in a time interval.  A bound that
\* lies outside the times of the log is replaced by the end of the log.
GetIndicesForTime(start, end, times, popped) ==
  LET oldest == times[1]
      newest == times[Len(times)]
      within(t) == oldest.time <= t /\ t <= newest.time
      lower == LowerBound(times, start)
      upper == UpperBound(times, end)
  IN IF \/ times = <<>> \/ start < 0 \/ end < start
        \/ end < oldest.time \/ start > newest.time
     THEN Nowhere
     ELSE [first |-> IF within(start) /\ lower <= Len(times)
                     THEN times[lower].number - popped
                     ELSE oldest.number - popped,
           last  |-> IF within(end) /\ upper <= Len(times)
                     THEN times[upper].number - popped
                     ELSE newest.number - popped + 1]

\* Dropping from the front of an index what points before the log; numbers are
\* those that the entries of q carry.  The loop stops at the first entry that
\* still points into the log.
EraseNegative(q, numbers, popped) ==
  LET live == {k \in DOMAIN q : numbers[k] - popped >= 0}
  IN IF live = {} THEN <<>>
     ELSE SubSeq(q, CHOOSE k \in live : \A j \in live : k <= j, Len(q))

\* Mutant: the comparison is off by one.
EraseNegativeIndices_Late(q, popped) == EraseNegative(q, q, popped - 1)
EraseNegativeIndices(q, popped) == EraseNegative(q, q, popped)

\* Mutant: only a copy of the index is culled.
CullSimTimeIndices_Copy(times, popped) == times
CullSimTimeIndices(times, popped) ==
  EraseNegative(times, [k \in DOMAIN times |-> times[k].number], popped)
=============================================================================
