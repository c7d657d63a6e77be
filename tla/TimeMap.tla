------------------------------- MODULE TimeMap -------------------------------
(***************************************************************************)
(* Half-open sample intervals, as the privacy filter cuts them.  Positions *)
(* are natural numbers: an interval ends at most at the end of a session,  *)
(* far below the width of the integers, so the saturating operations of    *)
(* the code saturate only at zero.                                         *)
(***************************************************************************)
EXTENDS Integers, Sequences, SequencesExt

Interval(start, end) == [start |-> start, end |-> end]

Larger(a, b)  == IF a < b THEN b ELSE a
Smaller(a, b) == IF a < b THEN a ELSE b

Length(i)  == i.end - i.start
IsEmpty(i) == i.start = i.end
ContainsSample(i, sample) == i.start <= sample /\ sample < i.end
Intersects(i, j) == i.start < j.end /\ j.start < i.end

\* milliseconds_to_samples at `rate` samples for each thousand milliseconds:
\* rounded to the nearest sample, halves up.
MillisecondsToSamples(ms, rate) == (ms * rate + 500) \div 1000

\* The intervals of a set, merged where they overlap or touch.  What normalize
\* makes of them in their order begins where none reaches to that began before,
\* and lasts up to the first end that none goes past.
Normalize(intervals) ==
  LET solid == {i \in intervals : ~IsEmpty(i)}
      heads == {i.start : i \in {i \in solid : \A j \in solid : ~(j.start < i.start /\ i.start <= j.end)}}
      tails == {i.end : i \in {i \in solid : \A j \in solid : ~(j.start <= i.end /\ i.end < j.end)}}
  IN  {Interval(h, Min({t \in tails : h < t})) : h \in heads}

Pad(i, padding, bound) ==
  LET start == Larger(Larger(i.start - padding, 0), bound.start)
  IN  Interval(start, Larger(Smaller(i.end + padding, bound.end), start))

PadAll(intervals, padding, bound) ==
  Normalize({Pad(i, padding, bound) : i \in intervals})

Clamp(i, bound) ==
  LET Within(x) == Smaller(Larger(x, bound.start), bound.end)
  IN  Interval(Within(i.start), Larger(Within(i.end), Within(i.start)))

\* What is left of `bound`: the cursor is at the furthest end of what was removed
\* so far, and what lies between it and the next removal, or the end, is kept.
Complement(removed, bound) ==
  LET cuts      == {c \in {Clamp(i, bound) : i \in Normalize(removed)} : ~IsEmpty(c)}
      Cursor(x) == Max({bound.start} \cup {c.end : c \in {c \in cuts : c.start < x}})
  IN  {i \in {Interval(Cursor(x), x) : x \in {c.start : c \in cuts} \cup {bound.end}} : i.start < i.end}

\* The members of a set of numbers in their order.
Ascending(S) == [n \in 1..Cardinality(S) |-> CHOOSE x \in S : Cardinality({y \in S : y < x}) = n - 1]

\* The running totals of a sequence of numbers.
Accumulated(numbers) ==
  LET sum[n \in 0..Len(numbers)] == IF n = 0 THEN 0 ELSE sum[n - 1] + numbers[n] IN sum

\* DestinationMap::build and destination_of: where each retained interval
\* comes to lie when the retained intervals are put end to end.
DestinationOf(retained, index) ==
  LET spans  == Normalize(ToSet(retained))
      starts == Ascending({i.start : i \in spans})
      Nth(n) == CHOOSE i \in spans : i.start = starts[n]
      offset == Accumulated([n \in 1..Len(starts) |-> Length(Nth(n))])
  IN  Interval(offset[index - 1], offset[index])
=============================================================================
