--------------------------- MODULE MCTrainingCopy ---------------------------
EXTENDS TrainingCopy

Token(onset, stop, kind) ==
  [opens |-> TRUE, punct |-> FALSE, stop |-> stop, kind |-> kind, low |-> FALSE,
   onset |-> onset, dtw |-> TRUE]

Session(grouped, audio) ==
  [words |-> Freeze(grouped, audio), audio |-> audio, usable |-> TRUE]

\* Every timing of three words in six samples.
Timed ==
  {Session(GroupWords([i \in 1..3 |-> Token(onset[i], stop[i], "plain")], Interval(0, 6), 6), 6) :
     onset \in [1..3 -> 0..6], stop \in [1..3 -> BOOLEAN]}

\* Two segments of two words, the second after a pause, before the first one
\* ended or beyond the audio, and one word of no known onset or low confidence.
Segmented ==
  {LET Words2(from, marked) ==
         GroupWords([i \in 1..2 |-> [Token(from + 2 * (i - 1), stop /\ i = 2, "plain") EXCEPT
                       !.dtw = marked # i, !.low = low /\ i = 1]],
                    Interval(from, from + 4), 10)
   IN  Session(Words2(0, 0) \o Words2(second, undated), 9) :
     second \in {3, 4, 5, 6, 9}, undated \in 0..1, stop \in BOOLEAN, low \in BOOLEAN}

\* Three tokens of any shape: a new word, more of the last one, punctuation.
Shaped ==
  {Session(GroupWords([i \in 1..4 |->
       LET s == IF i = 4 THEN "word" ELSE shape[i] IN
       [Token(3 * (i - 1), s = "point", "plain") EXCEPT
          !.opens = s # "more", !.punct = s = "point", !.dtw = s # "more" \/ i # 3]],
     Interval(0, 12), 12), 12) :
     shape \in [1..3 -> {"word", "more", "point"}]}

\* Every mix of kinds over four words of three samples each.
Mixed ==
  {Session(GroupWords([i \in 1..4 |-> Token(3 * (i - 1), i % every = 0, kind[i])], Interval(0, 12), 12), 12) :
     kind \in [1..4 -> {"plain", "digit", "trigger", "listed"}], every \in {1, 2}}

\* Every way to divide six words into sentences.
Divided ==
  {Session(GroupWords([i \in 1..6 |-> Token(2 * (i - 1), stop[i], "plain")], Interval(0, 12), 12), 12) :
     stop \in [1..6 -> BOOLEAN]}

\* Four segments of one word with gaps narrower than, as wide as and wider
\* than a pause, ending sentences or not, some of them digits.
Spread ==
  {Session(FoldLeft(LAMBDA sofar, k : sofar \o
             GroupWords(<<Token((3 + gap) * k, k % every = 0, IF k \in digits THEN "digit" ELSE "plain")>>,
                        Interval((3 + gap) * k, (3 + gap) * k + 3), 24),
             <<>>, <<0, 1, 2, 3>>), 4 * (3 + gap)) :
     gap \in 1..3, every \in 1..2, digits \in SUBSET (0..3)}

\* What is refused before or after the analysis.
Unusable ==
  {Session(<<>>, 6),
   Session(GroupWords(<<Token(0, TRUE, "attack")>>, Interval(0, 6), 6), 6),
   [Session(GroupWords(<<Token(0, TRUE, "plain")>>, Interval(0, 6), 6), 6) EXCEPT !.usable = FALSE]}

MCTranscripts == Timed \cup Segmented \cup Shaped \cup Mixed \cup Divided \cup Spread \cup Unusable

\* Any span of the window and the one past it, two spans in either order, too
\* many, an uncertain answer and none.
MCAnswers(window) ==
  LET Raw(first, past) == [first |-> first, past |-> past, action |-> "DropWords"]
      Output(raw, doubt) == [spans |-> raw, uncertain |-> doubt, parsed |-> TRUE]
      one == Raw(window.first, window.first + 1)
      last == Raw(window.past - 1, window.past)
  IN  {NoAnswer, Output(<<>>, TRUE), Output(<<>>, FALSE), Output(<<one, one, last>>, FALSE),
       Output(<<one, last>>, FALSE), Output(<<last, one>>, FALSE), Output(<<Raw(window.past, window.past)>>, FALSE)}
      \cup {Output(<<Raw(i, window.past)>>, FALSE) : i \in ShownIds(window)}
      \cup {Output(<<Raw(i, window.past + 1)>>, FALSE) : i \in ShownIds(window)}
=============================================================================
