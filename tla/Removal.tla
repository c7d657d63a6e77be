------------------------------- MODULE Removal -------------------------------
(***************************************************************************)
(* The plan of what is cut: the words a sensitive span names grow to whole *)
(* sentences, to padded intervals of audio and to every word such an       *)
(* interval touches, until nothing more is touched.                        *)
(*   span: [first, past, action, mandatory]                                *)
(***************************************************************************)
EXTENDS Transcript

OverlapsSpan(sentence, span) == sentence.first < span.past /\ span.first < sentence.past

\* expand_to_sentences: [words, sentences] that the spans select.
ExpandToSentences(spans, sentences, expandAll) ==
  LET Touched(span) ==
        {s \in sentences : /\ expandAll \/ span.action = "DropSentence"
                           /\ OverlapsSpan(s, span)}
      Ids(span) == IF Touched(span) = {} THEN span.first..(span.past - 1)
                   ELSE UNION {s.first..(s.past - 1) : s \in Touched(span)}
  IN  [words |-> UNION {Ids(span) : span \in spans},
       sentences |-> UNION {{s.index : s \in Touched(span)} : span \in spans}]

\* padded_intervals
PaddedIntervals(words, selected, sentences, whole, padding, bound) ==
  PadAll(Normalize({WordInterval(w) : w \in {w \in ToSet(words) : w.id \in selected}}
                   \cup {s.interval : s \in {s \in sentences : s.index \in whole}}),
         padding, bound)

\* What plan_removals starts from: the words of the spans and of the
\* sentences the caller adds, and the sentences that go as a whole.
FirstSelection(words, spans, sentences, expandAll, extra) ==
  LET expanded == ExpandToSentences(spans, sentences, expandAll)
      added    == {s \in sentences : s.index \in extra}
  IN  [selected |-> {w.id : w \in {w \in ToSet(words) :
                       w.id \in expanded.words \/ \E s \in added : ContainsWord(s, w.id)}},
       whole    |-> expanded.sentences \cup extra]

\* One turn of plan_removals' loop.
Grown(words, selected, intervals) ==
  selected \cup {w.id : w \in {w \in ToSet(words) :
                   \E i \in intervals : Intersects(WordInterval(w), i)}}

\* words_fully_inside
WordsFullyInside(words, interval, excluded) ==
  LET inside == Ascending({k \in 1..Len(words) :
                  /\ words[k].id \notin excluded
                  /\ interval.start <= words[k].start /\ words[k].end <= interval.end})
  IN  [n \in 1..Len(inside) |-> words[inside[n]]]
=============================================================================
