------------------------------ MODULE Transcript -----------------------------
(***************************************************************************)
(* From the recogniser's tokens to the frozen words of a session and their *)
(* sentences.  Of a token's text the model keeps whether it opens a word,  *)
(* is punctuation only or ends a sentence, and what kind of word the rules *)
(* would see in it; of its probability, whether it is below the minimum.   *)
(*   token: [opens, punct, stop, kind, low, onset, dtw]                    *)
(*   word:  [id, start, end, stop, kind, low, unreliable]                  *)
(***************************************************************************)
EXTENDS TimeMap

\* The first loop of group_words.
Pending(tokens) ==
  LET Take(pending, t) ==
        IF pending = <<>> \/ (t.opens /\ ~t.punct)
        THEN Append(pending, [onset |-> t.onset, unreliable |-> ~t.dtw, low |-> t.low,
                              stop |-> t.stop, kind |-> t.kind, spoken |-> ~t.punct])
        ELSE LET last == Last(pending) IN
             [pending EXCEPT ![Len(pending)] =
               [last EXCEPT !.unreliable = @ \/ ~t.dtw, !.low = @ \/ t.low,
                            !.stop = t.stop, !.spoken = @ \/ ~t.punct]]
  IN  FoldLeft(Take, <<>>, tokens)

\* group_words: a word begins at its onset, but never before the word it
\* follows, and lasts until the next one begins.
GroupWords(tokens, segment, audio) ==
  LET pending == Pending(tokens)
      upper   == Smaller(segment.end, audio)
      Within(x, low) == Smaller(Larger(x, low), upper)
      start[i \in 0..Len(pending)] ==
        IF i = 0 THEN Smaller(segment.start, upper)
                 ELSE Within(pending[i].onset, start[i - 1])
  IN  [i \in 1..Len(pending) |->
        LET end == IF i = Len(pending) THEN upper
                   ELSE Within(pending[i + 1].onset, start[i]) IN
        [start |-> start[i], end |-> end, spoken |-> pending[i].spoken,
         stop |-> pending[i].stop, kind |-> pending[i].kind, low |-> pending[i].low,
         unreliable |-> \/ pending[i].unreliable \/ end = start[i]
                        \/ pending[i].onset < start[i - 1]]]

\* freeze: words that are more than punctuation, numbered from zero and
\* brought back inside the audio.
Freeze(grouped, total) ==
  LET said == SelectSeq(grouped, LAMBDA w : w.spoken)
  IN  [i \in 1..Len(said) |->
        LET end == Smaller(said[i].end, total) IN
        [id |-> i - 1, start |-> Smaller(said[i].start, end), end |-> end,
         stop |-> said[i].stop, kind |-> said[i].kind, low |-> said[i].low,
         unreliable |-> said[i].unreliable]]

WordInterval(w) == Interval(w.start, w.end)

\* push_sentence
Sentence(index, words) ==
  [index |-> index, first |-> words[1].id, past |-> Last(words).id + 1,
   interval |-> Interval(words[1].start, Last(words).end)]

\* sentences_from_words: a sentence ends at terminal punctuation, before a pause
\* and with the last word, and holds the words since the end before.  Indices
\* count from zero.
SentencesFromWords(words, pause) ==
  LET ends == {i \in 1..Len(words) : \/ i = Len(words)
                                     \/ words[i].stop
                                     \/ Larger(words[i + 1].start - words[i].end, 0) >= pause}
      Earlier(i) == {j \in ends : j < i}
  IN  {Sentence(Cardinality(Earlier(i)), SubSeq(words, Max({0} \cup Earlier(i)) + 1, i)) : i \in ends}

ContainsWord(sentence, id) == sentence.first <= id /\ id < sentence.past
=============================================================================
