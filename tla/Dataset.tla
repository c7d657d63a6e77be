------------------------------- MODULE Dataset -------------------------------
(***************************************************************************)
(* The training copy of one session: build_dataset, from a finished        *)
(* analysis to eligible clips or a rejection, and the recheck of what was  *)
(* retained.  Samples have no values: a clip is known by its interval.     *)
(***************************************************************************)
EXTENDS Privacy

CONSTANTS
  Rate,                        \* samples per second, scaled down
  PaddingMs, ExpandAll,        \* RemovalSettings
  MinClipMs, MaxClipMs, MinClipWords, MinTotalMs, MaxTotalMs  \* QualitySettings

ASSUME DatasetAssumption ==
  /\ {Rate, PaddingMs, MinClipMs, MaxClipMs, MinClipWords, MinTotalMs, MaxTotalMs} \subseteq Nat
  /\ Rate > 0 /\ ExpandAll \in BOOLEAN

VARIABLES
  selected,  \* ids of the words to be cut
  whole,     \* indices of the sentences cut as a whole
  clips      \* the clips of the result

datasetVars == <<selected, whole, clips>>

Bound == Interval(0, session.audio)
DurationMs(samples) == (samples * 1000 + Rate \div 2) \div Rate
Total_Mut(clipSeq) ==
  DurationMs(Accumulated([n \in 1..Len(clipSeq) |-> Length(clipSeq[n].source)])[Len(clipSeq)])
Total(clipSeq) == 
  Accumulated([n \in 1..Len(clipSeq) |-> DurationMs(Length(clipSeq[n].source))])[Len(clipSeq)]

Removed ==
  IF selected = {} THEN {}
  ELSE PaddedIntervals(Words, selected, Sentences(Words), whole,
                       MillisecondsToSamples(PaddingMs, Rate), Bound)

\* validate_alignment finds a problem of SESSION_FATAL_ALIGNMENT.
AlignmentUnusable(words) ==
  \E i \in 1..Len(words) :
    \/ words[i].start < (IF i = 1 THEN 0 ELSE words[i - 1].end)
    \/ words[i].end > session.audio
    \/ IsEmpty(WordInterval(words[i])) /\ ~words[i].unreliable

\* sentences_with_unusable_words
UnusableSentences(words) ==
  {s.index : s \in {s \in Sentences(words) :
     \E w \in ToSet(words) : (w.low \/ w.unreliable) /\ ContainsWord(s, w.id)}}

Reject == stage' = "rejected" /\ UNCHANGED <<session, windows, answers, spans, uncertain>>

\* build_dataset up to the first intervals of plan_removals.  session.usable
\* stands for the gates on language, audio and speech.
PlanRemovals ==
  /\ stage = "planning" /\ ~uncertain /\ session.usable /\ ~AlignmentUnusable(Words)
  /\ LET first == FirstSelection(Words, spans, Sentences(Words), ExpandAll,
                                 UnusableSentences(Words)) IN
     /\ selected' = first.selected /\ whole' = first.whole
     /\ stage' = IF first.selected = {} THEN "cutting" ELSE "growing"
  /\ UNCHANGED <<session, windows, answers, spans, uncertain, clips>>

RefusePlan ==
  /\ stage = "planning" /\ (uncertain \/ ~session.usable \/ AlignmentUnusable(Words))
  /\ Reject /\ UNCHANGED datasetVars

\* A turn of the loop of plan_removals; it stops when nothing grew.
GrowRemovals_Mut ==
  /\ stage = "growing"
  /\ selected' = Grown(Words, selected, Removed)
  /\ stage' = "cutting"
  /\ UNCHANGED <<session, windows, answers, spans, uncertain, whole, clips>>
GrowRemovals ==
  /\ stage = "growing"
  /\ selected' = Grown(Words, selected, Removed)
  /\ stage' = IF selected' = selected THEN "cutting" ELSE "growing"
  /\ UNCHANGED <<session, windows, answers, spans, uncertain, whole, clips>>

-----------------------------------------------------------------------------
\* The gates of check_clip that measure, and those of check_session.
ClipPasses(source, words) ==
  /\ DurationMs(Length(source)) \in MinClipMs..MaxClipMs
  /\ Len(words) >= MinClipWords /\ Len(words) > 0
SessionPasses(chosen) == chosen # <<>> /\ Total(chosen) \in MinTotalMs..MaxTotalMs

\* The retained intervals that pass the gates; `dull` are those whose confidence
\* or speech does not.
Candidates(dull) ==
  LET InIt(i) == WordsFullyInside(Words, i, selected)
      good    == {i \in Complement(Removed, Bound) \ dull : ClipPasses(i, InIt(i))}
      starts  == Ascending({i.start : i \in good})
  IN  [n \in 1..Len(starts) |->
        LET i == CHOOSE i \in good : i.start = starts[n] IN
        [source |-> i, words |-> InIt(i)]]

\* The clips with their place on the spliced timeline.
Placed_Mut(chosen) ==
  [n \in 1..Len(chosen) |->
    [source |-> chosen[n].source, words |-> chosen[n].words,
     destination |-> DestinationOf(SetToSeq(Complement(Removed, Bound)), n)]]
Placed(chosen) ==
  [n \in 1..Len(chosen) |->
    [source |-> chosen[n].source, words |-> chosen[n].words,
     destination |-> DestinationOf([k \in 1..Len(chosen) |-> chosen[k].source], n)]]

\* assert_no_removed_audio
NoRemovedAudio(clipSeq) ==
  \A c \in ToSet(clipSeq) :
    /\ \A r \in Removed : ~Intersects(c.source, r)
    /\ \A w \in ToSet(c.words) : c.source.start <= w.start /\ w.end <= c.source.end

\* The clips, and the gates of check_session over those that are left.
CutClips(dull) ==
  /\ stage = "cutting"
  /\ LET chosen == Candidates(dull) IN
     IF SessionPasses(chosen)
     THEN /\ clips' = Placed(chosen) /\ stage' = "rechecking"
          /\ UNCHANGED <<session, windows, answers, spans, uncertain>>
     ELSE Reject /\ UNCHANGED clips
  /\ UNCHANGED <<selected, whole>>

\* renumbered_transcript: the retained words, numbered from zero, where they
\* lie on the spliced timeline.
Renumbered(clipSeq) ==
  LET before   == Accumulated([n \in 1..Len(clipSeq) |-> Len(clipSeq[n].words)])
      ClipOf(i) == CHOOSE n \in 1..Len(clipSeq) : before[n - 1] < i /\ i <= before[n]
      Moved(w, c, id) == [w EXCEPT !.id = id,
                                   !.start = @ - c.source.start + c.destination.start,
                                   !.end   = @ - c.source.start + c.destination.start]
  IN  [i \in 1..before[Len(clipSeq)] |->
        LET n == ClipOf(i) IN Moved(clipSeq[n].words[i - before[n - 1]], clipSeq[n], i - 1)]

\* verify_clean, the duplicate gate and the last assertion.  `verdict` is what
\* the model finds in the retained text, or that the text was seen before.
Recheck(verdict) ==
  /\ stage = "rechecking"
  /\ LET retained == Renumbered(clips) IN
     IF verdict = "clean" /\ Detect(retained) = {} /\ NoRemovedAudio(clips)
     THEN stage' = "eligible" /\ UNCHANGED <<session, windows, answers, spans, uncertain, clips>>
     ELSE Reject /\ clips' = <<>>
  /\ UNCHANGED <<selected, whole>>

-----------------------------------------------------------------------------
Ready == stage \in {"eligible", "packed", "sent", "admitted"}

\* The sentences that must not be trained on: one that holds a word the rules
\* or a valid answer of the model name, or a word whose timing or confidence
\* is no good.
Named(id) ==
  \/ Words[id + 1].kind \in {"listed", "attack"}
  \/ \E i \in 1..Len(Words) : Words[i].kind = "trigger" /\ id \in (i - 1)..(i - 1 + TriggerWindow)
  \/ \E i \in 1..(Len(Words) - MinDigitRun + 1) :
       /\ id \in (i - 1)..(i + MinDigitRun - 2)
       /\ \A j \in i..(i + MinDigitRun - 1) : Words[j].kind = "digit"
  \/ \E k \in 1..Len(answers) : \E s \in ToSet(answers[k].spans) : s.first <= id /\ id < s.past
Tainted ==
  {s \in Sentences(Words) :
     \E w \in ToSet(Words) : ContainsWord(s, w.id) /\ (Named(w.id) \/ w.low \/ w.unreliable)}

\* A session is eligible only if every window was answered, each answer was
\* what the schema asks for, certain, and named only words of its window, and no
\* word of the transcript addresses the model (analyze, build_dataset; "Everything
\* here fails closed", "it never yields 'probably fine'").
FailsClosed ==
  Ready =>
    /\ Len(answers) = Len(windows) /\ ~InjectionSuspected(Words)
    /\ \A k \in 1..Len(answers) :
         /\ answers[k].parsed /\ ~answers[k].uncertain
         /\ \A i \in 1..Len(answers[k].spans) :
              answers[k].spans[i].first..(answers[k].spans[i].past - 1) \subseteq ShownIds(windows[k])

\* Of an eligible session no clip holds a word of a tainted sentence, a sample
\* of it, or a sample as near to it as the padding; the words of a clip lie
\* wholly inside it and no word is heard in a clip that does not name it
\* (plan_removals, complement, build_dataset; "no sample inside a removal
\* interval appears in any clip").
RemovedStaysOut ==
  Ready =>
    /\ \A s \in Tainted, c \in ToSet(clips) :
         /\ \A w \in ToSet(c.words) : ~ContainsWord(s, w.id)
         /\ IsEmpty(s.interval) \/
            ~Intersects(c.source, Pad(s.interval, MillisecondsToSamples(PaddingMs, Rate), Bound))
    /\ \A c \in ToSet(clips), w \in ToSet(Words) :
         IF w \in ToSet(c.words) THEN c.source.start <= w.start /\ w.end <= c.source.end
         ELSE IsEmpty(WordInterval(w)) \/ ~Intersects(c.source, WordInterval(w))

\* The clips lie end to end on the spliced timeline, in their order and with
\* their lengths, so the renumbered words the recheck judges are in order and
\* inside it (DestinationMap over the surviving clips, renumbered_transcript).
TimelineExact ==
  Ready \/ stage = "rechecking" =>
    /\ \A n \in 1..Len(clips) :
         /\ Length(clips[n].destination) = Length(clips[n].source)
         /\ clips[n].destination.start = (IF n = 1 THEN 0 ELSE clips[n - 1].destination.end)
         /\ n > 1 => clips[n - 1].source.end < clips[n].source.start
    /\ LET words == Renumbered(clips) IN
       \A i \in 1..Len(words) :
         /\ words[i].end <= Last(clips).destination.end
         /\ i > 1 => words[i - 1].end <= words[i].start

\* Privacy filtering discards utterances whose timing is unreliable
\* (workers/asr/src/words.rs): no clip holds the place of one.
UnreliableDiscarded ==
  Ready =>
    \A s \in Sentences(Words), c \in ToSet(clips) :
      (\E w \in ToSet(Words) : ContainsWord(s, w.id) /\ w.unreliable) =>
        ~Intersects(s.interval, c.source)
=============================================================================
