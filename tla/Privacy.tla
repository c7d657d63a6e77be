------------------------------- MODULE Privacy -------------------------------
(***************************************************************************)
(* The privacy analysis of a session's frozen words: the deterministic     *)
(* rules, the overlapping windows the local model is shown, and the union  *)
(* of what both name.  Everything fails closed: one missing, malformed or  *)
(* out-of-window answer rejects the session.                               *)
(***************************************************************************)
EXTENDS Removal, FiniteSets

CONSTANTS
  WindowWords, OverlapWords,  \* PrivacySettings, in words
  WordLevelCuts,              \* PrivacySettings.allow_word_level_cuts
  PauseSamples,               \* PrivacySettings.sentence_pause_ms
  MaxSpans,                   \* MAX_SPANS_PER_WINDOW
  MinDigitRun,                \* MIN_DIGIT_RUN
  TriggerWindow               \* Trigger.window

ASSUME PrivacyAssumption ==
  /\ {WindowWords, OverlapWords, PauseSamples, MaxSpans, MinDigitRun, TriggerWindow} \subseteq Nat
  /\ WordLevelCuts \in BOOLEAN

VARIABLES
  session,    \* the transcript: its words, its audio and whether it can be used at all
  stage,      \* what is done next; "rejected" once any stage failed
  windows,    \* positions [first, past) shown to the model
  answers,    \* what the model answered, window by window
  spans,      \* PrivacyAnalysis.spans
  uncertain   \* PrivacyAnalysis.uncertain

analysisVars == <<session, stage, windows, answers, spans, uncertain>>

Words == session.words
Sentences(words) == SentencesFromWords(words, PauseSamples)

-----------------------------------------------------------------------------
(* Rules.  A word's kind is what a detector sees in it: a digit, the last  *)
(* word of a trigger phrase, a term of a list or of the user, or words     *)
(* that address the model.                                                 *)

RuleSpan(first, past) ==
  [first |-> first, past |-> past, action |-> "DropSentence", mandatory |-> TRUE]

\* spoken_digit_runs: the longest runs of digit words, if long enough.
SpokenDigitRuns(words) ==
  LET Run(i, j) == /\ i <= j /\ j - i + 1 >= MinDigitRun
                   /\ \A k \in i..j : words[k].kind = "digit"
                   /\ i > 1 => words[i - 1].kind # "digit"
                   /\ j < Len(words) => words[j + 1].kind # "digit"
      runs == {r \in (1..Len(words)) \X (1..Len(words)) : Run(r[1], r[2])}
  IN  {RuleSpan(words[r[1]].id, words[r[2]].id + 1) : r \in runs}

OfKind(words, kind) == {i \in 1..Len(words) : words[i].kind = kind}

\* The spans a trigger phrase covers: the phrase and what follows it.
TriggerSpans(words) ==
  {RuleSpan(words[i].id, words[Smaller(i + TriggerWindow, Len(words))].id + 1) :
     i \in OfKind(words, "trigger")}

\* detect
Detect(words) ==
  SpokenDigitRuns(words) \cup TriggerSpans(words)
  \cup {RuleSpan(words[i].id, words[i].id + 1) :
          i \in OfKind(words, "listed") \cup OfKind(words, "attack")}

InjectionSuspected(words) == OfKind(words, "attack") # {}

-----------------------------------------------------------------------------
(* Windows *)

\* Positions after the last word of a sentence.
Boundaries(words) == {s.past : s \in Sentences(words)}

\* One turn of build_windows: a window ends with the last sentence that ends
\* in it, and the next one goes back over the overlap.
WindowAt_Mut(start, words) ==
  LET past == Smaller(start + Larger(WindowWords, 1), Len(words))
  IN  [first |-> start, past |-> past]
WindowAt(start, words) ==
  LET full == Smaller(start + Larger(WindowWords, 1), Len(words))
      ends == {b \in Boundaries(words) : start < b /\ b <= full}
  IN  [first |-> start,
       past  |-> IF full < Len(words) /\ ends # {}
                 THEN CHOOSE b \in ends : \A c \in ends : c <= b ELSE full]

NextStart(window) ==
  LET overlap == Smaller(OverlapWords, Larger(WindowWords, 1) - 1)
  IN  Larger(window.past - overlap, window.first + 1)

ShownIds(window) == window.first..(window.past - 1)

NextWindow ==
  /\ stage = "windowing"
  /\ LET start == IF windows = <<>> THEN 0 ELSE NextStart(Last(windows)) IN
     windows' = Append(windows, WindowAt(start, Words))
  /\ stage' = IF Last(windows').past < Len(Words) THEN "windowing"
              ELSE IF \A i \in 1..Len(Words) : \E w \in ToSet(windows') : Words[i].id \in ShownIds(w)
              THEN "classifying" ELSE "rejected"
  /\ UNCHANGED <<session, answers, spans, uncertain>>

-----------------------------------------------------------------------------
(* Answers: NoAnswer for a failed call or text that is not the JSON object *)
(* the schema asks for, otherwise the spans and whether it was certain.    *)

NoAnswer == [spans |-> <<>>, uncertain |-> TRUE, parsed |-> FALSE]

\* validate_output
ValidOutput(output, ids) ==
  /\ output.parsed
  /\ Len(output.spans) <= MaxSpans
  /\ \A i \in 1..Len(output.spans) :
       /\ {output.spans[i].first, output.spans[i].past} \subseteq Nat
       /\ output.spans[i].first < output.spans[i].past
       /\ i > 1 => output.spans[i - 1].first <= output.spans[i].first
       /\ output.spans[i].first..(output.spans[i].past - 1) \subseteq ids

\* A cut of single words becomes one of the sentence unless they are allowed.
ModelSpan(raw) ==
  [first |-> raw.first, past |-> raw.past, mandatory |-> FALSE,
   action |-> IF WordLevelCuts THEN raw.action ELSE "DropSentence"]

Classify(output) ==
  /\ stage = "classifying"
  /\ answers' = Append(answers, output)
  /\ IF ValidOutput(output, ShownIds(windows[Len(answers')]))
     THEN /\ spans' = spans \cup {ModelSpan(s) : s \in ToSet(output.spans)}
          /\ uncertain' = (uncertain \/ output.uncertain)
          /\ stage' = IF Len(answers') = Len(windows) THEN "planning" ELSE "classifying"
     ELSE /\ stage' = "rejected" /\ uncertain' = TRUE
          /\ UNCHANGED spans
  /\ UNCHANGED <<session, windows>>

\* The start of analyze.
AnalysisInit(s) ==
  /\ session = s
  /\ spans = Detect(s.words) /\ uncertain = InjectionSuspected(s.words)
  /\ stage = IF s.words = <<>> THEN "rejected" ELSE "windowing"
  /\ windows = <<>> /\ answers = <<>>

-----------------------------------------------------------------------------
\* Every word is shown to the model, and a sentence that fits in a window is
\* shown whole in one of them: no sentence is judged only in pieces
\* (build_windows; "windows that follow sentence boundaries and cover every
\* word").
EverySentenceShown ==
  stage \notin {"windowing", "rejected"} =>
    /\ \A i \in 1..Len(Words) : \E w \in ToSet(windows) : Words[i].id \in ShownIds(w)
    /\ \A s \in Sentences(Words) :
         s.past - s.first <= WindowWords =>
           \E w \in ToSet(windows) : s.first..(s.past - 1) \subseteq ShownIds(w)
=============================================================================
