----------------------------- MODULE CopyProofs -----------------------------
(***************************************************************************)
(* A session's training copy, for any transcripts, any answers of the      *)
(* model and any settings: what the windows show the model, that nothing   *)
(* is eligible which the model did not vouch for, that the clips lie end   *)
(* to end and hold nothing that has to stay out, that every eligible       *)
(* session can be packed, and that what the service admits is what was     *)
(* built.                                                                  *)
(***************************************************************************)
EXTENDS TrainingCopy, FiniteSetTheorems, SequenceTheorems, WellFoundedInduction, TLAPS

\* A set of numbers that are not negative has a largest one if it is bounded.
LEMMA LargestExists ==
  ASSUME NEW n \in Nat, NEW S, S \subseteq 0..n, S # {}
  PROVE  \E x \in S : \A y \in S : y <= x
<1> DEFINE T == {n - x : x \in S}
<1>1. T \subseteq Nat /\ T # {}
  <2>1. \A x \in S : n - x \in Nat
    OBVIOUS
  <2>2. PICK x \in S : TRUE
    OBVIOUS
  <2>3. n - x \in T
    OBVIOUS
  <2> QED
    BY <2>1, <2>3
<1>2. \E t \in T : \A u \in T : ~(<<u, t>> \in OpToRel(<, Nat))
  BY <1>1, WFMin, NatLessThanWellFounded
<1>3. PICK t \in T : \A u \in T : ~(<<u, t>> \in OpToRel(<, Nat))
  BY <1>2
<1>4. \A u \in T : t <= u
  <2> SUFFICES ASSUME NEW u \in T, ~(t <= u) PROVE FALSE
    OBVIOUS
  <2>1. t \in Nat /\ u \in Nat
    BY <1>1
  <2>2. u < t
    BY <2>1
  <2>3. <<u, t>> \in {ss \in Nat \X Nat : ss[1] < ss[2]}
    BY <2>1, <2>2
  <2> QED
    BY <1>3, <2>3 DEF OpToRel
<1>5. PICK x \in S : t = n - x
  OBVIOUS
<1>6. ASSUME NEW y \in S PROVE y <= x
  <2>1. n - y \in T
    OBVIOUS
  <2>2. n - x <= n - y
    BY <1>4, <1>5, <2>1
  <2>3. x \in Int /\ y \in Int
    OBVIOUS
  <2> QED
    BY <2>2, <2>3
<1> QED
  BY <1>6

\* A set of natural numbers that is not empty has a smallest one.
LEMMA SmallestExists ==
  ASSUME NEW S, S \subseteq Nat, S # {}
  PROVE  \E x \in S : \A y \in S : x <= y
<1>1. PICK x \in S : \A y \in S : ~(<<y, x>> \in OpToRel(<, Nat))
  BY WFMin, NatLessThanWellFounded
<1>2. ASSUME NEW y \in S PROVE x <= y
  <2>1. y < x => <<y, x>> \in {ss \in Nat \X Nat : ss[1] < ss[2]}
    OBVIOUS
  <2> QED
    BY <1>1, <2>1 DEF OpToRel
<1> QED
  BY <1>2

\* Min and Max of numbers.
LEMMA MinIsSmallest ==
  ASSUME NEW S, S \subseteq Nat, S # {}
  PROVE  Min(S) \in S /\ \A y \in S : Min(S) <= y
<1>1. \E x \in S : \A y \in S : x <= y
  BY SmallestExists
<1> QED
  BY <1>1 DEF Min

LEMMA MaxIsLargest ==
  ASSUME NEW n \in Nat, NEW S, S \subseteq 0..n, S # {}
  PROVE  Max(S) \in S /\ \A y \in S : y <= Max(S)
<1>1. PICK x \in S : \A y \in S : y <= x
  BY LargestExists
<1>2. \A y \in S : x >= y
  BY <1>1
<1>3. Max(S) \in S /\ \A y \in S : Max(S) >= y
  BY <1>2 DEF Max
<1> QED
  BY <1>3

-----------------------------------------------------------------------------
\* The words are those of a frozen transcript.
WordsGiven ==
  Words \in Seq(ToSet(Words)) /\ \A i \in 1..Len(Words) : Words[i].id = i - 1

\* Positions after which a sentence ends.
Ends == {i \in 1..Len(Words) :
           \/ i = Len(Words)
           \/ Words[i].stop
           \/ Larger(Words[i + 1].start - Words[i].end, 0) >= PauseSamples}

\* The sentences lie between one end and the next.
LEMMA SentencesBetweenEnds ==
  ASSUME WordsGiven
  PROVE  /\ \A s \in Sentences(Words) :
              /\ s.past \in Ends /\ s.first \in Ends \cup {0} /\ s.first < s.past
              /\ \A b \in Ends : b < s.past => b <= s.first
              /\ s.interval = Interval(Words[s.first + 1].start, Words[s.past].end)
         /\ Boundaries(Words) = Ends
<1> DEFINE N          == Len(Words)
           Earlier(i) == {j \in Ends : j < i}
           From(i)    == Max({0} \cup Earlier(i))
           Upto(i)    == Sentence(Cardinality(Earlier(i)), SubSeq(Words, From(i) + 1, i))
<1>1. Sentences(Words) = {Upto(i) : i \in Ends}
  BY DEF Sentences, SentencesFromWords, Ends
<1>2. N \in Nat /\ Ends \subseteq 1..N
  BY DEF WordsGiven, Ends
<1>3. ASSUME NEW i \in Ends
      PROVE  /\ From(i) \in Ends \cup {0} /\ From(i) < i
             /\ \A b \in Ends : b < i => b <= From(i)
  <2>1. {0} \cup Earlier(i) \subseteq 0..N
    <3>1. Earlier(i) \subseteq 1..N
      BY <1>2
    <3> QED
      BY <1>2, <3>1
  <2>2. PICK x \in {0} \cup Earlier(i) : \A y \in {0} \cup Earlier(i) : y <= x
    BY <1>2, <2>1, LargestExists
  <2>3. \A y \in {0} \cup Earlier(i) : x >= y
    BY <1>2, <2>1, <2>2
  <2>4. From(i) \in {0} \cup Earlier(i) /\ \A y \in {0} \cup Earlier(i) : From(i) >= y
    BY <2>3 DEF Max
  <2>5. From(i) \in Nat /\ i \in Nat \ {0}
    BY <1>2, <2>1, <2>4
  <2> HIDE DEF From
  <2> QED
    BY <1>2, <2>4, <2>5
<1> HIDE DEF From
<1>4. ASSUME NEW i \in Ends
      PROVE  /\ Upto(i).first = From(i) /\ Upto(i).past = i
             /\ Upto(i).interval = Interval(Words[From(i) + 1].start, Words[i].end)
  <2> DEFINE m == From(i)
             said == SubSeq(Words, m + 1, i)
  <2>1. m \in Nat /\ i \in 1..N /\ m < i
    <3>1. m \in Ends \cup {0} /\ m < i
      BY <1>3
    <3>2. i \in 1..N
      BY <1>2
    <3>3. Ends \cup {0} \subseteq Nat
      BY <1>2
    <3> QED
      BY <3>1, <3>2, <3>3
  <2> HIDE DEF m
  <2>2. \A j \in (m + 1)..i : Words[j] \in ToSet(Words)
    <3>1. \A j \in (m + 1)..i : j \in 1..N
      BY <1>2, <2>1
    <3> QED
      BY <3>1, ElementOfSeq DEF WordsGiven
  <2>3. said \in Seq(ToSet(Words)) /\ Len(said) = i - m
        /\ \A j \in 1..(i - m) : said[j] = Words[m + j]
    <3>1. m + 1 \in Int /\ i \in Int /\ m + 1 <= i /\ i - (m + 1) + 1 = i - m
      BY <1>2, <2>1
    <3>2. /\ said \in Seq(ToSet(Words))
          /\ Len(said) = IF m + 1 <= i THEN i - (m + 1) + 1 ELSE 0
          /\ \A j \in 1..(i - (m + 1) + 1) : said[j] = Words[m + 1 + j - 1]
      BY <2>2, <3>1, SubSeqProperties
    <3>3. \A j \in 1..(i - m) : m + 1 + j - 1 = m + j
      BY <2>1
    <3> QED
      BY <3>1, <3>2, <3>3
  <2>4. said[1] = Words[m + 1] /\ Last(said) = Words[i]
    <3>1. 1 \in 1..(i - m) /\ i - m \in 1..(i - m) /\ m + (i - m) = i
      BY <1>2, <2>1
    <3>2. said[i - m] = Words[m + (i - m)]
      BY <2>3, <3>1
    <3> HIDE DEF said
    <3> QED
      BY <2>3, <3>1, <3>2 DEF Last
  <2>5. Words[m + 1].id = m /\ Words[i].id = i - 1
    <3>1. m + 1 \in 1..N
      BY <1>2, <2>1
    <3>2. m + 1 - 1 = m
      BY <2>1
    <3> QED
      BY <2>1, <3>1, <3>2 DEF WordsGiven
  <2> HIDE DEF said
  <2>6. Upto(i) = Sentence(Cardinality(Earlier(i)), said)
    BY DEF said, m
  <2>7. /\ Upto(i).first = m /\ Upto(i).past = i - 1 + 1
        /\ Upto(i).interval = Interval(Words[m + 1].start, Words[i].end)
    BY <2>4, <2>5, <2>6 DEF Sentence
  <2> QED
    BY <1>2, <2>1, <2>7 DEF m
<1> HIDE DEF Upto
<1>5. Boundaries(Words) = Ends
  BY <1>1, <1>4 DEF Boundaries
<1>6. \A s \in Sentences(Words) :
        /\ s.past \in Ends /\ s.first \in Ends \cup {0} /\ s.first < s.past
        /\ \A b \in Ends : b < s.past => b <= s.first
        /\ s.interval = Interval(Words[s.first + 1].start, Words[s.past].end)
  BY <1>1, <1>3, <1>4
<1> QED
  BY <1>5, <1>6

-----------------------------------------------------------------------------
(* Windows.                                                                 *)

Width == Larger(WindowWords, 1)

\* A window ends with a sentence, or it is full and no sentence ends in it.
FollowsSentences(w) ==
  /\ w = [first |-> w.first, past |-> w.past]
  /\ w.first \in Nat /\ w.past \in Nat /\ w.first < w.past /\ w.past <= Len(Words)
  /\ w.past <= w.first + Width
  /\ \/ w.past \in Ends
     \/ w.past = w.first + Width /\ \A b \in Ends : w.first < b => w.past < b

LEMMA WindowFollows ==
  ASSUME WordsGiven, NEW start \in Nat, start < Len(Words)
  PROVE  WindowAt(start, Words).first = start /\ FollowsSentences(WindowAt(start, Words))
<1> DEFINE N    == Len(Words)
           full == Smaller(start + Width, N)
           ends == {b \in Ends : start < b /\ b <= full}
           w    == WindowAt(start, Words)
<1>1. N \in Nat /\ Ends \subseteq 1..N /\ N \in Ends
  BY DEF WordsGiven, Ends
<1>2. Width \in Nat /\ Width > 0
  BY PrivacyAssumption DEF Width, Larger
<1>3. full \in Nat /\ start < full /\ full <= N /\ full <= start + Width
      /\ (full = N \/ full = start + Width)
  BY <1>1, <1>2 DEF Smaller
<1>4. w = [first |-> start,
           past  |-> IF full < N /\ ends # {}
                     THEN CHOOSE b \in ends : \A c \in ends : c <= b ELSE full]
  BY SentencesBetweenEnds DEF WindowAt, Width
<1> HIDE DEF full, w
<1>5. CASE full < N /\ ends # {}
  <2>1. ends \subseteq 0..N
    <3>1. ends \subseteq Ends /\ Ends \subseteq 0..N
      BY <1>1
    <3> QED
      BY <3>1, Zenon
  <2>2. \E b \in ends : \A c \in ends : c <= b
    <3> HIDE DEF ends
    <3> QED
      BY <1>1, <1>5, <2>1, LargestExists
  <2>3. w.past \in ends
    <3> HIDE DEF ends
    <3> QED
      BY <1>4, <1>5, <2>2
  <2>4. w.past \in Ends /\ start < w.past /\ w.past <= full /\ w.past \in 1..N
    BY <1>1, <2>3
  <2>5. w.first = start /\ w = [first |-> w.first, past |-> w.past]
    BY <1>4
  <2>6. w.past \in Nat /\ w.first \in Nat /\ w.first < w.past /\ w.past <= N
        /\ w.past <= w.first + Width
    BY <1>1, <1>2, <1>3, <2>4, <2>5
  <2> QED
    BY <2>4, <2>5, <2>6 DEF FollowsSentences, w
<1>6. CASE ~(full < N /\ ends # {})
  <2>1. w = [first |-> start, past |-> full]
    BY <1>4, <1>6
  <2>2. full \in Ends \/ (full = start + Width /\ \A b \in Ends : start < b => full < b)
    <3>1. CASE full = N
      BY <1>1, <3>1
    <3>2. CASE full # N
      <4>1. full < N /\ ends = {}
        BY <1>1, <1>3, <1>6, <3>2
      <4>2. ASSUME NEW b \in Ends, start < b PROVE full < b
        <5>1. b \in Nat /\ b \notin ends
          BY <1>1, <4>1
        <5> QED
          BY <1>3, <4>2, <5>1
      <4> QED
        BY <1>3, <3>2, <4>2
    <3> QED
      BY <3>1, <3>2
  <2>3. w.first = start /\ w.past = full /\ w = [first |-> w.first, past |-> w.past]
    BY <2>1
  <2>4. w.past \in Nat /\ w.first \in Nat /\ w.first < w.past /\ w.past <= N
        /\ w.past <= w.first + Width
    BY <1>1, <1>2, <1>3, <2>3
  <2>5. \/ w.past \in Ends
        \/ w.past = w.first + Width /\ \A b \in Ends : w.first < b => w.past < b
    BY <2>2, <2>3
  <2> QED
    BY <2>3, <2>4, <2>5 DEF FollowsSentences, w
<1> QED
  BY <1>4, <1>5, <1>6 DEF w

\* The next window goes on after the first word of this one, and leaves out
\* nothing between them.
LEMMA NextStartBetween ==
  ASSUME NEW w, FollowsSentences(w)
  PROVE  NextStart(w) \in Nat /\ w.first < NextStart(w) /\ NextStart(w) <= w.past
<1> DEFINE overlap == Smaller(OverlapWords, Larger(WindowWords, 1) - 1)
<1>1. overlap \in Nat
  BY PrivacyAssumption DEF Smaller, Larger
<1>2. NextStart(w) = Larger(w.past - overlap, w.first + 1)
  BY DEF NextStart
<1> HIDE DEF overlap
<1> QED
  BY <1>1, <1>2 DEF FollowsSentences, Larger

\* A sentence that fits in a window and ends after this one begins after the
\* start of the next.
LEMMA NotCutByTheNext ==
  ASSUME WordsGiven, NEW w, FollowsSentences(w), NEW s \in Sentences(Words),
         s.past - s.first <= WindowWords, w.past < s.past
  PROVE  NextStart(w) <= s.first
<1>1. /\ s.past \in Ends /\ s.first \in Ends \cup {0} /\ s.first < s.past
      /\ \A b \in Ends : b < s.past => b <= s.first
  BY SentencesBetweenEnds
<1>2. Ends \subseteq Nat /\ s.past \in Nat /\ s.first \in Nat
  <2>1. Ends \subseteq Nat
    BY DEF Ends
  <2>2. s.past \in Ends /\ s.first \in Ends \cup {0}
    BY <1>1
  <2>3. \A b \in Ends \cup {0} : b \in Nat
    BY <2>1
  <2> QED
    BY <2>1, <2>2, <2>3
<1>3. NextStart(w) \in Nat /\ NextStart(w) <= w.past /\ w.first \in Nat /\ w.past \in Nat
  BY NextStartBetween DEF FollowsSentences
<1>4. w.past <= s.first
  <2>1. CASE w.past \in Ends
    BY <1>1, <2>1
  <2>2. CASE w.past = w.first + Width /\ \A b \in Ends : w.first < b => w.past < b
    <3>1. WindowWords \in Nat /\ Width = WindowWords
      <4>1. WindowWords \in Nat
        BY PrivacyAssumption
      <4> QED
        BY <1>1, <1>2, <4>1 DEF Width, Larger
    <3>2. w.first < s.first
      BY <1>2, <1>3, <2>2, <3>1
    <3>3. s.first \in Ends
      BY <1>1, <1>2, <1>3, <3>2
    <3> QED
      BY <1>2, <1>3, <2>2, <3>2, <3>3
  <2> QED
    BY <2>1, <2>2 DEF FollowsSentences
<1> QED
  BY <1>2, <1>3, <1>4

Shown(s) == \E w \in ToSet(windows) : s.first..(s.past - 1) \subseteq ShownIds(w)

\* The inductive invariant of the windows.  While they are made EverySentenceShown
\* says nothing: what holds is that the last one follows the sentences and that
\* every sentence that ends by then, and fits, was shown.
WindowsInv ==
  /\ WordsGiven
  /\ windows \in Seq([first : Nat, past : Nat])
  /\ windows # <<>> =>
       /\ FollowsSentences(Last(windows))
       /\ \A s \in Sentences(Words) :
            s.past - s.first <= WindowWords /\ s.past <= Last(windows).past => Shown(s)
  /\ stage = "windowing" => /\ Words # <<>>
                            /\ windows # <<>> => Last(windows).past < Len(Words)
  /\ stage \notin {"windowing", "rejected"} =>
       /\ windows # <<>> /\ Len(Words) <= Last(windows).past
       /\ \A i \in 1..Len(Words) : \E w \in ToSet(windows) : Words[i].id \in ShownIds(w)

\* The inductive invariant of the answers: until the last one, each is vouched for
\* and what one doubts is not forgotten.
Vouched(answer, window, doubt) ==
  /\ answer.parsed
  /\ answer.uncertain => doubt
  /\ \A i \in 1..Len(answer.spans) :
       answer.spans[i].first..(answer.spans[i].past - 1) \subseteq ShownIds(window)
AnswersInv ==
  /\ \E S : answers \in Seq(S)
  /\ InjectionSuspected(Words) => uncertain
  /\ stage = "windowing" => answers = <<>>
  /\ stage = "classifying" => Len(answers) < Len(windows)
  /\ stage # "rejected" => \A k \in 1..Len(answers) : Vouched(answers[k], windows[k], uncertain)
  /\ stage \notin {"windowing", "classifying", "rejected"} => Len(answers) = Len(windows)
  /\ stage \notin {"windowing", "classifying", "planning", "rejected"} => ~uncertain

LEMMA CopyStarts == (\E s \in Transcripts : CopyInit(s)) => WindowsInv /\ AnswersInv
<1> SUFFICES ASSUME NEW s \in Transcripts, CopyInit(s) PROVE WindowsInv /\ AnswersInv
  OBVIOUS
<1>1. /\ session = s /\ windows = <<>> /\ answers = <<>>
      /\ uncertain = InjectionSuspected(s.words)
      /\ stage = IF s.words = <<>> THEN "rejected" ELSE "windowing"
  BY DEF CopyInit, AnalysisInit
<1>2. WordsGiven
  BY <1>1, TranscriptsAssumption DEF WordsGiven, Words
<1>3. WindowsInv
  BY <1>1, <1>2, EmptySeq DEF WindowsInv, Words
<1>4. \E S : answers \in Seq(S)
  BY <1>1, EmptySeq
<1>5. AnswersInv
  BY <1>1, <1>4 DEF AnswersInv, Words
<1> QED
  BY <1>3, <1>5

\* What was appended is there, and what was there before.
LEMMA Appended ==
  ASSUME NEW S, NEW q \in Seq(S), NEW e \in S
  PROVE  /\ Append(q, e) \in Seq(S) /\ Append(q, e) # <<>> /\ Last(Append(q, e)) = e
         /\ Len(Append(q, e)) = Len(q) + 1 /\ Append(q, e)[Len(q) + 1] = e
         /\ \A i \in 1..Len(q) : Append(q, e)[i] = q[i]
         /\ ToSet(Append(q, e)) = ToSet(q) \cup {e}
<1>1. /\ Append(q, e) \in Seq(S) /\ Append(q, e) # <<>>
      /\ Len(Append(q, e)) = Len(q) + 1 /\ Append(q, e)[Len(q) + 1] = e
      /\ \A i \in 1..Len(q) : Append(q, e)[i] = q[i]
  BY AppendProperties
<1>2. Last(Append(q, e)) = e
  BY <1>1 DEF Last
<1>3. ToSet(Append(q, e)) = ToSet(q) \cup {e}
  <2>1. Len(q) \in Nat /\ DOMAIN q = 1..Len(q) /\ DOMAIN Append(q, e) = 1..(Len(q) + 1)
    BY <1>1, LenProperties
  <2>2. 1..(Len(q) + 1) = 1..Len(q) \cup {Len(q) + 1}
    BY <2>1
  <2> DEFINE r == Append(q, e)
  <2>3. /\ DOMAIN r = DOMAIN q \cup {Len(q) + 1} /\ r[Len(q) + 1] = e
        /\ \A i \in DOMAIN q : r[i] = q[i]
    BY <1>1, <2>1, <2>2
  <2> HIDE DEF r
  <2>4. {r[i] : i \in DOMAIN r} = {q[i] : i \in DOMAIN q} \cup {e}
    BY <2>3
  <2> QED
    BY <2>4 DEF r, ToSet
<1> QED
  BY <1>1, <1>2, <1>3

LEMMA NextWindowShows ==
  ASSUME WindowsInv, NextWindow
  PROVE  WindowsInv'
<1> DEFINE start == IF windows = <<>> THEN 0 ELSE NextStart(Last(windows))
           new   == WindowAt(start, Words)
<1>1. /\ stage = "windowing" /\ windows' = Append(windows, new)
      /\ stage' = IF Last(windows').past < Len(Words) THEN "windowing"
                  ELSE IF \A i \in 1..Len(Words) :
                            \E w \in ToSet(windows') : Words[i].id \in ShownIds(w)
                  THEN "classifying" ELSE "rejected"
      /\ session' = session
  BY DEF NextWindow
<1>2. WordsGiven /\ Words # <<>> /\ Len(Words) \in Nat /\ Len(Words) > 0
  BY <1>1 DEF WindowsInv, WordsGiven
<1>3. start \in Nat /\ start < Len(Words)
  <2>1. CASE windows = <<>>
    BY <1>2, <2>1
  <2>2. CASE windows # <<>>
    <3>1. FollowsSentences(Last(windows)) /\ Last(windows).past < Len(Words)
      BY <1>1, <2>2 DEF WindowsInv
    <3>2. start \in Nat /\ start <= Last(windows).past /\ Last(windows).past \in Nat
      BY <2>2, <3>1, NextStartBetween DEF FollowsSentences
    <3> QED
      BY <1>2, <3>1, <3>2
  <2> QED
    BY <2>1, <2>2
<1>4. new.first = start /\ FollowsSentences(new)
  BY <1>2, <1>3, WindowFollows
<1>5. new \in [first : Nat, past : Nat]
  BY <1>4 DEF FollowsSentences
<1>6. /\ windows' \in Seq([first : Nat, past : Nat]) /\ windows' # <<>> /\ Last(windows') = new
      /\ ToSet(windows') = ToSet(windows) \cup {new}
  <2> DEFINE W == [first : Nat, past : Nat]
  <2>1. windows \in Seq(W)
    BY DEF WindowsInv
  <2> HIDE DEF W, new
  <2>2. new \in W
    BY <1>5 DEF W
  <2>3. /\ Append(windows, new) \in Seq(W) /\ Append(windows, new) # <<>>
        /\ Last(Append(windows, new)) = new
        /\ ToSet(Append(windows, new)) = ToSet(windows) \cup {new}
    BY <2>1, <2>2, Appended
  <2> QED
    BY <1>1, <2>3 DEF W
<1>7. ASSUME NEW s \in Sentences(Words), s.past - s.first <= WindowWords, s.past <= new.past
      PROVE  \E w \in ToSet(windows) \cup {new} : s.first..(s.past - 1) \subseteq ShownIds(w)
  <2>1. s.past \in Nat /\ s.first \in Nat
    <3>1. s.past \in Ends /\ s.first \in Ends \cup {0}
      BY <1>2, SentencesBetweenEnds
    <3>2. \A b \in Ends \cup {0} : b \in Nat
      BY DEF Ends
    <3> QED
      BY <3>1, <3>2
  <2>2. CASE windows # <<>> /\ s.past <= Last(windows).past
    BY <1>7, <2>2 DEF WindowsInv, Shown
  <2>3. CASE ~(windows # <<>> /\ s.past <= Last(windows).past)
    <3>1. start <= s.first
      <4>1. CASE windows = <<>>
        BY <2>1, <4>1
      <4>2. CASE windows # <<>>
        <5>1. FollowsSentences(Last(windows))
          BY <4>2 DEF WindowsInv
        <5>2. Last(windows).past < s.past
          BY <2>1, <2>3, <4>2, <5>1 DEF FollowsSentences
        <5> QED
          BY <1>2, <1>7, <4>2, <5>1, <5>2, NotCutByTheNext
      <4> QED
        BY <4>1, <4>2
    <3>2. s.first..(s.past - 1) \subseteq ShownIds(new)
      BY <1>3, <1>4, <1>7, <2>1, <3>1 DEF ShownIds, FollowsSentences
    <3> QED
      BY <3>2
  <2> QED
    BY <2>2, <2>3
<1> HIDE DEF new
<1>8. Words' = Words /\ Sentences(Words)' = Sentences(Words) /\ Ends' = Ends /\ WordsGiven'
  BY <1>1, <1>2 DEF Words, Sentences, Ends, WordsGiven
<1>9. FollowsSentences(Last(windows))'
  BY <1>4, <1>6, <1>8 DEF FollowsSentences
<1>10. \A s \in Sentences(Words) :
         s.past - s.first <= WindowWords /\ s.past <= Last(windows').past => Shown(s)'
  BY <1>6, <1>7 DEF Shown
<1>11. stage' = "windowing" => Words # <<>> /\ Last(windows').past < Len(Words)
  BY <1>1, <1>2
<1>12. stage' \notin {"windowing", "rejected"} =>
         /\ Len(Words) <= Last(windows').past
         /\ \A i \in 1..Len(Words) : \E w \in ToSet(windows') : Words[i].id \in ShownIds(w)
  <2>1. new.past \in Nat
    BY <1>4 DEF FollowsSentences
  <2> QED
    BY <1>1, <1>2, <1>6, <2>1
<1> QED
  BY <1>6, <1>8, <1>9, <1>10, <1>11, <1>12 DEF WindowsInv

\* The steps after the windows leave them, the words and the sentences as they are.
LEMMA WindowsStay ==
  ASSUME WindowsInv, UNCHANGED <<session, windows>>,
         stage' = stage \/ (stage \notin {"windowing", "rejected"} /\ stage' # "windowing")
  PROVE  WindowsInv'
<1>1. Words' = Words /\ windows' = windows
  BY DEF Words
<1>2. /\ Sentences(Words)' = Sentences(Words) /\ Ends' = Ends /\ WordsGiven'
      /\ \A w, s : FollowsSentences(w)' = FollowsSentences(w) /\ Shown(s)' = Shown(s)
  BY <1>1 DEF Words, Sentences, Ends, WordsGiven, FollowsSentences, Shown, WindowsInv
<1> QED
  BY <1>1, <1>2 DEF WindowsInv

\* An answer is taken up: what it names lies in its window, or nothing more comes of it.
LEMMA ClassifyVouches ==
  ASSUME WindowsInv, AnswersInv, NEW output, Classify(output)
  PROVE  AnswersInv'
<1> DEFINE n     == Len(answers)
           valid == ValidOutput(output, ShownIds(windows[Len(answers')]))
<1>1. /\ stage = "classifying" /\ answers' = Append(answers, output)
      /\ session' = session /\ windows' = windows
      /\ valid => /\ uncertain' = (uncertain \/ output.uncertain)
                  /\ stage' = IF Len(answers') = Len(windows) THEN "planning" ELSE "classifying"
      /\ ~valid => stage' = "rejected" /\ uncertain' = TRUE
  BY DEF Classify
<1>2. PICK S : answers \in Seq(S)
  BY DEF AnswersInv
<1>3. /\ answers' \in Seq(S \cup {output}) /\ Len(answers') = n + 1 /\ n \in Nat
      /\ answers'[n + 1] = output /\ \A k \in 1..n : answers'[k] = answers[k]
  <2>1. answers \in Seq(S \cup {output})
    BY <1>2, SeqMonotonic
  <2> QED
    BY <1>1, <2>1, AppendProperties, LenProperties
<1>4. Words' = Words
  BY <1>1 DEF Words
<1>5. InjectionSuspected(Words)' => uncertain'
  <2>1. InjectionSuspected(Words)' = InjectionSuspected(Words)
    BY <1>4 DEF InjectionSuspected, OfKind
  <2>2. uncertain => uncertain'
    BY <1>1
  <2> QED
    BY <2>1, <2>2 DEF AnswersInv
<1>6. n < Len(windows) /\ Len(windows) \in Nat
  BY <1>1, LenProperties DEF AnswersInv, WindowsInv
<1>7. CASE valid
  <2>1. \A k \in 1..n : Vouched(answers'[k], windows'[k], uncertain')
    <3> SUFFICES ASSUME NEW k \in 1..n PROVE Vouched(answers'[k], windows'[k], uncertain')
      OBVIOUS
    <3>1. Vouched(answers[k], windows[k], uncertain)
      BY <1>1 DEF AnswersInv
    <3>2. answers'[k] = answers[k] /\ windows'[k] = windows[k]
      BY <1>1, <1>3
    <3>3. uncertain => uncertain'
      BY <1>1
    <3>4. Vouched(answers[k], windows[k], uncertain')
      BY <3>1, <3>3 DEF Vouched
    <3> QED
      BY <3>2, <3>4
  <2>2. Vouched(answers'[n + 1], windows'[n + 1], uncertain')
    <3>1. /\ output.parsed
          /\ \A i \in 1..Len(output.spans) :
               output.spans[i].first..(output.spans[i].past - 1) \subseteq ShownIds(windows[n + 1])
      BY <1>3, <1>7 DEF ValidOutput
    <3>2. output.uncertain => uncertain'
      BY <1>1, <1>7
    <3>3. Vouched(output, windows[n + 1], uncertain')
      BY <3>1, <3>2 DEF Vouched
    <3> QED
      BY <1>1, <1>3, <3>3
  <2>3. \A k \in 1..Len(answers') : Vouched(answers'[k], windows'[k], uncertain')
    <3>1. 1..Len(answers') = 1..n \cup {n + 1}
      BY <1>3
    <3> QED
      BY <2>1, <2>2, <3>1
  <2>4. /\ stage' \in {"planning", "classifying"}
        /\ stage' = "planning" => Len(answers') = Len(windows')
        /\ stage' = "classifying" => Len(answers') < Len(windows')
    BY <1>1, <1>3, <1>6, <1>7
  <2> QED
    BY <1>3, <1>5, <2>3, <2>4 DEF AnswersInv
<1>8. CASE ~valid
  BY <1>1, <1>3, <1>5, <1>8 DEF AnswersInv
<1> QED
  BY <1>7, <1>8

\* The steps after the answers: what goes on is certain.
LEMMA AnswersStay ==
  ASSUME AnswersInv, UNCHANGED <<session, windows, answers, uncertain>>,
         \/ stage' \in {stage, "rejected"}
         \/ /\ stage \notin {"windowing", "classifying", "rejected"} /\ ~uncertain
            /\ stage' \notin {"windowing", "classifying"}
  PROVE  AnswersInv'
<1>1. Words' = Words
  BY DEF Words
<1>2. InjectionSuspected(Words)' = InjectionSuspected(Words)
  BY <1>1 DEF InjectionSuspected, OfKind
<1>3. stage' # "rejected" => stage # "rejected"
  OBVIOUS
<1> QED
  BY <1>1, <1>2, <1>3 DEF AnswersInv

\* What each step after the analysis does to it.
LEMMA AnalysisIsOver ==
  ASSUME BuildDataset \/ Deliver, AnswersInv
  PROVE  /\ UNCHANGED <<session, windows, answers, uncertain>>
         /\ stage \notin {"windowing", "classifying", "rejected"}
         /\ stage' \notin {"windowing", "classifying"}
         /\ stage' = "rejected" \/ ~uncertain
<1>1. CASE PlanRemovals
  BY <1>1 DEF PlanRemovals
<1>2. CASE RefusePlan
  BY <1>2 DEF RefusePlan, Reject
<1>3. CASE GrowRemovals
  BY <1>3 DEF GrowRemovals, AnswersInv
<1>4. ASSUME NEW dull, CutClips(dull)
      PROVE  /\ UNCHANGED <<session, windows, answers, uncertain>>
             /\ stage = "cutting" /\ stage' \in {"rechecking", "rejected"}
  BY <1>4 DEF CutClips, Reject
<1>5. ASSUME NEW verdict, Recheck(verdict)
      PROVE  /\ UNCHANGED <<session, windows, answers, uncertain>>
             /\ stage = "rechecking" /\ stage' \in {"eligible", "rejected"}
  BY <1>5 DEF Recheck, Reject
<1>6. CASE Pack
  BY <1>6 DEF Pack, Reject, AnswersInv
<1>7. ASSUME NEW harmed, NEW early, Transfer(harmed, early)
      PROVE  /\ UNCHANGED <<session, windows, answers, uncertain>>
             /\ stage = "packed" /\ stage' = "sent"
  BY <1>7 DEF Transfer
<1>8. CASE Admit
  BY <1>8 DEF Admit, AnswersInv
<1>9. stage \in {"cutting", "rechecking", "packed"} => ~uncertain
  BY DEF AnswersInv
<1> QED
  BY <1>1, <1>2, <1>3, <1>4, <1>5, <1>6, <1>7, <1>8, <1>9 DEF BuildDataset, Deliver

LEMMA CopySteps ==
  WindowsInv /\ AnswersInv /\ [CopyNext]_copyVars => WindowsInv' /\ AnswersInv'
<1> SUFFICES ASSUME WindowsInv, AnswersInv, [CopyNext]_copyVars PROVE WindowsInv' /\ AnswersInv'
  OBVIOUS
<1>1. CASE NextWindow
  <2>1. WindowsInv'
    BY <1>1, NextWindowShows
  <2>2. /\ stage = "windowing" /\ UNCHANGED <<session, answers, uncertain>>
        /\ stage' \in {"windowing", "classifying", "rejected"}
    BY <1>1 DEF NextWindow
  <2>3. answers' = <<>> /\ Len(answers') = 0 /\ \E S : answers' \in Seq(S)
    BY <2>2, EmptySeq DEF AnswersInv
  <2>4. stage' = "classifying" => 0 < Len(windows')
    <3>1. stage' = "classifying" => windows' # <<>>
      BY <2>1 DEF WindowsInv
    <3>2. windows' \in Seq([first : Nat, past : Nat])
      BY <2>1 DEF WindowsInv
    <3>3. windows' # <<>> => 0 < Len(windows')
      BY <3>2
    <3> QED
      BY <3>1, <3>3
  <2>5. InjectionSuspected(Words)' => uncertain'
    BY <2>2 DEF AnswersInv, InjectionSuspected, OfKind, Words
  <2> QED
    BY <2>1, <2>2, <2>3, <2>4, <2>5 DEF AnswersInv
<1>2. ASSUME NEW output, Classify(output) PROVE WindowsInv' /\ AnswersInv'
  <2>1. WindowsInv'
    BY <1>2, WindowsStay DEF Classify
  <2> QED
    BY <1>2, <2>1, ClassifyVouches
<1>3. CASE BuildDataset \/ Deliver
  BY <1>3, AnalysisIsOver, WindowsStay, AnswersStay
<1>4. CASE UNCHANGED copyVars
  <2>1. UNCHANGED <<session, windows, answers, uncertain, stage>>
    BY <1>4 DEF copyVars, analysisVars
  <2> QED
    BY <2>1, WindowsStay, AnswersStay
<1> QED
  BY <1>1, <1>2, <1>3, <1>4 DEF CopyNext, Analyze

\* No sentence that fits in a window is judged only in pieces, wherever the sentences
\* end and however far a window goes back.
THEOREM SentencesShown == CopySpec => []EverySentenceShown
<1>1. WindowsInv => EverySentenceShown
  <2> SUFFICES ASSUME WindowsInv, stage \notin {"windowing", "rejected"},
                      NEW s \in Sentences(Words), s.past - s.first <= WindowWords
               PROVE  \E w \in ToSet(windows) : s.first..(s.past - 1) \subseteq ShownIds(w)
    BY DEF EverySentenceShown, WindowsInv
  <2>1. s.past \in 1..Len(Words) /\ Len(Words) \in Nat
    <3>1. s.past \in Ends
      BY SentencesBetweenEnds DEF WindowsInv
    <3> QED
      BY <3>1 DEF Ends, WindowsInv, WordsGiven
  <2>2. /\ windows # <<>> /\ Len(Words) <= Last(windows).past /\ Last(windows).past \in Nat
    BY DEF WindowsInv, FollowsSentences
  <2>3. s.past <= Last(windows).past
    BY <2>1, <2>2
  <2> QED
    BY <2>2, <2>3 DEF WindowsInv, Shown
<1> QED
  BY CopyStarts, CopySteps, <1>1, PTL DEF CopySpec

\* Whatever the model answers, what becomes eligible was vouched for.
THEOREM OnlyVouchedFor == CopySpec => []FailsClosed
<1>1. AnswersInv => FailsClosed
  BY DEF AnswersInv, FailsClosed, Ready, Vouched
<1> QED
  BY CopyStarts, CopySteps, <1>1, PTL DEF CopySpec

-----------------------------------------------------------------------------
(* Intervals, words and sentences: what the clips and the removal are made of. *)

\* Intervals of a session of n samples.
Sound(S, n) == \A i \in S : i.start \in 0..n /\ i.end \in 0..n /\ i.start <= i.end

Solid(S) == {i \in S : ~IsEmpty(i)}
Heads(S) == {i.start : i \in {i \in Solid(S) : \A j \in Solid(S) : ~(j.start < i.start /\ i.start <= j.end)}}
Tails(S) == {i.end : i \in {i \in Solid(S) : \A j \in Solid(S) : ~(j.start <= i.end /\ i.end < j.end)}}
After(S, x) == {t \in Tails(S) : x < t}

LEMMA NormalizedByEnds ==
  ASSUME NEW S
  PROVE  Normalize(S) = {Interval(h, Min(After(S, h))) : h \in Heads(S)}
BY DEF Normalize, Solid, Heads, Tails, After

LEMMA SolidIsSound ==
  ASSUME NEW n \in Nat, NEW S, Sound(S, n)
  PROVE  \A i \in Solid(S) : i \in S /\ i.start \in 0..n /\ i.end \in 0..n /\ i.start < i.end
BY DEF Sound, Solid, IsEmpty

\* Past every solid interval's start there is a tail: the furthest end is one.
LEMMA SomeTail ==
  ASSUME NEW n \in Nat, NEW S, Sound(S, n), NEW i \in Solid(S)
  PROVE  /\ After(S, i.start) \subseteq Nat /\ After(S, i.start) # {}
         /\ Min(After(S, i.start)) \in Tails(S) /\ i.start < Min(After(S, i.start))
         /\ \A t \in After(S, i.start) : Min(After(S, i.start)) <= t
<1> DEFINE E == {j.end : j \in Solid(S)}
<1>1. E \subseteq 0..n /\ i.end \in E
  BY SolidIsSound
<1>2. PICK x \in E : \A y \in E : y <= x
  <2> HIDE DEF E
  <2> QED
    BY <1>1, LargestExists
<1>3. PICK k \in Solid(S) : k.end = x
  BY <1>2
<1>4. \A j \in Solid(S) : j.end <= k.end /\ j.end \in Nat /\ k.end \in Nat
  BY <1>2, <1>3, SolidIsSound
<1>5. k.end \in Tails(S)
  <2>1. \A j \in Solid(S) : ~(j.start <= k.end /\ k.end < j.end)
    BY <1>4
  <2> QED
    BY <1>3, <2>1 DEF Tails
<1>6. i.start < k.end
  BY <1>3, <1>4, SolidIsSound
<1>7. k.end \in After(S, i.start)
  BY <1>5, <1>6 DEF After
<1>8. After(S, i.start) \subseteq Nat
  <2>1. Tails(S) \subseteq Nat
    BY SolidIsSound DEF Tails
  <2> QED
    BY <2>1 DEF After
<1>9. Min(After(S, i.start)) \in After(S, i.start)
      /\ \A t \in After(S, i.start) : Min(After(S, i.start)) <= t
  BY <1>7, <1>8, MinIsSmallest
<1>10. Min(After(S, i.start)) \in Tails(S) /\ i.start < Min(After(S, i.start))
  BY <1>9 DEF After
<1> QED
  BY <1>7, <1>8, <1>9, <1>10

\* What normalize leaves begins and ends where one of the intervals did.
LEMMA NormalizedIsSound ==
  ASSUME NEW n \in Nat, NEW S, Sound(S, n), NEW b \in Normalize(S)
  PROVE  /\ b.start \in 0..n /\ b.end \in 0..n /\ b.start < b.end
         /\ \E i \in S : i.start = b.start /\ i.start < i.end
         /\ \E i \in S : i.end = b.end /\ i.start < i.end
<1>1. PICK h \in Heads(S) : b = Interval(h, Min(After(S, h)))
  BY NormalizedByEnds
<1>2. PICK i \in Solid(S) : i.start = h
  BY DEF Heads
<1>3. b.start = h /\ b.end = Min(After(S, h))
  BY <1>1 DEF Interval
<1>4. b.end \in Tails(S) /\ h < b.end
  BY <1>2, <1>3, SomeTail
<1>5. PICK k \in Solid(S) : k.end = b.end
  BY <1>4 DEF Tails
<1> QED
  BY <1>2, <1>3, <1>4, <1>5, SolidIsSound

\* Whatever interval goes in lies in one that comes out.
LEMMA NormalizeCovers ==
  ASSUME NEW n \in Nat, NEW S, Sound(S, n), NEW i \in S, ~IsEmpty(i)
  PROVE  \E b \in Normalize(S) : b.start <= i.start /\ i.end <= b.end
<1> DEFINE Clear(x) == x <= i.start /\ \A t \in Tails(S) : ~(x < t /\ t < i.end)
           P == {j.start : j \in {j \in Solid(S) : Clear(j.start)}}
<1>1. i \in Solid(S) /\ i.start \in Nat /\ i.end \in Nat /\ i.start < i.end
  <2>1. i \in Solid(S)
    BY DEF Solid
  <2> QED
    BY <2>1, SolidIsSound
<1>2. \A t \in Tails(S) : t \in Nat /\ \A j \in Solid(S) : ~(j.start <= t /\ t < j.end)
  BY SolidIsSound DEF Tails
<1>3. Clear(i.start)
  BY <1>1, <1>2
<1>4. i.start \in P /\ P \subseteq Nat
  BY <1>1, <1>3, SolidIsSound
<1>5. PICK x \in P : \A y \in P : x <= y
  <2> HIDE DEF P
  <2> QED
    BY <1>4, SmallestExists
<1>6. PICK j \in Solid(S) : j.start = x /\ Clear(x)
  BY <1>5
<1>7. ASSUME NEW k \in Solid(S), k.start < x, x <= k.end PROVE FALSE
  <2>1. k.start \in Nat /\ k.end \in Nat /\ x \in Nat
    BY <1>4, <1>7, SolidIsSound
  <2>2. ASSUME NEW t \in Tails(S), k.start < t, t < i.end PROVE FALSE
    <3>1. t \in Nat /\ ~(k.start <= t /\ t < k.end) /\ ~(j.start <= t /\ t < j.end) /\ ~(x < t /\ t < i.end)
      BY <1>2, <1>6
    <3>2. j.start = x /\ x < j.end
      BY <1>6, SolidIsSound
    <3>3. j.end \in Nat
      BY SolidIsSound
    <3>4. t = x
      BY <2>1, <2>2, <3>1, <1>7
    <3> QED
      BY <3>1, <3>2, <3>4, <2>1
  <2>3. k.start <= i.start
    BY <1>1, <1>6, <1>7, <2>1
  <2>4. Clear(k.start)
    BY <2>2, <2>3
  <2>5. k.start \in P
    BY <2>4
  <2> QED
    BY <1>5, <1>7, <2>1, <2>5
<1>8. x \in Heads(S)
  BY <1>6, <1>7 DEF Heads
<1> DEFINE b == Interval(x, Min(After(S, x)))
<1>9. b \in Normalize(S)
  BY <1>8, NormalizedByEnds
<1>10. Min(After(S, x)) \in Tails(S) /\ x < Min(After(S, x))
  BY <1>6, SomeTail
<1>11. i.end <= Min(After(S, x))
  BY <1>1, <1>2, <1>6, <1>10
<1>12. b.start = x /\ b.end = Min(After(S, x))
  BY DEF Interval
<1> QED
  BY <1>6, <1>9, <1>11, <1>12

-----------------------------------------------------------------------------
Within(i, n) == i.start \in 0..n /\ i.end \in 0..n /\ i.start <= i.end

\* Padding widens an interval, but not past the session.
LEMMA PadWidens ==
  ASSUME NEW n \in Nat, NEW p \in Nat, NEW i, Within(i, n)
  PROVE  /\ Within(Pad(i, p, Interval(0, n)), n)
         /\ Pad(i, p, Interval(0, n)).start <= i.start /\ i.end <= Pad(i, p, Interval(0, n)).end
         /\ Pad(i, p, Interval(0, n)).start = Larger(i.start - p, 0)
         /\ Pad(i, p, Interval(0, n)).end = Smaller(i.end + p, n)
<1> DEFINE start == Larger(Larger(i.start - p, 0), 0)
           end   == Larger(Smaller(i.end + p, n), start)
<1>1. Pad(i, p, Interval(0, n)) = [start |-> start, end |-> end]
  BY DEF Pad, Interval
<1>2. i.start \in Nat /\ i.end \in Nat /\ i.start <= i.end /\ i.end <= n
  BY DEF Within
<1>3. start = Larger(i.start - p, 0) /\ start \in 0..n /\ start <= i.start
  BY <1>2 DEF Larger
<1>4. Smaller(i.end + p, n) \in 0..n /\ i.end <= Smaller(i.end + p, n)
  BY <1>2 DEF Smaller
<1> HIDE DEF start
<1>5. end = Smaller(i.end + p, n)
  BY <1>2, <1>3, <1>4 DEF Larger
<1> HIDE DEF end
<1>6. Pad(i, p, Interval(0, n)).start = start /\ Pad(i, p, Interval(0, n)).end = end
  BY <1>1
<1> QED
  BY <1>2, <1>3, <1>4, <1>5, <1>6 DEF Within

LEMMA PadKeepsInside ==
  ASSUME NEW n \in Nat, NEW p \in Nat, NEW i, Within(i, n), NEW b, Within(b, n),
         b.start <= i.start, i.end <= b.end
  PROVE  /\ Pad(b, p, Interval(0, n)).start <= Pad(i, p, Interval(0, n)).start
         /\ Pad(i, p, Interval(0, n)).end <= Pad(b, p, Interval(0, n)).end
<1>1. Larger(b.start - p, 0) <= Larger(i.start - p, 0)
  BY DEF Larger, Within
<1>2. Smaller(i.end + p, n) <= Smaller(b.end + p, n)
  BY DEF Smaller, Within
<1> QED
  BY <1>1, <1>2, PadWidens

\* What is removed around a set of intervals: sound, and as far around each as the
\* padding.
LEMMA PaddedCovers ==
  ASSUME NEW n \in Nat, NEW p \in Nat, NEW S, Sound(S, n)
  PROVE  /\ \A r \in PadAll(Normalize(S), p, Interval(0, n)) :
              r.start \in 0..n /\ r.end \in 0..n /\ r.start < r.end
         /\ \A i \in S : ~IsEmpty(i) =>
              \E r \in PadAll(Normalize(S), p, Interval(0, n)) :
                /\ r.start <= Pad(i, p, Interval(0, n)).start
                /\ Pad(i, p, Interval(0, n)).end <= r.end
<1> DEFINE T == {Pad(b, p, Interval(0, n)) : b \in Normalize(S)}
<1>1. PadAll(Normalize(S), p, Interval(0, n)) = Normalize(T)
  BY DEF PadAll
<1>2. ASSUME NEW b \in Normalize(S)
      PROVE  Within(b, n) /\ Within(Pad(b, p, Interval(0, n)), n) /\ b.start < b.end
  <2>1. b.start \in 0..n /\ b.end \in 0..n /\ b.start < b.end
    BY NormalizedIsSound
  <2>2. Within(b, n)
    BY <2>1 DEF Within
  <2> QED
    BY <2>1, <2>2, PadWidens
<1>3. Sound(T, n)
  BY <1>2 DEF Sound, Within
<1>4. ASSUME NEW i \in S, ~IsEmpty(i)
      PROVE  \E r \in Normalize(T) : /\ r.start <= Pad(i, p, Interval(0, n)).start
                                     /\ Pad(i, p, Interval(0, n)).end <= r.end
  <2>1. PICK b \in Normalize(S) : b.start <= i.start /\ i.end <= b.end
    BY <1>4, NormalizeCovers
  <2>2. Within(i, n)
    BY DEF Sound, Within
  <2> DEFINE q == Pad(b, p, Interval(0, n))
             o == Pad(i, p, Interval(0, n))
  <2>3. q.start <= o.start /\ o.end <= q.end
    BY <1>2, <2>1, <2>2, PadKeepsInside
  <2>4. q.start <= b.start /\ b.end <= q.end /\ Within(q, n) /\ Within(o, n)
    BY <1>2, <2>2, PadWidens
  <2>5. q \in T /\ ~IsEmpty(q)
    <3>1. q \in T
      OBVIOUS
    <3> HIDE DEF q
    <3>2. b.start < b.end /\ Within(b, n)
      BY <1>2
    <3>3. q.start < q.end
      BY <2>4, <3>2 DEF Within
    <3>4. q.start # q.end
      BY <2>4, <3>3 DEF Within
    <3> QED
      BY <3>1, <3>4 DEF IsEmpty
  <2> HIDE DEF q, o, T
  <2>6. PICK r \in Normalize(T) : r.start <= q.start /\ q.end <= r.end
    BY <1>3, <2>5, NormalizeCovers
  <2>7. r.start \in 0..n /\ r.end \in 0..n
    BY <1>3, NormalizedIsSound
  <2>8. r.start <= o.start /\ o.end <= r.end
    BY <2>3, <2>4, <2>6, <2>7 DEF Within
  <2> QED
    BY <2>8 DEF o
<1> HIDE DEF T
<1>5. \A r \in Normalize(T) : r.start \in 0..n /\ r.end \in 0..n /\ r.start < r.end
  BY <1>3, NormalizedIsSound
<1> QED
  BY <1>1, <1>4, <1>5

\* What is kept lies between two removals, or a removal and an end of the session.
LEMMA ComplementEdges ==
  ASSUME NEW n \in Nat, NEW R, Sound(R, n), NEW g \in Complement(R, Interval(0, n))
  PROVE  /\ g.start \in 0..n /\ g.end \in 0..n /\ g.start < g.end
         /\ g.start = 0 \/ \E r \in R : r.start < r.end /\ r.end = g.start
         /\ g.end = n \/ \E r \in R : r.start < r.end /\ r.start = g.end
<1> DEFINE cuts      == {c \in {Clamp(i, Interval(0, n)) : i \in Normalize(R)} : ~IsEmpty(c)}
           Before(x) == {0} \cup {c.end : c \in {c \in cuts : c.start < x}}
           edges     == {c.start : c \in cuts} \cup {n}
<1>1. Complement(R, Interval(0, n)) = {i \in {Interval(Max(Before(x)), x) : x \in edges} : i.start < i.end}
  BY DEF Complement, Interval
<1>2. ASSUME NEW c \in cuts
      PROVE  /\ c.start \in 0..n /\ c.end \in 0..n
             /\ \E r \in R : r.start < r.end /\ r.end = c.end
             /\ \E r \in R : r.start < r.end /\ r.start = c.start
  <2>1. PICK i \in Normalize(R) : c = Clamp(i, Interval(0, n))
    OBVIOUS
  <2>2. i.start \in 0..n /\ i.end \in 0..n /\ i.start < i.end
    BY NormalizedIsSound
  <2>3. Clamp(i, Interval(0, n)) = [start |-> i.start, end |-> i.end]
    BY <2>2 DEF Clamp, Interval, Smaller, Larger
  <2>4. c.start = i.start /\ c.end = i.end
    BY <2>1, <2>3
  <2> HIDE DEF cuts
  <2> QED
    BY <2>2, <2>4, NormalizedIsSound
<1> HIDE DEF cuts
<1>3. PICK x \in edges : g = Interval(Max(Before(x)), x) /\ g.start < g.end
  BY <1>1
<1>4. g.start = Max(Before(x)) /\ g.end = x
  BY <1>3 DEF Interval
<1>5. Before(x) \subseteq 0..n /\ 0 \in Before(x)
  BY <1>2
<1>6. Max(Before(x)) \in Before(x)
  <2> HIDE DEF Before
  <2> QED
    BY <1>5, MaxIsLargest
<1>7. x \in 0..n /\ (x = n \/ \E r \in R : r.start < r.end /\ r.start = x)
  BY <1>2
<1>8. g.start = 0 \/ \E r \in R : r.start < r.end /\ r.end = g.start
  BY <1>2, <1>4, <1>6
<1> HIDE DEF Before
<1> QED
  BY <1>3, <1>4, <1>5, <1>6, <1>7, <1>8

\* Intervals that do not touch stay as they are.
Apart(T) == \A i, j \in T : i = j \/ i.end < j.start \/ j.end < i.start
Plain(T, n) == \A i \in T : /\ i = Interval(i.start, i.end)
                            /\ i.start \in 0..n /\ i.end \in 0..n /\ i.start < i.end

LEMMA NormalizeKeepsApart ==
  ASSUME NEW n \in Nat, NEW T, Apart(T), Plain(T, n)
  PROVE  Normalize(T) = T
<1>1. \A i \in T : i.start \in Nat /\ i.end \in Nat /\ i.start < i.end
  BY DEF Plain
<1>2. Solid(T) = T
  BY <1>1 DEF Solid, IsEmpty
<1>3. ASSUME NEW i \in T PROVE i.start \in Heads(T) /\ i.end \in Tails(T)
  <2>1. ASSUME NEW j \in T PROVE ~(j.start < i.start /\ i.start <= j.end) /\ ~(j.start <= i.end /\ i.end < j.end)
    <3>1. i = j \/ i.end < j.start \/ j.end < i.start
      BY DEF Apart
    <3> QED
      BY <1>1, <3>1
  <2> QED
    BY <1>2, <2>1 DEF Heads, Tails
<1>4. Heads(T) = {i.start : i \in T} /\ Tails(T) = {i.end : i \in T}
  BY <1>2, <1>3 DEF Heads, Tails
<1>5. ASSUME NEW i \in T PROVE Min(After(T, i.start)) = i.end
  <2>1. i.end \in After(T, i.start)
    BY <1>1, <1>3 DEF After
  <2>2. ASSUME NEW t \in After(T, i.start) PROVE i.end <= t
    <3>1. PICK j \in T : t = j.end
      BY <1>4 DEF After
    <3>2. i.start < j.end
      BY <3>1 DEF After
    <3>3. i = j \/ i.end < j.start \/ j.end < i.start
      BY DEF Apart
    <3> QED
      BY <1>1, <3>1, <3>2, <3>3
  <2>3. After(T, i.start) \subseteq Nat
    BY <1>1, <1>4 DEF After
  <2>4. Min(After(T, i.start)) \in After(T, i.start) /\ \A t \in After(T, i.start) : Min(After(T, i.start)) <= t
    BY <2>1, <2>3, MinIsSmallest
  <2>5. Min(After(T, i.start)) <= i.end /\ i.end <= Min(After(T, i.start))
    BY <2>1, <2>2, <2>4
  <2>6. Min(After(T, i.start)) \in Nat /\ i.end \in Nat
    BY <2>1, <2>3, <2>4
  <2> QED
    BY <2>5, <2>6
<1>6. Normalize(T) = {Interval(i.start, Min(After(T, i.start))) : i \in T}
  BY <1>4, NormalizedByEnds
<1>7. \A i \in T : Interval(i.start, Min(After(T, i.start))) = i
  BY <1>5 DEF Plain
<1> QED
  BY <1>6, <1>7

\* What is kept lies apart.
LEMMA ComplementIsApart ==
  ASSUME NEW n \in Nat, NEW R, Sound(R, n)
  PROVE  Apart(Complement(R, Interval(0, n))) /\ Plain(Complement(R, Interval(0, n)), n)
<1> DEFINE cuts      == {c \in {Clamp(i, Interval(0, n)) : i \in Normalize(R)} : ~IsEmpty(c)}
           Before(x) == {0} \cup {c.end : c \in {c \in cuts : c.start < x}}
           edges     == {c.start : c \in cuts} \cup {n}
           K         == Complement(R, Interval(0, n))
<1>1. K = {i \in {Interval(Max(Before(x)), x) : x \in edges} : i.start < i.end}
  BY DEF Complement, Interval
<1>2. ASSUME NEW c \in cuts PROVE c.start \in 0..n /\ c.end \in 0..n /\ c.start < c.end
  <2>1. PICK i \in Normalize(R) : c = Clamp(i, Interval(0, n))
    OBVIOUS
  <2>2. i.start \in 0..n /\ i.end \in 0..n /\ i.start < i.end
    BY NormalizedIsSound
  <2>3. Clamp(i, Interval(0, n)) = [start |-> i.start, end |-> i.end]
    BY <2>2 DEF Clamp, Interval, Smaller, Larger
  <2>4. c.start = i.start /\ c.end = i.end
    BY <2>1, <2>3
  <2> HIDE DEF cuts
  <2> QED
    BY <2>2, <2>4
<1>3. Plain(K, n)
  <2> SUFFICES ASSUME NEW g \in K
               PROVE  g = Interval(g.start, g.end) /\ g.start \in 0..n /\ g.end \in 0..n /\ g.start < g.end
    BY DEF Plain
  <2>1. g.start \in 0..n /\ g.end \in 0..n /\ g.start < g.end
    BY ComplementEdges
  <2>2. PICK x \in edges : g = Interval(Max(Before(x)), x)
    BY <1>1
  <2> HIDE DEF K, Before, edges
  <2> QED
    BY <2>1, <2>2 DEF Interval
<1> HIDE DEF cuts
<1>4. ASSUME NEW x \in edges
      PROVE  /\ Before(x) \subseteq 0..n /\ 0 \in Before(x)
             /\ Max(Before(x)) \in Before(x) /\ \A y \in Before(x) : y <= Max(Before(x))
  <2>1. Before(x) \subseteq 0..n /\ 0 \in Before(x)
    BY <1>2
  <2> HIDE DEF Before
  <2> QED
    BY <2>1, MaxIsLargest
<1>5. \A x \in edges : x \in 0..n
  BY <1>2
<1>6. ASSUME NEW x \in edges, NEW y \in edges, x < y, Max(Before(y)) < y
      PROVE  x < Max(Before(y))
  <2>1. PICK c \in cuts : c.start = x
    BY <1>5, <1>6
  <2>2. c.end \in Before(y) /\ x < c.end
    BY <1>2, <1>6, <2>1
  <2>3. c.end <= Max(Before(y))
    BY <1>4, <2>2
  <2>4. Max(Before(y)) \in Nat /\ x \in Nat /\ c.end \in Nat
    <3>1. Before(y) \subseteq 0..n /\ Max(Before(y)) \in Before(y)
      BY <1>4
    <3> HIDE DEF Before
    <3> QED
      BY <1>2, <1>5, <3>1
  <2> QED
    BY <2>2, <2>3, <2>4
<1> SUFFICES ASSUME NEW g \in K, NEW h \in K PROVE g = h \/ g.end < h.start \/ h.end < g.start
  BY <1>3 DEF Apart
<1>7. PICK x \in edges : g = Interval(Max(Before(x)), x) /\ g.start < g.end
  BY <1>1
<1>8. PICK y \in edges : h = Interval(Max(Before(y)), y) /\ h.start < h.end
  BY <1>1
<1>9. g.end = x /\ h.end = y /\ g.start = Max(Before(x)) /\ h.start = Max(Before(y))
  BY <1>7, <1>8 DEF Interval
<1>10. x \in Nat /\ y \in Nat
  BY <1>5
<1>11. x = y => g = h
  BY <1>7, <1>8
<1> HIDE DEF Before, edges
<1> QED
  BY <1>6, <1>7, <1>8, <1>9, <1>10, <1>11

-----------------------------------------------------------------------------
\* Ascending lists the members of a set of numbers, each of them, in order.
LEMMA AscendingEnumerates ==
  ASSUME NEW n \in Nat, NEW S, S \subseteq 0..n
  PROVE  /\ Len(Ascending(S)) \in Nat /\ DOMAIN Ascending(S) = 1..Len(Ascending(S))
         /\ \A k \in 1..Len(Ascending(S)) : Ascending(S)[k] \in S
         /\ \A x \in S : \E k \in 1..Len(Ascending(S)) : Ascending(S)[k] = x
         /\ \A k, l \in 1..Len(Ascending(S)) : k < l => Ascending(S)[k] < Ascending(S)[l]
<1> DEFINE Lower(x) == {y \in S : y < x}
           rank(x)  == Cardinality(Lower(x))
           N        == Cardinality(S)
<1>0. \A y \in S : y \in Nat
  OBVIOUS
<1>1. IsFiniteSet(S) /\ N \in Nat
  <2>1. IsFiniteSet(0..n)
    BY FS_Interval
  <2> QED
    BY <2>1, FS_Subset, FS_CardinalityType
<1>2. ASSUME NEW x \in S
      PROVE  IsFiniteSet(Lower(x)) /\ rank(x) \in Nat /\ rank(x) < N
  <2>1. Lower(x) \subseteq S /\ x \notin Lower(x)
    OBVIOUS
  <2> HIDE DEF Lower
  <2>2. IsFiniteSet(Lower(x)) /\ rank(x) <= N /\ (rank(x) = N => Lower(x) = S)
    BY <1>1, <2>1, FS_Subset
  <2>3. rank(x) \in Nat
    BY <2>2, FS_CardinalityType
  <2> QED
    BY <1>1, <2>1, <2>2, <2>3
<1>3. ASSUME NEW x \in S, NEW y \in S, x < y PROVE rank(x) < rank(y)
  <2>1. Lower(x) \subseteq Lower(y) /\ x \in Lower(y) /\ x \notin Lower(x)
    <3>1. x \in Nat /\ y \in Nat
      BY <1>0
    <3>2. \A z \in S : z < x => z < y
      BY <1>0, <1>3, <3>1
    <3>3. ~(x < x)
      BY <3>1
    <3> QED
      BY <1>3, <3>2, <3>3
  <2>2. IsFiniteSet(Lower(y)) /\ rank(x) \in Nat /\ rank(y) \in Nat
    BY <1>2
  <2> HIDE DEF Lower
  <2>3. rank(x) <= rank(y) /\ (rank(x) = rank(y) => Lower(x) = Lower(y))
    BY <2>1, <2>2, FS_Subset
  <2> QED
    BY <2>1, <2>2, <2>3
<1>4. ASSUME NEW x \in S, NEW z \in S, z < x, \A y \in S : y < x => y <= z PROVE rank(x) = rank(z) + 1
  <2>1. Lower(x) = Lower(z) \cup {z} /\ z \notin Lower(z)
    <3>1. x \in Nat /\ z \in Nat
      BY <1>0
    <3>2. \A y \in S : y < x <=> y < z \/ y = z
      BY <1>0, <1>4, <3>1
    <3>3. ~(z < z)
      BY <3>1
    <3> QED
      BY <3>2, <3>3
  <2>2. IsFiniteSet(Lower(z))
    BY <1>2
  <2> HIDE DEF Lower
  <2> QED
    BY <2>1, <2>2, FS_AddElement
<1>5. ASSUME NEW k \in 1..N PROVE \E x \in S : rank(x) = k - 1
  <2> DEFINE B == {x \in S : rank(x) >= k - 1}
  <2>1. S # {}
    <3>1. S = {} => N = 0
      BY FS_EmptySet
    <3> QED
      BY <1>1, <3>1
  <2>2. PICK m \in S : \A y \in S : y <= m
    BY <2>1, LargestExists
  <2>3. rank(m) = N - 1
    <3>1. S = Lower(m) \cup {m} /\ m \notin Lower(m)
      <4>1. m \in Nat
        BY <1>0
      <4>2. \A y \in S : y < m \/ y = m
        BY <1>0, <2>2, <4>1
      <4>3. ~(m < m)
        BY <4>1
      <4> QED
        BY <4>2, <4>3
    <3>2. IsFiniteSet(Lower(m)) /\ rank(m) \in Nat
      BY <1>2
    <3> HIDE DEF Lower
    <3>3. Cardinality(Lower(m) \cup {m}) = Cardinality(Lower(m)) + 1
      BY <3>1, <3>2, FS_AddElement
    <3> QED
      BY <1>1, <3>1, <3>2, <3>3
  <2>4. m \in B
    BY <1>1, <2>3
  <2>5. PICK x \in B : \A y \in B : x <= y
    <3>1. B \subseteq Nat
      BY <1>0
    <3> HIDE DEF B
    <3> QED
      BY <2>4, <3>1, SmallestExists
  <2>6. rank(x) \in Nat /\ rank(x) >= k - 1 /\ x \in S
    BY <1>2
  <2>7. CASE rank(x) > k - 1
    <3>1. Lower(x) # {}
      <4>1. Lower(x) = {} => rank(x) = 0
        BY FS_EmptySet
      <4> HIDE DEF Lower
      <4> QED
        BY <2>6, <2>7, <4>1
    <3>2. Lower(x) \subseteq 0..n
      OBVIOUS
    <3>3. PICK z \in Lower(x) : \A y \in Lower(x) : y <= z
      <4> HIDE DEF Lower
      <4> QED
        BY <3>1, <3>2, LargestExists
    <3>4. z \in S /\ z < x /\ \A y \in S : y < x => y <= z
      BY <3>3
    <3>5. rank(x) = rank(z) + 1 /\ rank(z) \in Nat
      BY <1>2, <1>4, <2>6, <3>4
    <3>6. z \in B
      <4> HIDE DEF rank
      <4> QED
        BY <2>6, <2>7, <3>4, <3>5
    <3> QED
      BY <2>5, <2>6, <3>4, <3>6
  <2> HIDE DEF rank
  <2> QED
    BY <2>6, <2>7
<1> DEFINE A == Ascending(S)
<1>6. A = [k \in 1..N |-> CHOOSE x \in S : rank(x) = k - 1]
  BY DEF Ascending
<1>7. Len(A) = N /\ DOMAIN A = 1..N
  <2> HIDE DEF rank
  <2> QED
    BY <1>1, <1>6
<1> HIDE DEF A, N, rank
<1>8. ASSUME NEW k \in 1..N PROVE A[k] \in S /\ rank(A[k]) = k - 1
  BY <1>5, <1>6
<1>9. ASSUME NEW x \in S PROVE \E k \in 1..N : A[k] = x
  <2>1. rank(x) \in Nat /\ rank(x) < N
    BY <1>2
  <2>2. rank(x) + 1 \in 1..N
    BY <1>1, <2>1
  <2>3. A[rank(x) + 1] \in S /\ rank(A[rank(x) + 1]) = rank(x)
    BY <1>8, <2>1, <2>2
  <2>4. A[rank(x) + 1] = x
    <3> DEFINE y == A[rank(x) + 1]
    <3>1. y \in S /\ rank(y) = rank(x)
      BY <2>3
    <3> HIDE DEF y
    <3>2. ~(x < y) /\ ~(y < x)
      BY <1>3, <2>1, <3>1
    <3> QED
      <4>1. x \in Nat /\ y \in Nat
        BY <1>0, <3>1
      <4>2. x = y
        BY <3>2, <4>1
      <4> QED
        BY <4>2 DEF y
  <2> QED
    BY <2>2, <2>4
<1>10. ASSUME NEW k \in 1..N, NEW l \in 1..N, k < l PROVE A[k] < A[l]
  <2> DEFINE x == A[k]
             y == A[l]
  <2>1. x \in S /\ y \in S /\ rank(x) = k - 1 /\ rank(y) = l - 1
    BY <1>8
  <2> HIDE DEF x, y
  <2>2. x # y
    BY <1>10, <2>1
  <2>3. ~(y < x)
    BY <1>3, <1>10, <2>1
  <2>4. x \in Nat /\ y \in Nat
    BY <1>0, <2>1
  <2>5. x < y
    BY <2>2, <2>3, <2>4
  <2> QED
    BY <2>5 DEF x, y
<1> QED
  BY <1>1, <1>7, <1>8, <1>9, <1>10 DEF A

\* The running totals exist, and are what they are called.
LEMMA RunningTotals ==
  ASSUME NEW N \in Nat, NEW s, Len(s) = N, \A n \in 1..N : s[n] \in Nat
  PROVE  /\ Accumulated(s)[0] = 0
         /\ \A n \in 1..N : Accumulated(s)[n] = Accumulated(s)[n - 1] + s[n]
         /\ \A n \in 0..N : Accumulated(s)[n] \in Nat
<1> DEFINE Totals(g, m) == g = [n \in 0..m |-> IF n = 0 THEN 0 ELSE g[n - 1] + s[n]]
           Bad == {m \in 0..N : ~\E g : Totals(g, m)}
<1>1. ASSUME Bad # {} PROVE FALSE
  <2>1. PICK m \in Bad : \A k \in Bad : m <= k
    <3>1. Bad \subseteq Nat
      OBVIOUS
    <3> HIDE DEF Bad
    <3> QED
      BY <1>1, <3>1, SmallestExists
  <2>2. m \in 0..N /\ ~\E g : Totals(g, m)
    BY <2>1
  <2>3. CASE m = 0
    <3> DEFINE g == [n \in 0..0 |-> 0]
    <3>1. Totals(g, 0)
      OBVIOUS
    <3> QED
      BY <2>2, <2>3, <3>1
  <2>4. CASE m # 0
    <3>1. m - 1 \in 0..N /\ ~(m <= m - 1) /\ m \in Nat \ {0}
      BY <2>2, <2>4
    <3>2. PICK g : Totals(g, m - 1)
      BY <2>1, <3>1
    <3> DEFINE h == [n \in 0..m |-> IF n = 0 THEN 0 ELSE g[n - 1] + s[n]]
    <3>3. \A n \in 0..(m - 1) : h[n] = g[n]
      <4> SUFFICES ASSUME NEW n \in 0..(m - 1) PROVE h[n] = g[n]
        OBVIOUS
      <4>1. n \in 0..m
        BY <3>1
      <4>2. h[n] = IF n = 0 THEN 0 ELSE g[n - 1] + s[n]
        BY <4>1
      <4>3. g[n] = IF n = 0 THEN 0 ELSE g[n - 1] + s[n]
        BY <3>2, Zenon
      <4> QED
        BY <4>2, <4>3
    <3>4. \A n \in 0..m : n # 0 => h[n - 1] = g[n - 1]
      <4>1. \A n \in 0..m : n # 0 => n - 1 \in 0..(m - 1)
        BY <3>1
      <4> HIDE DEF h
      <4> QED
        BY <3>3, <4>1
    <3>5. h = [n \in 0..m |-> IF n = 0 THEN 0 ELSE h[n - 1] + s[n]]
      <4>1. \A n \in 0..m : (IF n = 0 THEN 0 ELSE g[n - 1] + s[n]) = (IF n = 0 THEN 0 ELSE h[n - 1] + s[n])
        <5> HIDE DEF h
        <5> QED
          BY <3>4
      <4>2. h = [n \in 0..m |-> IF n = 0 THEN 0 ELSE g[n - 1] + s[n]]
        OBVIOUS
      <4> HIDE DEF h
      <4> QED
        BY <4>1, <4>2
    <3> HIDE DEF h
    <3> QED
      BY <2>2, <3>5
  <2> QED
    BY <2>3, <2>4
<1>2. \E g : Totals(g, N)
  <2>1. N \notin Bad /\ N \in 0..N
    BY <1>1
  <2> HIDE DEF Totals
  <2> QED
    BY <2>1
<1>3. Accumulated(s) = CHOOSE g : Totals(g, N)
  BY DEF Accumulated
<1> DEFINE R == Accumulated(s)
<1>4. Totals(R, N)
  <2> HIDE DEF Totals
  <2> QED
    BY <1>2, <1>3
<1> HIDE DEF R
<1>5. \A n \in 0..N : R[n] = IF n = 0 THEN 0 ELSE R[n - 1] + s[n]
  BY <1>4
<1>6. R[0] = 0 /\ \A n \in 1..N : R[n] = R[n - 1] + s[n]
  BY <1>5
<1> DEFINE Odd == {m \in 0..N : R[m] \notin Nat}
<1>7. ASSUME Odd # {} PROVE FALSE
  <2>1. PICK m \in Odd : \A k \in Odd : m <= k
    <3>1. Odd \subseteq Nat
      OBVIOUS
    <3> HIDE DEF Odd
    <3> QED
      BY <1>7, <3>1, SmallestExists
  <2>2. m \in 1..N /\ R[m] \notin Nat
    BY <1>6, <2>1
  <2>3. m - 1 \in 0..N /\ ~(m <= m - 1)
    BY <2>2
  <2>4. R[m - 1] \in Nat
    BY <2>1, <2>3
  <2> QED
    BY <1>6, <2>2, <2>4
<1> QED
  BY <1>6, <1>7 DEF R

LEMMA RunningGrows ==
  ASSUME NEW N \in Nat, NEW s, Len(s) = N, \A n \in 1..N : s[n] \in Nat
  PROVE  \A m, n \in 0..N : m <= n => Accumulated(s)[m] <= Accumulated(s)[n]
<1> DEFINE R == Accumulated(s)
<1>1. /\ \A n \in 1..N : R[n] = R[n - 1] + s[n]
      /\ \A n \in 0..N : R[n] \in Nat
  BY RunningTotals
<1> HIDE DEF R
<1> SUFFICES ASSUME NEW m \in 0..N PROVE \A n \in 0..N : m <= n => R[m] <= R[n]
  BY DEF R
<1> DEFINE Bad == {n \in 0..N : m <= n /\ ~(R[m] <= R[n])}
<1>2. ASSUME Bad # {} PROVE FALSE
  <2>1. PICK n \in Bad : \A k \in Bad : n <= k
    <3>1. Bad \subseteq Nat
      OBVIOUS
    <3> HIDE DEF Bad
    <3> QED
      BY <1>2, <3>1, SmallestExists
  <2>2. n \in 0..N /\ m <= n /\ ~(R[m] <= R[n]) /\ n # m
    BY <1>1, <2>1
  <2>3. n - 1 \in 0..N /\ m <= n - 1 /\ ~(n <= n - 1) /\ n \in 1..N
    BY <2>2
  <2>4. R[m] <= R[n - 1]
    BY <2>1, <2>3
  <2>5. R[m] \in Nat /\ R[n - 1] \in Nat /\ s[n] \in Nat /\ R[n] = R[n - 1] + s[n]
    BY <1>1, <2>3
  <2> QED
    BY <2>2, <2>4, <2>5
<1> QED
  BY <1>2

\* Every number up to the total falls to one place.
LEMMA RunningFinds ==
  ASSUME NEW N \in Nat, NEW s, Len(s) = N, \A n \in 1..N : s[n] \in Nat,
         NEW i \in 1..Accumulated(s)[N]
  PROVE  \E n \in 1..N : Accumulated(s)[n - 1] < i /\ i <= Accumulated(s)[n]
<1> DEFINE R == Accumulated(s)
           F == {n \in 0..N : i <= R[n]}
<1>1. R[0] = 0 /\ \A n \in 0..N : R[n] \in Nat
  BY RunningTotals
<1> HIDE DEF R
<1>2. N \in F
  BY DEF R
<1>3. PICK n \in F : \A k \in F : n <= k
  <2>1. F \subseteq Nat
    OBVIOUS
  <2> HIDE DEF F
  <2> QED
    BY <1>2, <2>1, SmallestExists
<1>4. i \in Nat /\ i >= 1
  <2>1. R[N] \in Nat
    BY <1>1
  <2> QED
    BY <2>1 DEF R
<1>5. n # 0
  BY <1>1, <1>3, <1>4
<1>6. n \in 1..N /\ n - 1 \in 0..N /\ ~(n <= n - 1)
  BY <1>3, <1>5
<1>7. ~(i <= R[n - 1])
  BY <1>3, <1>6
<1>8. R[n - 1] < i
  BY <1>1, <1>4, <1>6, <1>7
<1> QED
  BY <1>3, <1>6, <1>8 DEF R

\* words_fully_inside: the words inside that are not excluded, and no other.
LEMMA WordsInside ==
  ASSUME WordsGiven, NEW interval, NEW excluded
  PROVE  \A w : w \in ToSet(WordsFullyInside(Words, interval, excluded)) <=>
                  /\ w \in ToSet(Words) /\ w.id \notin excluded
                  /\ interval.start <= w.start /\ w.end <= interval.end
<1> DEFINE S == {k \in 1..Len(Words) :
                  /\ Words[k].id \notin excluded
                  /\ interval.start <= Words[k].start /\ Words[k].end <= interval.end}
           A == Ascending(S)
           W == WordsFullyInside(Words, interval, excluded)
<1>1. W = [k \in 1..Len(A) |-> Words[A[k]]]
  BY DEF WordsFullyInside
<1>2. Len(Words) \in Nat /\ DOMAIN Words = 1..Len(Words)
  BY DEF WordsGiven
<1>3. S \subseteq 0..Len(Words)
  BY <1>2
<1>4. /\ Len(A) \in Nat
      /\ \A k \in 1..Len(A) : A[k] \in S
      /\ \A x \in S : \E k \in 1..Len(A) : A[k] = x
  <2> HIDE DEF S
  <2> QED
    BY <1>2, <1>3, AscendingEnumerates
<1>5. ToSet(Words) = {Words[k] : k \in 1..Len(Words)}
  BY <1>2 DEF ToSet
<1>6. ToSet(W) = {Words[A[k]] : k \in 1..Len(A)}
  <2> HIDE DEF A, W
  <2> QED
    BY <1>1 DEF ToSet
<1>7. {Words[A[k]] : k \in 1..Len(A)} = {Words[x] : x \in S}
  <2> HIDE DEF A, S
  <2> QED
    BY <1>4
<1> HIDE DEF A
<1> QED
  BY <1>5, <1>6, <1>7

-----------------------------------------------------------------------------
WordsTimed ==
  /\ session.audio \in Nat
  /\ \A i \in 1..Len(Words) :
       /\ Words[i].start \in Nat /\ Words[i].end \in Nat /\ Words[i].start <= Words[i].end
       /\ {"id", "start", "end"} \subseteq DOMAIN Words[i]

LEMMA WordPositions ==
  ASSUME WordsGiven
  PROVE  /\ Len(Words) \in Nat
         /\ \A w : w \in ToSet(Words) <=> \E i \in 1..Len(Words) : w = Words[i]
         /\ \A i \in 1..Len(Words) : Words[i].id = i - 1
<1>1. Len(Words) \in Nat /\ DOMAIN Words = 1..Len(Words)
  BY DEF WordsGiven
<1> QED
  BY <1>1 DEF ToSet, WordsGiven

\* Usable words follow one another, and with them the places of the sentences.
LEMMA WordsInOrder ==
  ASSUME WordsGiven, WordsTimed, ~AlignmentUnusable(Words)
  PROVE  /\ \A i \in 1..Len(Words) : Within(WordInterval(Words[i]), session.audio)
         /\ \A i, j \in 1..Len(Words) : i <= j => Words[i].start <= Words[j].start
<1>1. Len(Words) \in Nat
  BY WordPositions
<1>2. \A i \in 1..Len(Words) :
        /\ Words[i].start \in Nat /\ Words[i].end \in Nat /\ Words[i].start <= Words[i].end
        /\ ~(Words[i].end > session.audio)
        /\ i # 1 => ~(Words[i].start < Words[i - 1].end)
  BY DEF WordsTimed, AlignmentUnusable
<1>3. \A i \in 1..Len(Words) : Within(WordInterval(Words[i]), session.audio)
  <2> SUFFICES ASSUME NEW i \in 1..Len(Words) PROVE Within(WordInterval(Words[i]), session.audio)
    OBVIOUS
  <2>1. Words[i].start \in 0..session.audio /\ Words[i].end \in 0..session.audio /\ Words[i].start <= Words[i].end
    BY <1>2 DEF WordsTimed
  <2> QED
    BY <2>1 DEF Within, WordInterval, Interval
<1>4. ASSUME NEW i \in 1..Len(Words), NEW j \in 1..Len(Words), i <= j PROVE Words[i].start <= Words[j].start
  <2> DEFINE Bad == {k \in 1..Len(Words) : i <= k /\ ~(Words[i].start <= Words[k].start)}
  <2>1. ASSUME Bad # {} PROVE FALSE
    <3>1. PICK k \in Bad : \A l \in Bad : k <= l
      <4>1. Bad \subseteq Nat
        OBVIOUS
      <4> HIDE DEF Bad
      <4> QED
        BY <2>1, <4>1, SmallestExists
    <3>2. k \in 1..Len(Words) /\ i <= k /\ ~(Words[i].start <= Words[k].start)
      BY <3>1
    <3>3. k # i
      BY <1>2, <3>2
    <3>4. k - 1 \in 1..Len(Words) /\ i <= k - 1 /\ ~(k <= k - 1)
      BY <1>1, <3>2, <3>3
    <3>5. Words[i].start <= Words[k - 1].start
      BY <3>1, <3>4
    <3>6. /\ Words[k - 1].start \in Nat /\ Words[k - 1].end \in Nat /\ Words[k - 1].start <= Words[k - 1].end
          /\ Words[i].start \in Nat /\ Words[k].start \in Nat
      BY <1>2, <3>2, <3>4
    <3>7. ~(Words[k].start < Words[k - 1].end)
      <4>1. k # 1
        BY <3>4
      <4> QED
        BY <1>2, <3>2, <4>1
    <3> QED
      BY <3>2, <3>5, <3>6, <3>7
  <2> QED
    BY <1>4, <2>1
<1> QED
  BY <1>3, <1>4

LEMMA SentencesInside ==
  ASSUME WordsGiven, WordsTimed, ~AlignmentUnusable(Words), NEW s \in Sentences(Words)
  PROVE  Within(s.interval, session.audio) /\ s.first \in Nat /\ s.past \in Nat
<1>1. /\ s.past \in Ends /\ s.first \in Ends \cup {0} /\ s.first < s.past
      /\ s.interval = Interval(Words[s.first + 1].start, Words[s.past].end)
  BY SentencesBetweenEnds
<1>2. Len(Words) \in Nat /\ Ends \subseteq 1..Len(Words)
  BY WordPositions DEF Ends
<1>3. s.past \in 1..Len(Words)
  BY <1>1, <1>2
<1>4. s.first \in Nat
  <2>1. Ends \cup {0} \subseteq Nat
    BY <1>2
  <2> QED
    BY <1>1, <2>1
<1>5. s.first + 1 \in 1..Len(Words) /\ s.first + 1 <= s.past
  BY <1>1, <1>2, <1>3, <1>4
<1>6. Words[s.first + 1].start <= Words[s.past].start
  BY <1>3, <1>5, WordsInOrder
<1> DEFINE u == Words[s.first + 1]
           v == Words[s.past]
<1>7. Within(WordInterval(u), session.audio) /\ Within(WordInterval(v), session.audio)
  BY <1>3, <1>5, WordsInOrder
<1> HIDE DEF u, v
<1>8. u.start \in 0..session.audio /\ v.start \in 0..session.audio /\ v.end \in 0..session.audio
      /\ v.start <= v.end
  BY <1>7 DEF Within, WordInterval, Interval
<1>9. u.start <= v.end
  <2>1. u.start <= v.start
    BY <1>6 DEF u, v
  <2> QED
    BY <1>8, <2>1
<1>10. s.interval.start = u.start /\ s.interval.end = v.end
  BY <1>1 DEF Interval, u, v
<1> QED
  BY <1>3, <1>4, <1>8, <1>9, <1>10 DEF Within

-----------------------------------------------------------------------------
\* What the analysis hands over: the rules' spans and every span of an answer.
SpansInv ==
  stage # "rejected" =>
       /\ Detect(Words) \subseteq spans
       /\ \A k \in 1..Len(answers) : \A raw \in ToSet(answers[k].spans) :
            raw.first \in Nat /\ raw.past \in Nat /\ ModelSpan(raw) \in spans

Covers(span, id) == span.first \in Nat /\ span.past \in Nat /\ span.first <= id /\ id < span.past

\* A run of digits that is long enough lies in a longest one.
LEMMA DigitsDetected ==
  ASSUME WordsGiven, NEW i \in 1..(Len(Words) - MinDigitRun + 1),
         \A j \in i..(i + MinDigitRun - 1) : Words[j].kind = "digit",
         NEW id \in (i - 1)..(i + MinDigitRun - 2)
  PROVE  \E span \in SpokenDigitRuns(Words) : Covers(span, id) /\ span.action = "DropSentence"
<1> DEFINE N == Len(Words)
           Digits(a, b) == \A k \in a..b : Words[k].kind = "digit"
           pos == id + 1
           L == {a \in 1..N : a <= pos /\ Digits(a, pos)}
           R == {b \in 1..N : pos <= b /\ Digits(pos, b)}
<1>1. N \in Nat /\ MinDigitRun \in Nat /\ i \in Nat /\ id \in Int
  BY WordPositions, PrivacyAssumption
<1>2. pos \in i..(i + MinDigitRun - 1) /\ i \in 1..N /\ i + MinDigitRun - 1 \in 1..N /\ pos \in 1..N
  BY <1>1
<1>3. i \in L /\ i + MinDigitRun - 1 \in R
  BY <1>1, <1>2
<1>4. PICK a \in L : \A x \in L : a <= x
  <2>1. L \subseteq Nat
    OBVIOUS
  <2> HIDE DEF L
  <2> QED
    BY <1>3, <2>1, SmallestExists
<1>5. PICK b \in R : \A x \in R : x <= b
  <2>1. R \subseteq 0..N
    BY <1>1
  <2> HIDE DEF R
  <2> QED
    BY <1>1, <1>3, <2>1, LargestExists
<1>6. a \in 1..N /\ b \in 1..N /\ a <= pos /\ pos <= b /\ a <= i /\ i + MinDigitRun - 1 <= b
  BY <1>3, <1>4, <1>5
<1>7. Digits(a, b)
  <2> SUFFICES ASSUME NEW k \in a..b PROVE Words[k].kind = "digit"
    OBVIOUS
  <2>1. k \in a..pos \/ k \in pos..b
    BY <1>1, <1>2, <1>6
  <2> QED
    BY <1>4, <1>5, <2>1
<1>8. ASSUME a > 1 PROVE Words[a - 1].kind # "digit"
  <2> SUFFICES ASSUME Words[a - 1].kind = "digit" PROVE FALSE
    OBVIOUS
  <2>1. a - 1 \in 1..N /\ a - 1 <= pos /\ ~(a <= a - 1)
    BY <1>1, <1>2, <1>6, <1>8
  <2>2. ASSUME NEW k \in (a - 1)..pos PROVE Words[k].kind = "digit"
    <3>1. k = a - 1 \/ k \in a..pos
      BY <1>2, <1>6
    <3> QED
      BY <1>4, <3>1
  <2>3. a - 1 \in L
    BY <2>1, <2>2
  <2> QED
    BY <1>4, <2>1, <2>3
<1>9. ASSUME b < N PROVE Words[b + 1].kind # "digit"
  <2> SUFFICES ASSUME Words[b + 1].kind = "digit" PROVE FALSE
    OBVIOUS
  <2>1. b + 1 \in 1..N /\ pos <= b + 1 /\ ~(b + 1 <= b)
    BY <1>1, <1>2, <1>6, <1>9
  <2>2. ASSUME NEW k \in pos..(b + 1) PROVE Words[k].kind = "digit"
    <3>1. k = b + 1 \/ k \in pos..b
      BY <1>2, <1>6
    <3> QED
      BY <1>5, <3>1
  <2>3. b + 1 \in R
    BY <2>1, <2>2
  <2> QED
    BY <1>5, <2>1, <2>3
<1>10. a <= b /\ b - a + 1 >= MinDigitRun
  BY <1>1, <1>2, <1>6
<1> DEFINE span == RuleSpan(Words[a].id, Words[b].id + 1)
<1>11. span \in SpokenDigitRuns(Words)
  <2> DEFINE Run(x, y) == /\ x <= y /\ y - x + 1 >= MinDigitRun
                          /\ \A k \in x..y : Words[k].kind = "digit"
                          /\ x > 1 => Words[x - 1].kind # "digit"
                          /\ y < Len(Words) => Words[y + 1].kind # "digit"
  <2>1. SpokenDigitRuns(Words) =
          {RuleSpan(Words[r[1]].id, Words[r[2]].id + 1) :
             r \in {r \in (1..Len(Words)) \X (1..Len(Words)) : Run(r[1], r[2])}}
    BY DEF SpokenDigitRuns
  <2>2. Run(a, b)
    BY <1>7, <1>8, <1>9, <1>10
  <2> HIDE DEF Run
  <2>3. <<a, b>> \in (1..Len(Words)) \X (1..Len(Words)) /\ <<a, b>>[1] = a /\ <<a, b>>[2] = b
    BY <1>6
  <2> QED
    BY <2>1, <2>2, <2>3
<1>12. span.first = a - 1 /\ span.past = b /\ span.action = "DropSentence"
  <2>1. Words[a].id = a - 1 /\ Words[b].id = b - 1
    BY <1>6 DEF WordsGiven
  <2>2. b - 1 + 1 = b
    BY <1>6
  <2> QED
    BY <2>1, <2>2 DEF RuleSpan
<1>13. Covers(span, id)
  <2> HIDE DEF span
  <2> QED
    BY <1>1, <1>6, <1>12 DEF Covers
<1> QED
  BY <1>11, <1>12, <1>13

\* Whatever names a word is among the spans, and as long as cuts of single words
\* are off or grow anyway, takes its sentence.
LEMMA NamedIsSpanned ==
  ASSUME WordsGiven, SpansInv, stage # "rejected", NEW w \in ToSet(Words), Named(w.id)
  PROVE  \E span \in spans : Covers(span, w.id) /\ (WordLevelCuts \/ span.action = "DropSentence")
<1>1. PICK p \in 1..Len(Words) : w = Words[p] /\ w.id = p - 1
  BY WordPositions
<1>2. Len(Words) \in Nat /\ Detect(Words) \subseteq spans
  BY WordPositions DEF SpansInv
<1>3. CASE Words[w.id + 1].kind \in {"listed", "attack"}
  <2>1. p \in OfKind(Words, "listed") \cup OfKind(Words, "attack")
    <3>1. w.id + 1 = p
      BY <1>1
    <3> QED
      BY <1>1, <1>3, <3>1 DEF OfKind
  <2> DEFINE span == RuleSpan(Words[p].id, Words[p].id + 1)
  <2>2. span \in spans
    BY <1>2, <2>1 DEF Detect
  <2>3. span.first = p - 1 /\ span.past = p - 1 + 1 /\ span.action = "DropSentence"
    BY <1>1 DEF RuleSpan
  <2> HIDE DEF span
  <2>4. Covers(span, w.id)
    BY <1>1, <2>3 DEF Covers
  <2> QED
    BY <2>2, <2>3, <2>4
<1>4. ASSUME NEW i \in 1..Len(Words), Words[i].kind = "trigger", w.id \in (i - 1)..(i - 1 + TriggerWindow)
      PROVE  \E span \in spans : Covers(span, w.id) /\ span.action = "DropSentence"
  <2> DEFINE m == Smaller(i + TriggerWindow, Len(Words))
             span == RuleSpan(Words[i].id, Words[m].id + 1)
  <2>1. TriggerWindow \in Nat
    BY PrivacyAssumption
  <2>2. m \in 1..Len(Words) /\ p <= m
    BY <1>1, <1>2, <1>4, <2>1 DEF Smaller
  <2> HIDE DEF m
  <2>3. span \in spans
    <3>1. i \in OfKind(Words, "trigger")
      BY <1>4 DEF OfKind
    <3>2. span \in TriggerSpans(Words)
      BY <3>1 DEF TriggerSpans, m
    <3> QED
      BY <1>2, <3>2 DEF Detect
  <2>4. span.first = i - 1 /\ span.past = m /\ span.action = "DropSentence"
    <3>1. Words[i].id = i - 1 /\ Words[m].id = m - 1 /\ m - 1 + 1 = m
      BY <2>2, WordPositions
    <3> QED
      BY <3>1 DEF RuleSpan
  <2> HIDE DEF span
  <2>5. Covers(span, w.id)
    BY <1>1, <1>4, <2>1, <2>2, <2>4 DEF Covers
  <2> QED
    BY <2>3, <2>4, <2>5
<1>5. ASSUME NEW i \in 1..(Len(Words) - MinDigitRun + 1),
             w.id \in (i - 1)..(i + MinDigitRun - 2),
             \A j \in i..(i + MinDigitRun - 1) : Words[j].kind = "digit"
      PROVE  \E span \in spans : Covers(span, w.id) /\ span.action = "DropSentence"
  <2>1. PICK span \in SpokenDigitRuns(Words) : Covers(span, w.id) /\ span.action = "DropSentence"
    BY <1>5, DigitsDetected
  <2>2. span \in spans
    BY <1>2, <2>1 DEF Detect
  <2> QED
    BY <2>1, <2>2
<1>6. ASSUME NEW k \in 1..Len(answers), NEW s \in ToSet(answers[k].spans), s.first <= w.id, w.id < s.past
      PROVE  \E span \in spans : Covers(span, w.id) /\ (WordLevelCuts \/ span.action = "DropSentence")
  <2>1. s.first \in Nat /\ s.past \in Nat /\ ModelSpan(s) \in spans
    BY DEF SpansInv
  <2>2. /\ ModelSpan(s).first = s.first /\ ModelSpan(s).past = s.past
        /\ ~WordLevelCuts => ModelSpan(s).action = "DropSentence"
    BY DEF ModelSpan
  <2>3. Covers(ModelSpan(s), w.id)
    BY <1>6, <2>1, <2>2 DEF Covers
  <2> QED
    BY <2>1, <2>2, <2>3
<1> QED
  BY <1>3, <1>4, <1>5, <1>6 DEF Named

\* The first selection holds every tainted sentence, whole.
LEMMA TaintedIsSelected ==
  ASSUME WordsGiven, WordsTimed, SpansInv, stage # "rejected", ExpandAll \/ ~WordLevelCuts, NEW s \in Tainted,
         ~AlignmentUnusable(Words)
  PROVE  LET first == FirstSelection(Words, spans, Sentences(Words), ExpandAll, UnusableSentences(Words))
         IN  /\ s.index \in first.whole
             /\ \A w \in ToSet(Words) : ContainsWord(s, w.id) => w.id \in first.selected
<1> DEFINE S == Sentences(Words)
           X == UnusableSentences(Words)
           first == FirstSelection(Words, spans, S, ExpandAll, X)
           Touched(span) == {t \in S : /\ ExpandAll \/ span.action = "DropSentence"
                                       /\ OverlapsSpan(t, span)}
           Ids(span) == IF Touched(span) = {} THEN span.first..(span.past - 1)
                        ELSE UNION {t.first..(t.past - 1) : t \in Touched(span)}
           words == UNION {Ids(span) : span \in spans}
           sentences == UNION {{t.index : t \in Touched(span)} : span \in spans}
           added == {t \in S : t.index \in X}
<1>1. ExpandToSentences(spans, S, ExpandAll) = [words |-> words, sentences |-> sentences]
  BY DEF ExpandToSentences
<1>2. /\ first.selected = {w.id : w \in {w \in ToSet(Words) :
                             w.id \in words \/ \E t \in added : ContainsWord(t, w.id)}}
      /\ first.whole = sentences \cup X
  <2> HIDE DEF words, sentences, S, X
  <2> QED
    BY <1>1 DEF FirstSelection
<1>3. PICK v \in ToSet(Words) : ContainsWord(s, v.id) /\ (Named(v.id) \/ v.low \/ v.unreliable)
  BY DEF Tainted
<1>4. s \in S
  BY DEF Tainted
<1>5. CASE v.low \/ v.unreliable
  <2>1. s.index \in X
    BY <1>3, <1>4, <1>5 DEF UnusableSentences
  <2>2. s \in added
    BY <1>4, <2>1
  <2> HIDE DEF words, sentences, S, X, added, first
  <2> QED
    BY <1>2, <2>1, <2>2 DEF first, S, X
<1>6. CASE Named(v.id)
  <2>1. PICK span \in spans : Covers(span, v.id) /\ (WordLevelCuts \/ span.action = "DropSentence")
    BY <1>6, NamedIsSpanned
  <2>2. s.first \in Nat /\ s.past \in Nat /\ s.first <= v.id /\ v.id < s.past /\ v.id \in Nat
    <3>1. s.first \in Nat /\ s.past \in Nat
      BY <1>4, SentencesInside
    <3>2. v.id \in Nat
      BY WordPositions
    <3> QED
      BY <1>3, <3>1, <3>2 DEF ContainsWord
  <2>3. OverlapsSpan(s, span)
    BY <2>1, <2>2 DEF OverlapsSpan, Covers
  <2>4. s \in Touched(span)
    BY <1>4, <2>1, <2>3
  <2>5. s.index \in sentences
    <3> HIDE DEF Touched
    <3> QED
      BY <2>1, <2>4
  <2>6. ASSUME NEW w \in ToSet(Words), ContainsWord(s, w.id) PROVE w.id \in words
    <3>1. w.id \in s.first..(s.past - 1)
      <4>1. w.id \in Nat
        BY WordPositions
      <4> QED
        BY <2>2, <2>6, <4>1 DEF ContainsWord
    <3>2. w.id \in Ids(span)
      <4> HIDE DEF Touched
      <4> QED
        BY <2>4, <3>1
    <3> HIDE DEF Ids
    <3> QED
      BY <2>1, <3>2
  <2> HIDE DEF words, sentences, S, X, added, first
  <2> QED
    BY <1>2, <2>5, <2>6 DEF first, S, X
<1> QED
  BY <1>3, <1>5, <1>6

-----------------------------------------------------------------------------
Padding == MillisecondsToSamples(PaddingMs, Rate)

\* What the padded intervals are made of.
Chosen ==
  {WordInterval(w) : w \in {w \in ToSet(Words) : w.id \in selected}}
  \cup {s.interval : s \in {s \in Sentences(Words) : s.index \in whole}}

LEMMA ChosenIsSound ==
  ASSUME WordsGiven, WordsTimed, ~AlignmentUnusable(Words)
  PROVE  /\ Sound(Chosen, session.audio) /\ Padding \in Nat
         /\ Removed = IF selected = {} THEN {}
                      ELSE PadAll(Normalize(Chosen), Padding, Interval(0, session.audio))
<1>1. \A w \in ToSet(Words) : Within(WordInterval(w), session.audio)
  BY WordsInOrder, WordPositions
<1>2. \A s \in Sentences(Words) : Within(s.interval, session.audio)
  BY SentencesInside
<1>3. Sound(Chosen, session.audio)
  BY <1>1, <1>2 DEF Chosen, Sound, Within
<1>4. Padding \in Nat
  <2>1. PaddingMs \in Nat /\ Rate \in Nat
    BY DatasetAssumption
  <2>2. PaddingMs * Rate \in Nat
    BY <2>1
  <2> QED
    BY <2>2 DEF Padding, MillisecondsToSamples
<1>5. Removed = IF selected = {} THEN {}
                ELSE PadAll(Normalize(Chosen), Padding, Interval(0, session.audio))
  BY DEF Removed, PaddedIntervals, Chosen, Padding, Bound
<1> QED
  BY <1>3, <1>4, <1>5

Planned == stage \notin {"windowing", "classifying", "planning", "rejected"}

\* The inductive invariant of the removal: the first selection holds every tainted
\* sentence, whole, and when the loop has ended no word that is left touches what
\* is removed.
SelectInv ==
  /\ Planned =>
       \A s \in Tainted :
         /\ s.index \in whole
         /\ \A w \in ToSet(Words) : ContainsWord(s, w.id) => w.id \in selected
  /\ Planned /\ stage # "growing" =>
       \A w \in ToSet(Words), r \in Removed : Intersects(WordInterval(w), r) => w.id \in selected

\* One clip after another, on both timelines.
Laid(q) ==
  /\ Len(q) \in Nat
  /\ \A n \in 1..Len(q) :
       /\ q[n].destination.start \in Nat /\ q[n].destination.end \in Nat
       /\ Length(q[n].destination) = Length(q[n].source)
       /\ q[n].destination.start = (IF n = 1 THEN 0 ELSE q[n - 1].destination.end)
       /\ n > 1 => q[n - 1].source.end < q[n].source.start

\* The inductive invariant of the clips: the words they are cut from can be used; each clip
\* is one of the intervals that are left, with the words that lie inside it, laid after the
\* one before, and was asserted to hold nothing that is removed.
ClipsInv ==
  /\ WordsTimed
  /\ Planned => ~AlignmentUnusable(Words)
  /\ stage = "rechecking" \/ Ready =>
       /\ \A c \in ToSet(clips) : /\ c.source \in Complement(Removed, Bound)
                                  /\ c.words = WordsFullyInside(Words, c.source, selected)
       /\ Laid(clips)
  /\ Ready => NoRemovedAudio(clips)

\* What follows from them: the assertion of the code, which only speaks of the removed
\* intervals, keeps out every sample that has to stay out.
LEMMA CleanClips ==
  ASSUME WordsGiven, SelectInv, ClipsInv
  PROVE  RemovedStaysOut
<1> DEFINE n == session.audio
<1> SUFFICES ASSUME Ready, NEW c \in ToSet(clips)
             PROVE  /\ \A s \in Tainted :
                         /\ \A w \in ToSet(c.words) : ~ContainsWord(s, w.id)
                         /\ IsEmpty(s.interval) \/ ~Intersects(c.source, Pad(s.interval, Padding, Bound))
                    /\ \A w \in ToSet(Words) :
                         IF w \in ToSet(c.words) THEN c.source.start <= w.start /\ w.end <= c.source.end
                         ELSE IsEmpty(WordInterval(w)) \/ ~Intersects(c.source, WordInterval(w))
  BY DEF RemovedStaysOut, Padding
<1>1. Planned /\ stage # "growing"
  BY DEF Planned, Ready
<1>2. /\ ~AlignmentUnusable(Words) /\ WordsTimed /\ n \in Nat /\ Bound = Interval(0, n)
      /\ c.source \in Complement(Removed, Bound)
      /\ c.words = WordsFullyInside(Words, c.source, selected)
      /\ \A r \in Removed : ~Intersects(c.source, r)
  BY <1>1 DEF SelectInv, ClipsInv, WordsTimed, Bound, NoRemovedAudio
<1>3. /\ Sound(Chosen, n) /\ Padding \in Nat
      /\ Removed = IF selected = {} THEN {} ELSE PadAll(Normalize(Chosen), Padding, Interval(0, n))
  BY <1>2, ChosenIsSound
<1>4. \A r \in Removed : r.start \in 0..n /\ r.end \in 0..n /\ r.start < r.end
  BY <1>2, <1>3, PaddedCovers
<1>5. Sound(Removed, n)
  BY <1>4 DEF Sound
<1>6. /\ c.source.start \in 0..n /\ c.source.end \in 0..n /\ c.source.start < c.source.end
      /\ c.source.start = 0 \/ \E r \in Removed : r.start < r.end /\ r.end = c.source.start
      /\ c.source.end = n \/ \E r \in Removed : r.start < r.end /\ r.start = c.source.end
  BY <1>2, <1>5, ComplementEdges
<1>7. \A w : w \in ToSet(c.words) <=> /\ w \in ToSet(Words) /\ w.id \notin selected
                                       /\ c.source.start <= w.start /\ w.end <= c.source.end
  BY <1>2, WordsInside
<1>8. \A w \in ToSet(Words) : Within(WordInterval(w), n)
  BY <1>2, WordsInOrder, WordPositions
\* Around what was chosen the clip keeps the padding's distance.
<1>9. ASSUME NEW i \in Chosen, selected # {}, ~IsEmpty(i)
      PROVE  ~Intersects(c.source, Pad(i, Padding, Bound))
  <2> DEFINE p == Pad(i, Padding, Interval(0, n))
  <2>1. PICK r \in Removed : r.start <= p.start /\ p.end <= r.end
    BY <1>2, <1>3, <1>9, PaddedCovers
  <2>2. Within(p, n)
    <3>1. Within(i, n)
      BY <1>3 DEF Sound, Within
    <3> QED
      BY <1>2, <1>3, <3>1, PadWidens
  <2>3. r.start \in 0..n /\ r.end \in 0..n /\ ~Intersects(c.source, r)
    BY <1>2, <1>4
  <2> HIDE DEF p
  <2>4. ~Intersects(c.source, p)
    BY <1>6, <2>1, <2>2, <2>3 DEF Intersects, Within
  <2> QED
    BY <1>2, <2>4 DEF p
<1>10. ASSUME NEW s \in Tainted
       PROVE  /\ \A w \in ToSet(c.words) : ~ContainsWord(s, w.id)
              /\ IsEmpty(s.interval) \/ ~Intersects(c.source, Pad(s.interval, Padding, Bound))
  <2>1. s.index \in whole /\ \A w \in ToSet(Words) : ContainsWord(s, w.id) => w.id \in selected
    BY <1>1 DEF SelectInv
  <2>2. \A w \in ToSet(c.words) : ~ContainsWord(s, w.id)
    BY <1>7, <2>1
  <2>3. selected # {}
    <3>1. \E w \in ToSet(Words) : ContainsWord(s, w.id)
      BY DEF Tainted
    <3> QED
      BY <2>1, <3>1
  <2>4. s.interval \in Chosen
    <3>1. s \in Sentences(Words)
      BY DEF Tainted
    <3> QED
      BY <2>1, <3>1 DEF Chosen
  <2> QED
    BY <1>9, <2>2, <2>3, <2>4
<1>11. ASSUME NEW w \in ToSet(Words), w \notin ToSet(c.words), ~IsEmpty(WordInterval(w)),
              Intersects(c.source, WordInterval(w))
       PROVE  FALSE
  <2>1. /\ WordInterval(w).start = w.start /\ WordInterval(w).end = w.end
        /\ w.start \in 0..n /\ w.end \in 0..n /\ w.start < w.end
        /\ c.source.start < w.end /\ w.start < c.source.end
    <3>1. WordInterval(w).start = w.start /\ WordInterval(w).end = w.end
      BY DEF WordInterval, Interval
    <3>2. w.start \in 0..n /\ w.end \in 0..n /\ w.start <= w.end /\ w.start # w.end
      BY <1>8, <1>11, <3>1 DEF Within, IsEmpty
    <3> QED
      BY <1>11, <3>1, <3>2 DEF Intersects
  \* A word that is cut by the clip's end is touched by the removal that made the end.
  <2>2. w.id \in selected
    <3> SUFFICES ASSUME w.id \notin selected PROVE FALSE
      OBVIOUS
    <3>1. \A r \in Removed : ~Intersects(WordInterval(w), r)
      BY <1>1 DEF SelectInv
    <3>2. \A r \in Removed : ~(w.start < r.end /\ r.start < w.end)
      BY <2>1, <3>1 DEF Intersects
    <3>3. CASE ~(c.source.start <= w.start)
      <4>1. PICK r \in Removed : r.start < r.end /\ r.end = c.source.start
        BY <1>6, <2>1, <3>3
      <4> QED
        BY <1>4, <1>6, <2>1, <3>2, <3>3, <4>1
    <3>4. CASE ~(w.end <= c.source.end)
      <4>1. PICK r \in Removed : r.start < r.end /\ r.start = c.source.end
        BY <1>6, <2>1, <3>4
      <4> QED
        BY <1>4, <1>6, <2>1, <3>2, <3>4, <4>1
    <3> QED
      BY <1>7, <1>11, <3>3, <3>4
  <2>3. WordInterval(w) \in Chosen
    BY <2>2 DEF Chosen
  <2> DEFINE i == WordInterval(w)
             p == Pad(i, Padding, Interval(0, n))
  <2>4. ~Intersects(c.source, p)
    BY <1>2, <1>9, <1>11, <2>2, <2>3
  <2>5. Within(p, n) /\ p.start <= w.start /\ w.end <= p.end
    BY <1>2, <1>3, <1>8, <2>1, PadWidens
  <2> HIDE DEF p
  <2> QED
    BY <1>6, <2>1, <2>4, <2>5 DEF Intersects, Within
<1>12. \A w \in ToSet(Words) :
         IF w \in ToSet(c.words) THEN c.source.start <= w.start /\ w.end <= c.source.end
         ELSE IsEmpty(WordInterval(w)) \/ ~Intersects(c.source, WordInterval(w))
  BY <1>7, <1>11
<1> QED
  BY <1>10, <1>12

-----------------------------------------------------------------------------
LEMMA RemovedIsSound ==
  ASSUME WordsGiven, WordsTimed, ~AlignmentUnusable(Words)
  PROVE  Sound(Removed, session.audio)
<1>1. session.audio \in Nat
  BY DEF WordsTimed
<1>2. \A r \in Removed : r.start \in 0..session.audio /\ r.end \in 0..session.audio /\ r.start < r.end
  BY <1>1, ChosenIsSound, PaddedCovers
<1> QED
  BY <1>2 DEF Sound

\* DestinationMap: intervals that lie apart, in order, are laid end to end.
InOrder(q, n) ==
  /\ Len(q) \in Nat /\ DOMAIN q = 1..Len(q)
  /\ Apart(ToSet(q)) /\ Plain(ToSet(q), n)
  /\ \A k \in 1..Len(q) : q[k].start = Ascending({i.start : i \in ToSet(q)})[k]
  /\ Len(Ascending({i.start : i \in ToSet(q)})) = Len(q)

LEMMA DestinationsFollow ==
  ASSUME NEW n \in Nat, NEW q, InOrder(q, n)
  PROVE  \A k \in 1..Len(q) :
           /\ DestinationOf(q, k).start \in Nat /\ DestinationOf(q, k).end \in Nat
           /\ Length(DestinationOf(q, k)) = Length(q[k])
           /\ DestinationOf(q, k).start = (IF k = 1 THEN 0 ELSE DestinationOf(q, k - 1).end)
<1> DEFINE T      == ToSet(q)
           starts == Ascending({i.start : i \in T})
           Nth(k) == CHOOSE i \in T : i.start = starts[k]
           f      == [k \in 1..Len(starts) |-> Length(Nth(k))]
           R      == Accumulated(f)
           N      == Len(q)
<1>0. /\ N \in Nat /\ DOMAIN q = 1..N /\ Apart(T) /\ Plain(T, n)
      /\ \A k \in 1..N : q[k].start = starts[k]
      /\ Len(starts) = N
  BY DEF InOrder
<1>1. Normalize(T) = T
  BY <1>0, NormalizeKeepsApart
<1>2. \A k \in 1..N : DestinationOf(q, k) = Interval(R[k - 1], R[k])
  BY <1>1 DEF DestinationOf
<1> HIDE DEF N
<1>3. \A k \in 1..N : q[k] \in T /\ q[k].start = starts[k]
  BY <1>0 DEF ToSet
<1>4. \A i, j \in T : i.start = j.start => i = j
  <2> SUFFICES ASSUME NEW i \in T, NEW j \in T, i.start = j.start PROVE i = j
    OBVIOUS
  <2>1. i = j \/ i.end < j.start \/ j.end < i.start
    BY <1>0 DEF Apart
  <2>2. i.start \in 0..n /\ i.end \in 0..n /\ i.start < i.end /\ j.start \in 0..n /\ j.end \in 0..n /\ j.start < j.end
    BY <1>0 DEF Plain
  <2> QED
    BY <2>1, <2>2
<1>5. \A k \in 1..N : Nth(k) = q[k]
  <2> HIDE DEF T, starts
  <2> QED
    BY <1>3, <1>4
<1>6. \A k \in 1..N : Length(q[k]) \in Nat
  <2> SUFFICES ASSUME NEW k \in 1..N PROVE Length(q[k]) \in Nat
    OBVIOUS
  <2>1. q[k].start \in 0..n /\ q[k].end \in 0..n /\ q[k].start < q[k].end
    BY <1>0, <1>3 DEF Plain
  <2> QED
    BY <2>1 DEF Length
<1>7. Len(starts) = N /\ N \in Nat
  BY <1>0
<1> HIDE DEF T, starts, Nth
<1>8. Len(f) = N /\ \A k \in 1..N : f[k] = Length(q[k])
  BY <1>5, <1>7
<1> HIDE DEF f
<1>9. /\ R[0] = 0
      /\ \A k \in 1..N : R[k] = R[k - 1] + f[k]
      /\ \A k \in 0..N : R[k] \in Nat
  <2>1. \A k \in 1..N : f[k] \in Nat
    BY <1>6, <1>8
  <2> QED
    BY <1>7, <1>8, <2>1, RunningTotals
<1> HIDE DEF R
<1> SUFFICES ASSUME NEW k \in 1..N
             PROVE  /\ DestinationOf(q, k).start \in Nat /\ DestinationOf(q, k).end \in Nat
                    /\ Length(DestinationOf(q, k)) = Length(q[k])
                    /\ DestinationOf(q, k).start = (IF k = 1 THEN 0 ELSE DestinationOf(q, k - 1).end)
  BY DEF N
<1>10. DestinationOf(q, k).start = R[k - 1] /\ DestinationOf(q, k).end = R[k]
  BY <1>2 DEF Interval
<1>11. k # 1 => DestinationOf(q, k - 1).end = R[k - 1]
  <2>1. k # 1 => k - 1 \in 1..N
    BY <1>7
  <2> QED
    BY <1>2, <2>1 DEF Interval
<1>12. k - 1 \in 0..N /\ k \in 0..N /\ (k = 1 => k - 1 = 0)
  BY <1>7
<1>13. R[k] = R[k - 1] + Length(q[k]) /\ R[k] \in Nat /\ R[k - 1] \in Nat /\ Length(q[k]) \in Nat
  BY <1>6, <1>8, <1>9, <1>12
<1>14. Length(DestinationOf(q, k)) = Length(q[k])
  <2>1. Length(DestinationOf(q, k)) = R[k] - R[k - 1]
    BY <1>10 DEF Length
  <2> QED
    BY <1>13, <2>1
<1> QED
  BY <1>9, <1>10, <1>11, <1>12, <1>13, <1>14

\* Each clip that is cut is one of the intervals that are left, with its words.
LEMMA CandidatesLeft ==
  ASSUME WordsGiven, WordsTimed, ~AlignmentUnusable(Words), NEW dull
  PROVE  /\ \A c \in ToSet(Placed(Candidates(dull))) :
              /\ c.source \in Complement(Removed, Bound)
              /\ c.words = WordsFullyInside(Words, c.source, selected)
         /\ Laid(Placed(Candidates(dull)))
         /\ Candidates(dull) # <<>> => Len(Placed(Candidates(dull))) > 0
         /\ Total(Placed(Candidates(dull))) = Total(Candidates(dull))
         /\ \A k \in 1..Len(Placed(Candidates(dull))) :
              ClipPasses(Placed(Candidates(dull))[k].source, Placed(Candidates(dull))[k].words)
<1> DEFINE InIt(i) == WordsFullyInside(Words, i, selected)
           K       == Complement(Removed, Bound)
           good    == {i \in K \ dull : ClipPasses(i, InIt(i))}
           starts  == Ascending({i.start : i \in good})
           At(k)   == CHOOSE i \in good : i.start = starts[k]
           chosen  == Candidates(dull)
           n       == session.audio
           N       == Len(starts)
<1>1. chosen = [k \in 1..N |-> [source |-> At(k), words |-> InIt(At(k))]]
  BY DEF Candidates
<1>2. n \in Nat /\ Bound = Interval(0, n)
  BY DEF WordsTimed, Bound
<1>3. Sound(Removed, n)
  BY RemovedIsSound
<1>4. Apart(K) /\ Plain(K, n)
  BY <1>2, <1>3, ComplementIsApart
<1>5. \A i \in good : i \in K /\ ClipPasses(i, InIt(i))
  OBVIOUS
<1> HIDE DEF good, K
<1>6. {i.start : i \in good} \subseteq 0..n
  BY <1>4, <1>5 DEF Plain
<1>7. /\ N \in Nat /\ \A k \in 1..N : starts[k] \in {i.start : i \in good}
      /\ \A x \in {i.start : i \in good} : \E k \in 1..N : starts[k] = x
      /\ \A k, l \in 1..N : k < l => starts[k] < starts[l]
  BY <1>2, <1>6, AscendingEnumerates
<1>8. \A i, j \in good : i.start = j.start => i = j
  <2> SUFFICES ASSUME NEW i \in good, NEW j \in good, i.start = j.start PROVE i = j
    OBVIOUS
  <2>1. i = j \/ i.end < j.start \/ j.end < i.start
    BY <1>4, <1>5 DEF Apart
  <2>2. i.start \in 0..n /\ i.end \in 0..n /\ i.start < i.end /\ j.start \in 0..n /\ j.end \in 0..n /\ j.start < j.end
    BY <1>4, <1>5 DEF Plain
  <2> QED
    BY <2>1, <2>2
<1> HIDE DEF starts
<1>9. \A k \in 1..N : At(k) \in good /\ At(k).start = starts[k]
  BY <1>7
<1> HIDE DEF At, InIt, chosen, N
<1>10. Len(chosen) = N /\ \A k \in 1..N : chosen[k] = [source |-> At(k), words |-> InIt(At(k))]
  BY <1>1, <1>7
<1> DEFINE q    == [k \in 1..Len(chosen) |-> chosen[k].source]
           D(k) == DestinationOf(q, k)
<1>11. q = [k \in 1..N |-> At(k)]
  <2>1. \A k \in 1..N : chosen[k].source = At(k)
    BY <1>10
  <2> QED
    BY <1>10, <2>1
<1>12. Placed(chosen) = [k \in 1..N |->
         [source |-> chosen[k].source, words |-> chosen[k].words, destination |-> D(k)]]
  BY <1>10 DEF Placed
<1> HIDE DEF q, D
<1> DEFINE p == Placed(chosen)
<1>13. /\ Len(p) = N /\ DOMAIN p = 1..N
       /\ \A k \in 1..N : p[k].source = At(k) /\ p[k].words = InIt(At(k)) /\ p[k].destination = D(k)
  <2>1. Len(p) = N /\ DOMAIN p = 1..N
    BY <1>7, <1>12
  <2>2. \A k \in 1..N : p[k] = [source |-> chosen[k].source, words |-> chosen[k].words, destination |-> D(k)]
    BY <1>12
  <2> HIDE DEF p
  <2>3. \A k \in 1..N : chosen[k].source = At(k) /\ chosen[k].words = InIt(At(k))
    BY <1>10
  <2> QED
    BY <2>1, <2>2, <2>3
<1>14. Len(q) = N /\ DOMAIN q = 1..N /\ \A k \in 1..N : q[k] = At(k)
  BY <1>7, <1>11
<1>15. ToSet(q) = good
  <2>1. ToSet(q) = {At(k) : k \in 1..N}
    BY <1>14 DEF ToSet
  <2>2. ASSUME NEW i \in good PROVE \E k \in 1..N : At(k) = i
    <3>1. PICK k \in 1..N : starts[k] = i.start
      BY <1>7
    <3>2. At(k) \in good /\ At(k).start = i.start
      BY <1>9, <3>1
    <3> QED
      BY <1>8, <3>2
  <2> QED
    BY <1>9, <2>1, <2>2
<1>16. Apart(ToSet(q)) /\ Plain(ToSet(q), n)
  BY <1>4, <1>5, <1>15 DEF Apart, Plain
<1>17. /\ \A k \in 1..N : q[k].start = Ascending({i.start : i \in ToSet(q)})[k]
       /\ Len(Ascending({i.start : i \in ToSet(q)})) = N
  BY <1>9, <1>14, <1>15 DEF starts, N
<1>18. \A k \in 1..N :
         /\ D(k).start \in Nat /\ D(k).end \in Nat
         /\ Length(D(k)) = Length(q[k])
         /\ D(k).start = (IF k = 1 THEN 0 ELSE D(k - 1).end)
  <2>1. \A k \in 1..N :
           /\ DestinationOf(q, k).start \in Nat /\ DestinationOf(q, k).end \in Nat
           /\ Length(DestinationOf(q, k)) = Length(q[k])
           /\ DestinationOf(q, k).start = (IF k = 1 THEN 0 ELSE DestinationOf(q, k - 1).end)
    <3>1. InOrder(q, n)
      BY <1>7, <1>14, <1>16, <1>17 DEF InOrder
    <3> HIDE DEF n
    <3> QED
      BY <1>2, <1>14, <3>1, DestinationsFollow
  <2> QED
    BY <2>1 DEF D
<1> HIDE DEF p
<1>19. Laid(p)
  <2> SUFFICES ASSUME NEW k \in 1..N
               PROVE  /\ p[k].destination.start \in Nat /\ p[k].destination.end \in Nat
                      /\ Length(p[k].destination) = Length(p[k].source)
                      /\ p[k].destination.start = (IF k = 1 THEN 0 ELSE p[k - 1].destination.end)
                      /\ k > 1 => p[k - 1].source.end < p[k].source.start
    BY <1>7, <1>13 DEF Laid
  <2>1. k # 1 => k - 1 \in 1..N /\ k - 1 < k
    BY <1>7
  <2>2. p[k].destination = D(k) /\ p[k].source = At(k) /\ q[k] = At(k)
    BY <1>13, <1>14
  <2>3. k # 1 => p[k - 1].destination = D(k - 1) /\ p[k - 1].source = At(k - 1)
    BY <1>13, <2>1
  <2>4. ASSUME k # 1 PROVE At(k - 1).end < At(k).start
    <3> DEFINE i == At(k - 1)
               j == At(k)
    <3>1. i \in K /\ j \in K /\ i.start < j.start
      <4>1. i \in good /\ j \in good /\ i.start = starts[k - 1] /\ j.start = starts[k]
        BY <1>9, <2>1, <2>4
      <4>2. starts[k - 1] < starts[k]
        BY <1>7, <2>1, <2>4
      <4> QED
        BY <1>5, <4>1, <4>2
    <3> HIDE DEF i, j
    <3>2. i = j \/ i.end < j.start \/ j.end < i.start
      BY <1>4, <3>1 DEF Apart
    <3>3. i.start \in 0..n /\ i.end \in 0..n /\ i.start < i.end /\ j.start \in 0..n /\ j.end \in 0..n /\ j.start < j.end
      BY <1>4, <3>1 DEF Plain
    <3>4. i.end < j.start
      BY <3>1, <3>2, <3>3
    <3> QED
      BY <3>4 DEF i, j
  <2>5. k > 1 => k # 1
    OBVIOUS
  <2> QED
    BY <1>18, <2>2, <2>3, <2>4, <2>5
<1>20. ASSUME NEW c \in ToSet(p)
       PROVE  c.source \in K /\ c.words = InIt(c.source)
  <2>1. PICK k \in 1..N : c = p[k]
    BY <1>13 DEF ToSet
  <2> QED
    BY <1>5, <1>9, <1>13, <2>1
<1>21. ASSUME NEW k \in 1..N PROVE ClipPasses(p[k].source, p[k].words)
  BY <1>5, <1>9, <1>13
<1>22. Total(p) = Total(chosen)
  <2>1. Len(p) = Len(chosen) /\ \A k \in 1..Len(chosen) : p[k].source = chosen[k].source
    BY <1>10, <1>13
  <2>2. [k \in 1..Len(p) |-> DurationMs(Length(p[k].source))]
          = [k \in 1..Len(chosen) |-> DurationMs(Length(chosen[k].source))]
    BY <2>1
  <2> QED
    BY <2>1, <2>2 DEF Total
<1>23. chosen # <<>> => Len(p) > 0
  <2>1. ASSUME N = 0 PROVE chosen = <<>>
    <3>1. chosen = [k \in 1..0 |-> [source |-> At(k), words |-> InIt(At(k))]]
      BY <1>1, <2>1 DEF N
    <3>2. chosen \in Seq({}) /\ Len(chosen) = 0
      BY <3>1
    <3> QED
      BY <3>2, EmptySeq
  <2> QED
    BY <1>7, <1>13, <2>1
<1> QED
  BY <1>13, <1>19, <1>20, <1>21, <1>22, <1>23 DEF InIt, chosen, p, K

-----------------------------------------------------------------------------
\* The renumbered words.

\* Words that can be used do not overlap.
LEMMA WordsApart ==
  ASSUME WordsGiven, WordsTimed, ~AlignmentUnusable(Words)
  PROVE  \A i, j \in 1..Len(Words) : i < j => Words[i].end <= Words[j].start
<1> SUFFICES ASSUME NEW i \in 1..Len(Words), NEW j \in 1..Len(Words), i < j
             PROVE  Words[i].end <= Words[j].start
  OBVIOUS
<1>1. Len(Words) \in Nat
  BY WordPositions
<1>2. i + 1 \in 1..Len(Words) /\ i + 1 <= j /\ i + 1 # 1 /\ (i + 1) - 1 = i
  BY <1>1
<1>3. Words[i + 1].start <= Words[j].start
  BY <1>2, WordsInOrder
<1>4. ~(Words[i + 1].start < Words[i].end)
  BY <1>2 DEF AlignmentUnusable
<1>5. Words[i].end \in Nat /\ Words[i + 1].start \in Nat /\ Words[j].start \in Nat
  BY <1>2 DEF WordsTimed
<1> QED
  BY <1>3, <1>4, <1>5

\* The words of a clip are in order and do not overlap.
LEMMA ClipWordsInOrder ==
  ASSUME WordsGiven, WordsTimed, ~AlignmentUnusable(Words), NEW i, NEW excluded
  PROVE  LET W == WordsFullyInside(Words, i, excluded)
         IN  /\ Len(W) \in Nat
             /\ \A k \in 1..Len(W) : /\ W[k].start \in Nat /\ W[k].end \in Nat
                                     /\ i.start <= W[k].start /\ W[k].end <= i.end
                                     /\ {"id", "start", "end"} \subseteq DOMAIN W[k]
             /\ \A k, l \in 1..Len(W) : k < l => W[k].end <= W[l].start
<1> DEFINE S == {k \in 1..Len(Words) :
                  /\ Words[k].id \notin excluded
                  /\ i.start <= Words[k].start /\ Words[k].end <= i.end}
           A == Ascending(S)
           W == WordsFullyInside(Words, i, excluded)
<1>1. W = [k \in 1..Len(A) |-> Words[A[k]]]
  BY DEF WordsFullyInside
<1>2. Len(Words) \in Nat /\ S \subseteq 0..Len(Words)
  BY WordPositions
<1>3. /\ Len(A) \in Nat
      /\ \A k \in 1..Len(A) : A[k] \in S
      /\ \A k, l \in 1..Len(A) : k < l => A[k] < A[l]
  <2> HIDE DEF S
  <2> QED
    BY <1>2, AscendingEnumerates
<1> HIDE DEF A, W
<1>4. Len(W) = Len(A) /\ \A k \in 1..Len(A) : W[k] = Words[A[k]]
  BY <1>1, <1>3
<1>5. \A x \in S : /\ x \in 1..Len(Words) /\ Words[x].start \in Nat /\ Words[x].end \in Nat
                   /\ i.start <= Words[x].start /\ Words[x].end <= i.end
                   /\ {"id", "start", "end"} \subseteq DOMAIN Words[x]
  BY DEF WordsTimed
<1> HIDE DEF S
<1>6. \A k, l \in 1..Len(A) : k < l => Words[A[k]].end <= Words[A[l]].start
  BY <1>3, <1>5, WordsApart
<1>7. ASSUME NEW k \in 1..Len(W)
      PROVE  /\ W[k].start \in Nat /\ W[k].end \in Nat
             /\ i.start <= W[k].start /\ W[k].end <= i.end
             /\ {"id", "start", "end"} \subseteq DOMAIN W[k]
  <2>1. A[k] \in S /\ W[k] = Words[A[k]]
    BY <1>3, <1>4
  <2> QED
    BY <1>5, <2>1
<1>8. Len(W) \in Nat /\ \A k, l \in 1..Len(W) : k < l => W[k].end <= W[l].start
  BY <1>3, <1>4, <1>6
<1> QED
  BY <1>7, <1>8 DEF W

\* The words of a clip lie in its place, one after another.
Filled(c) ==
  /\ c.source.start \in Nat /\ c.source.end \in Nat /\ c.source.start <= c.source.end
  /\ Len(c.words) \in Nat
  /\ \A k \in 1..Len(c.words) : /\ c.words[k].start \in Nat /\ c.words[k].end \in Nat
                                /\ c.source.start <= c.words[k].start /\ c.words[k].end <= c.source.end
                                /\ {"id", "start", "end"} \subseteq DOMAIN c.words[k]
  /\ \A k, l \in 1..Len(c.words) : k < l => c.words[k].end <= c.words[l].start

LEMMA LaidForward ==
  ASSUME NEW q, Laid(q), \A n \in 1..Len(q) : Filled(q[n]), NEW n \in 1..Len(q)
  PROVE  q[n].destination.start <= q[n].destination.end
<1> DEFINE d == q[n].destination
           s == q[n].source
<1>1. d.start \in Nat /\ d.end \in Nat /\ Length(d) = Length(s)
  BY DEF Laid
<1>2. s.start \in Nat /\ s.end \in Nat /\ s.start <= s.end
  BY DEF Filled
<1> HIDE DEF d, s
<1>3. d.end - d.start = s.end - s.start
  BY <1>1 DEF Length
<1>4. d.start <= d.end
  BY <1>1, <1>2, <1>3
<1> QED
  BY <1>4 DEF d

\* A clip ends on the spliced timeline before a later one begins.
LEMMA LaidInOrder ==
  ASSUME NEW q, Laid(q), \A n \in 1..Len(q) : Filled(q[n])
  PROVE  \A m, n \in 1..Len(q) : m < n => q[m].destination.end <= q[n].destination.start
<1> SUFFICES ASSUME NEW m \in 1..Len(q)
             PROVE  \A n \in 1..Len(q) : m < n => q[m].destination.end <= q[n].destination.start
  OBVIOUS
<1>1. /\ Len(q) \in Nat
      /\ \A n \in 1..Len(q) :
           /\ q[n].destination.start \in Nat /\ q[n].destination.end \in Nat
           /\ q[n].destination.start = (IF n = 1 THEN 0 ELSE q[n - 1].destination.end)
  BY DEF Laid
<1>2. \A n \in 1..Len(q) : q[n].destination.start <= q[n].destination.end
  BY LaidForward
<1> DEFINE Bad == {n \in 1..Len(q) : m < n /\ ~(q[m].destination.end <= q[n].destination.start)}
<1>3. ASSUME Bad # {} PROVE FALSE
  <2>1. PICK n \in Bad : \A k \in Bad : n <= k
    <3>1. Bad \subseteq Nat
      OBVIOUS
    <3> HIDE DEF Bad
    <3> QED
      BY <1>3, <3>1, SmallestExists
  <2>2. n \in 1..Len(q) /\ m < n /\ ~(q[m].destination.end <= q[n].destination.start) /\ n # 1
    BY <1>1, <2>1
  <2>3. n - 1 \in 1..Len(q) /\ ~(n <= n - 1) /\ (n - 1 = m \/ m < n - 1)
    BY <1>1, <2>2
  <2>4. q[n].destination.start = q[n - 1].destination.end
    BY <1>1, <2>2
  <2>5. CASE n - 1 = m
    BY <1>1, <2>2, <2>4, <2>5
  <2>6. CASE m < n - 1
    <3>1. q[m].destination.end <= q[n - 1].destination.start
      BY <2>1, <2>3, <2>6
    <3>2. q[n - 1].destination.start <= q[n - 1].destination.end
      BY <1>2, <2>3
    <3>3. /\ q[n - 1].destination.start \in Nat /\ q[n - 1].destination.end \in Nat
          /\ q[m].destination.end \in Nat /\ q[n].destination.start \in Nat
      BY <1>1, <2>2, <2>3
    <3> QED
      BY <2>2, <2>4, <3>1, <3>2, <3>3
  <2> QED
    BY <2>3, <2>5, <2>6
<1> QED
  BY <1>3

\* Put end to end, the words stay in order and inside.
LEMMA RenumberedInOrder ==
  ASSUME NEW q, Laid(q), \A n \in 1..Len(q) : Filled(q[n])
  PROVE  LET words == Renumbered(q) IN
         \A i \in 1..Len(words) :
           /\ words[i].end <= Last(q).destination.end
           /\ i > 1 => words[i - 1].end <= words[i].start
<1> DEFINE N      == Len(q)
           counts == [n \in 1..Len(q) |-> Len(q[n].words)]
           before == Accumulated(counts)
           ClipOf(i) == CHOOSE n \in 1..Len(q) : before[n - 1] < i /\ i <= before[n]
           Moved(w, c, id) == [w EXCEPT !.id = id,
                                        !.start = @ - c.source.start + c.destination.start,
                                        !.end   = @ - c.source.start + c.destination.start]
           Nth(i) == q[ClipOf(i)].words[i - before[ClipOf(i) - 1]]
           words  == Renumbered(q)
<1>1. words = [i \in 1..before[N] |-> Moved(Nth(i), q[ClipOf(i)], i - 1)]
  BY DEF Renumbered
<1>2. N \in Nat /\ Len(counts) = N /\ \A n \in 1..N : counts[n] = Len(q[n].words) /\ counts[n] \in Nat
  BY DEF Laid, Filled
<1> HIDE DEF counts
<1>3. /\ before[0] = 0
      /\ \A n \in 1..N : before[n] = before[n - 1] + Len(q[n].words)
      /\ \A n \in 0..N : before[n] \in Nat
      /\ \A m, n \in 0..N : m <= n => before[m] <= before[n]
      /\ \A i \in 1..before[N] : \E n \in 1..N : before[n - 1] < i /\ i <= before[n]
  <2>0. Len(counts) \in Nat /\ \A n \in 1..Len(counts) : counts[n] \in Nat
    BY <1>2
  <2>1. /\ before[0] = 0 /\ \A n \in 1..Len(counts) : before[n] = before[n - 1] + counts[n]
        /\ \A n \in 0..Len(counts) : before[n] \in Nat
    BY <2>0, RunningTotals
  <2>2. \A m, n \in 0..Len(counts) : m <= n => before[m] <= before[n]
    BY <2>0, RunningGrows
  <2>3. \A i \in 1..before[Len(counts)] : \E n \in 1..Len(counts) : before[n - 1] < i /\ i <= before[n]
    BY <2>0, RunningFinds
  <2> HIDE DEF N, before
  <2> QED
    BY <1>2, <2>1, <2>2, <2>3
<1> HIDE DEF before, words
<1>4. Len(words) = before[N] /\ \A i \in 1..before[N] : words[i] = Moved(Nth(i), q[ClipOf(i)], i - 1)
  <2>1. before[N] \in Nat
    BY <1>2, <1>3
  <2> HIDE DEF Moved, Nth, ClipOf, N
  <2> QED
    BY <1>1, <2>1
\* Where a word goes.
<1>5. ASSUME NEW i \in 1..before[N]
      PROVE  /\ ClipOf(i) \in 1..N
             /\ before[ClipOf(i) - 1] < i /\ i <= before[ClipOf(i)]
             /\ i - before[ClipOf(i) - 1] \in 1..Len(q[ClipOf(i)].words)
  <2>1. ClipOf(i) \in 1..N /\ before[ClipOf(i) - 1] < i /\ i <= before[ClipOf(i)]
    BY <1>3
  <2> DEFINE n == ClipOf(i)
  <2> HIDE DEF n
  <2>2. n \in 1..N /\ before[n - 1] < i /\ i <= before[n]
    BY <2>1 DEF n
  <2>3. n - 1 \in 0..N /\ n \in 0..N
    BY <1>2, <2>2
  <2>4. before[n] = before[n - 1] + Len(q[n].words) /\ before[n - 1] \in Nat /\ before[n] \in Nat
    BY <1>3, <2>2, <2>3
  <2>5. i \in Nat /\ Len(q[n].words) \in Nat
    <3>1. before[N] \in Nat
      BY <1>2, <1>3
    <3> QED
      BY <2>2, <3>1 DEF Filled
  <2>6. i - before[n - 1] \in 1..Len(q[n].words)
    BY <2>2, <2>4, <2>5
  <2> QED
    BY <2>2, <2>6 DEF n
<1> HIDE DEF ClipOf
<1>6. ASSUME NEW i \in 1..before[N]
      PROVE  LET c == q[ClipOf(i)] IN
             /\ words[i].start = Nth(i).start - c.source.start + c.destination.start
             /\ words[i].end = Nth(i).end - c.source.start + c.destination.start
             /\ Nth(i).start \in Nat /\ Nth(i).end \in Nat /\ c.source.start \in Nat /\ c.source.end \in Nat
             /\ c.destination.start \in Nat /\ c.destination.end \in Nat
             /\ c.source.start <= Nth(i).start /\ Nth(i).end <= c.source.end
             /\ c.destination.end = c.destination.start + c.source.end - c.source.start
  <2> DEFINE c == q[ClipOf(i)]
             w == Nth(i)
  <2>1. /\ w.start \in Nat /\ w.end \in Nat /\ c.source.start <= w.start /\ w.end <= c.source.end
        /\ c.source.start \in Nat /\ c.source.end \in Nat /\ c.source.start <= c.source.end
        /\ {"id", "start", "end"} \subseteq DOMAIN w
    BY <1>5 DEF Filled
  <2>2. /\ c.destination.start \in Nat /\ c.destination.end \in Nat
        /\ c.destination.end - c.destination.start = c.source.end - c.source.start
    BY <1>5 DEF Laid, Length
  <2>3. words[i] = Moved(w, c, i - 1)
    BY <1>4
  <2> HIDE DEF w, c
  <2>4. /\ words[i].start = w.start - c.source.start + c.destination.start
        /\ words[i].end = w.end - c.source.start + c.destination.start
    BY <2>1, <2>3
  <2>5. c.destination.end = c.destination.start + c.source.end - c.source.start
    BY <2>1, <2>2
  <2> QED
    BY <2>1, <2>2, <2>4, <2>5 DEF w, c
<1>7. \A i \in 1..before[N] : 
        /\ words[i].end <= q[ClipOf(i)].destination.end
        /\ q[ClipOf(i)].destination.start <= words[i].start
        /\ words[i].start \in Nat /\ words[i].end \in Int
  <2> SUFFICES ASSUME NEW i \in 1..before[N]
               PROVE  /\ words[i].end <= q[ClipOf(i)].destination.end
                      /\ q[ClipOf(i)].destination.start <= words[i].start
                      /\ words[i].start \in Nat /\ words[i].end \in Int
    OBVIOUS
  <2> DEFINE c == q[ClipOf(i)]
             w == Nth(i)
  <2>1. /\ words[i].start = w.start - c.source.start + c.destination.start
        /\ words[i].end = w.end - c.source.start + c.destination.start
        /\ w.start \in Nat /\ w.end \in Nat /\ c.source.start \in Nat /\ c.source.end \in Nat
        /\ c.destination.start \in Nat /\ c.destination.end \in Nat
        /\ c.source.start <= w.start /\ w.end <= c.source.end
        /\ c.destination.end = c.destination.start + c.source.end - c.source.start
    BY <1>6
  <2> HIDE DEF w, c
  <2>2. words[i].end <= c.destination.end /\ words[i].end \in Int
    BY <2>1
  <2>3. c.destination.start <= words[i].start /\ words[i].start \in Nat
    BY <2>1
  <2> QED
    BY <2>2, <2>3 DEF c
<1> SUFFICES ASSUME NEW i \in 1..before[N]
             PROVE  /\ words[i].end <= Last(q).destination.end
                    /\ i > 1 => words[i - 1].end <= words[i].start
  BY <1>4 DEF words
<1>8. before[N] \in Nat /\ i \in Nat
  BY <1>2, <1>3
<1>9. words[i].end <= Last(q).destination.end
  <2> DEFINE n == ClipOf(i)
  <2> HIDE DEF n
  <2>1. n \in 1..N /\ words[i].end <= q[n].destination.end /\ words[i].end \in Int
    BY <1>5, <1>7 DEF n
  <2>2. N \in 1..N /\ Last(q) = q[N]
    BY <1>2, <2>1 DEF Last
  <2>3. q[n].destination.end \in Nat /\ q[N].destination.end \in Nat /\ q[N].destination.start \in Nat
        /\ q[N].destination.start <= q[N].destination.end
    <3>1. q[n].destination.end \in Nat /\ q[N].destination.end \in Nat /\ q[N].destination.start \in Nat
      BY <2>1, <2>2 DEF Laid
    <3>2. q[N].destination.start <= q[N].destination.end
      BY <2>2, LaidForward
    <3> QED
      BY <3>1, <3>2
  <2>4. CASE n = N
    BY <2>1, <2>2, <2>4
  <2>5. CASE n # N
    <3>1. n < N
      BY <1>2, <2>1, <2>5
    <3>2. q[n].destination.end <= q[N].destination.start
      BY <2>1, <2>2, <3>1, LaidInOrder
    <3> QED
      BY <2>1, <2>2, <2>3, <3>2
  <2> QED
    BY <2>4, <2>5
<1>10. ASSUME i > 1 PROVE words[i - 1].end <= words[i].start
  <2> DEFINE m == ClipOf(i - 1)
             n == ClipOf(i)
             k == i - before[n - 1]
  <2>1. i - 1 \in 1..before[N]
    BY <1>8, <1>10
  <2>2. /\ m \in 1..N /\ before[m - 1] < i - 1 /\ i - 1 <= before[m]
        /\ n \in 1..N /\ before[n - 1] < i /\ i <= before[n]
    BY <1>5, <2>1
  <2> HIDE DEF m, n
  <2>3. m - 1 \in 0..N /\ n - 1 \in 0..N /\ n \in 0..N /\ m \in 0..N
    BY <1>2, <2>2
  <2>4. before[m - 1] \in Nat /\ before[n - 1] \in Nat /\ before[n] \in Nat /\ before[m] \in Nat
    BY <1>3, <2>3
  <2>5. ~(n < m)
    <3> SUFFICES ASSUME n < m PROVE FALSE
      OBVIOUS
    <3>1. n <= m - 1
      BY <2>2
    <3>2. before[n] <= before[m - 1]
      BY <1>3, <2>3, <3>1
    <3> QED
      BY <1>8, <2>2, <2>4, <3>2
  <2>6. /\ words[i - 1].end <= q[m].destination.end /\ q[n].destination.start <= words[i].start
        /\ words[i - 1].end \in Int /\ words[i].start \in Nat
    BY <1>7, <2>1 DEF m, n
  <2>7. CASE m < n
    <3>1. q[m].destination.end <= q[n].destination.start
      BY <2>2, <2>7, LaidInOrder
    <3>2. q[m].destination.end \in Nat /\ q[n].destination.start \in Nat
      BY <2>2 DEF Laid
    <3> QED
      BY <2>6, <3>1, <3>2
  <2>8. CASE m = n
    <3> DEFINE c == q[n]
               u == c.words[(i - 1) - before[n - 1]]
               v == c.words[i - before[n - 1]]
    <3>1. /\ (i - 1) - before[n - 1] \in 1..Len(c.words) /\ i - before[n - 1] \in 1..Len(c.words)
      BY <1>5, <2>1, <2>8 DEF m, n
    <3>2. (i - 1) - before[n - 1] < i - before[n - 1]
      BY <1>8, <2>4
    <3>3. u.end <= v.start
      BY <2>2, <3>1, <3>2 DEF Filled
    <3>4. Nth(i - 1) = u /\ Nth(i) = v
      BY <2>8 DEF m, n
    <3>5. /\ words[i - 1].end = u.end - c.source.start + c.destination.start
          /\ u.end \in Nat /\ c.source.start \in Nat /\ c.destination.start \in Nat
      BY <1>6, <2>1, <2>8, <3>4 DEF m, n
    <3>6. words[i].start = v.start - c.source.start + c.destination.start /\ v.start \in Nat
      BY <1>6, <3>4 DEF n
    <3> HIDE DEF u, v, c
    <3> QED
      BY <3>3, <3>5, <3>6
  <2>9. m < n \/ m = n
    BY <2>2, <2>5
  <2> QED
    BY <2>7, <2>8, <2>9
<1> QED
  BY <1>9, <1>10

-----------------------------------------------------------------------------
\* What the invariants speak of is given by the session, the answers and the
\* selection.
LEMMA SameSession ==
  ASSUME UNCHANGED session
  PROVE  /\ Words' = Words /\ WordsTimed' = WordsTimed /\ Bound' = Bound
         /\ AlignmentUnusable(Words)' = AlignmentUnusable(Words)
<1>1. Words' = Words /\ Bound' = Bound
  BY DEF Words, Bound
<1>2. WordsTimed' = WordsTimed
  BY <1>1 DEF WordsTimed
<1>3. AlignmentUnusable(Words)' = AlignmentUnusable(Words)
  BY <1>1 DEF AlignmentUnusable
<1> QED
  BY <1>1, <1>2, <1>3

LEMMA SameTaint ==
  ASSUME UNCHANGED <<session, answers>>
  PROVE  Tainted' = Tainted
<1>1. Words' = Words
  BY DEF Words
<1>2. \A id : Named(id)' = Named(id)
  BY <1>1 DEF Named
<1> QED
  BY <1>1, <1>2 DEF Tainted

LEMMA SameRemoval ==
  ASSUME UNCHANGED <<session, selected, whole>>
  PROVE  Removed' = Removed
<1>1. Words' = Words /\ Bound' = Bound
  BY DEF Words, Bound
<1> QED
  BY <1>1 DEF Removed

-----------------------------------------------------------------------------
\* The clips, whatever the settings.

LEMMA ClipsStart == (\E s \in Transcripts : CopyInit(s)) => ClipsInv
<1> SUFFICES ASSUME NEW s \in Transcripts, CopyInit(s) PROVE ClipsInv
  OBVIOUS
<1>1. session = s /\ stage \in {"rejected", "windowing"}
  BY DEF CopyInit, AnalysisInit
<1>2. WordsTimed
  BY <1>1, TranscriptsAssumption DEF WordsTimed, Words
<1> QED
  BY <1>1, <1>2 DEF ClipsInv, Planned, Ready

\* A step that makes no clips and lets none pass.
LEMMA ClipsStay ==
  ASSUME ClipsInv, UNCHANGED <<session, selected, whole, clips>>, Planned' => Planned,
         (stage = "rechecking" \/ Ready)' => (stage = "rechecking" \/ Ready), Ready' => Ready
  PROVE  ClipsInv'
<1>1. /\ Words' = Words /\ WordsTimed' = WordsTimed /\ Bound' = Bound
      /\ AlignmentUnusable(Words)' = AlignmentUnusable(Words) /\ Removed' = Removed
  BY SameSession, SameRemoval
<1>2. Laid(clips)' = Laid(clips)
  BY DEF Laid
<1>3. NoRemovedAudio(clips)' = NoRemovedAudio(clips)
  BY <1>1 DEF NoRemovedAudio
<1>4. WordsTimed' /\ (Planned' => ~AlignmentUnusable(Words)') /\ (Ready' => NoRemovedAudio(clips)')
  BY <1>1, <1>3 DEF ClipsInv
<1>5. ASSUME (stage = "rechecking" \/ Ready)'
      PROVE  /\ \A c \in ToSet(clips') :
                  /\ c.source \in Complement(Removed', Bound')
                  /\ c.words = WordsFullyInside(Words', c.source, selected')
             /\ Laid(clips)'
  BY <1>1, <1>2, <1>5 DEF ClipsInv
<1> QED
  BY <1>4, <1>5 DEF ClipsInv

\* A step after which there are no clips yet.
LEMMA NoClipsYet ==
  ASSUME WordsTimed, UNCHANGED session, ~(stage = "rechecking" \/ Ready)',
         Planned' => ~AlignmentUnusable(Words)
  PROVE  ClipsInv'
<1>1. WordsTimed' /\ (Planned' => ~AlignmentUnusable(Words)')
  BY SameSession
<1> QED
  BY <1>1 DEF ClipsInv

LEMMA CutLays ==
  ASSUME WordsGiven, ClipsInv, NEW dull, CutClips(dull)
  PROVE  ClipsInv'
<1>1. /\ stage = "cutting" /\ UNCHANGED <<session, selected, whole>>
      /\ stage' \in {"rechecking", "rejected"}
      /\ stage' = "rechecking" => clips' = Placed(Candidates(dull))
  BY DEF CutClips, Reject
<1>2. /\ Words' = Words /\ WordsTimed' = WordsTimed /\ Bound' = Bound
      /\ AlignmentUnusable(Words)' = AlignmentUnusable(Words) /\ Removed' = Removed
  BY <1>1, SameSession, SameRemoval
<1>3. WordsTimed /\ ~AlignmentUnusable(Words)
  BY <1>1 DEF ClipsInv, Planned
<1>4. ASSUME stage' = "rechecking"
      PROVE  /\ \A c \in ToSet(clips') :
                  /\ c.source \in Complement(Removed, Bound)
                  /\ c.words = WordsFullyInside(Words, c.source, selected)
             /\ Laid(clips')
  BY <1>1, <1>3, <1>4, CandidatesLeft
<1>5. ASSUME stage' = "rechecking" \/ Ready'
      PROVE  /\ \A c \in ToSet(clips') :
                  /\ c.source \in Complement(Removed', Bound')
                  /\ c.words = WordsFullyInside(Words', c.source, selected')
             /\ Laid(clips')
  BY <1>1, <1>2, <1>4, <1>5 DEF Ready
<1>6. ~Ready'
  BY <1>1 DEF Ready
<1> QED
  BY <1>2, <1>3, <1>5, <1>6 DEF ClipsInv

LEMMA RecheckLays ==
  ASSUME ClipsInv, NEW verdict, Recheck(verdict)
  PROVE  ClipsInv'
<1>1. /\ stage = "rechecking" /\ UNCHANGED <<session, selected, whole>>
      /\ stage' = "rejected" \/ (stage' = "eligible" /\ NoRemovedAudio(clips) /\ clips' = clips)
  BY DEF Recheck, Reject
<1>2. CASE stage' = "rejected"
  BY <1>1, <1>2, NoClipsYet DEF ClipsInv, Planned, Ready
<1>3. CASE stage' = "eligible" /\ NoRemovedAudio(clips) /\ clips' = clips
  <2>1. /\ Words' = Words /\ WordsTimed' = WordsTimed /\ Bound' = Bound
        /\ AlignmentUnusable(Words)' = AlignmentUnusable(Words) /\ Removed' = Removed
    BY <1>1, SameSession, SameRemoval
  <2>2. NoRemovedAudio(clips)'
    BY <1>3, <2>1 DEF NoRemovedAudio
  <2>3. Laid(clips)'
    BY <1>1, <1>3 DEF ClipsInv, Laid
  <2>4. WordsTimed' /\ ~AlignmentUnusable(Words)'
    BY <1>1, <2>1 DEF ClipsInv, Planned
  <2>5. \A c \in ToSet(clips') :
          /\ c.source \in Complement(Removed', Bound')
          /\ c.words = WordsFullyInside(Words', c.source, selected')
    BY <1>1, <1>3, <2>1 DEF ClipsInv
  <2> QED
    BY <2>2, <2>3, <2>4, <2>5 DEF ClipsInv
<1> QED
  BY <1>1, <1>2, <1>3

\* What is delivered is what was built.
LEMMA DeliverKeeps ==
  ASSUME Deliver
  PROVE  /\ UNCHANGED <<session, answers, spans, selected, whole, clips>>
         /\ Ready /\ stage' \in {"packed", "rejected", "sent", "admitted", "refused"}
<1>1. ASSUME NEW harmed, NEW early, Transfer(harmed, early)
      PROVE  /\ UNCHANGED <<session, answers, spans, selected, whole, clips>>
             /\ Ready /\ stage' = "sent"
  BY <1>1 DEF Transfer, datasetVars, Ready
<1>2. ASSUME Pack
      PROVE  /\ UNCHANGED <<session, answers, spans, selected, whole, clips>>
             /\ Ready /\ stage' \in {"packed", "rejected"}
  BY <1>2 DEF Pack, Reject, datasetVars, Ready
<1>3. ASSUME Admit
      PROVE  /\ UNCHANGED <<session, answers, spans, selected, whole, clips>>
             /\ Ready /\ stage' \in {"admitted", "refused"}
  BY <1>3 DEF Admit, datasetVars, Ready
<1> QED
  BY <1>1, <1>2, <1>3 DEF Deliver

LEMMA ClipsSteps == WindowsInv /\ ClipsInv /\ [CopyNext]_copyVars => ClipsInv'
<1> SUFFICES ASSUME WindowsInv, ClipsInv, [CopyNext]_copyVars PROVE ClipsInv'
  OBVIOUS
<1>1. WordsGiven /\ WordsTimed
  BY DEF WindowsInv, ClipsInv
<1>2. CASE NextWindow
  <2>1. UNCHANGED session /\ stage' \in {"windowing", "classifying", "rejected"}
    BY <1>2 DEF NextWindow
  <2> QED
    BY <1>1, <2>1, NoClipsYet DEF Planned, Ready
<1>3. ASSUME NEW output, Classify(output) PROVE ClipsInv'
  <2>1. UNCHANGED session /\ stage' \in {"classifying", "planning", "rejected"}
    BY <1>3 DEF Classify
  <2> QED
    BY <1>1, <2>1, NoClipsYet DEF Planned, Ready
<1>4. CASE PlanRemovals
  <2>1. UNCHANGED session /\ stage' \in {"growing", "cutting"} /\ ~AlignmentUnusable(Words)
    BY <1>4 DEF PlanRemovals
  <2> QED
    BY <1>1, <2>1, NoClipsYet DEF Ready
<1>5. CASE RefusePlan
  <2>1. UNCHANGED session /\ stage' = "rejected"
    BY <1>5 DEF RefusePlan, Reject
  <2> QED
    BY <1>1, <2>1, NoClipsYet DEF Planned, Ready
<1>6. CASE GrowRemovals
  <2>1. stage = "growing" /\ UNCHANGED session /\ stage' \in {"growing", "cutting"}
    BY <1>6 DEF GrowRemovals
  <2>2. ~AlignmentUnusable(Words)
    BY <2>1 DEF ClipsInv, Planned
  <2> QED
    BY <1>1, <2>1, <2>2, NoClipsYet DEF Ready
<1>7. ASSUME NEW dull, CutClips(dull) PROVE ClipsInv'
  BY <1>1, <1>7, CutLays
<1>8. ASSUME NEW verdict, Recheck(verdict) PROVE ClipsInv'
  BY <1>8, RecheckLays
<1>9. CASE Deliver
  <2>1. /\ UNCHANGED <<session, selected, whole, clips>> /\ Ready
        /\ stage' \in {"packed", "rejected", "sent", "admitted", "refused"}
    BY <1>9, DeliverKeeps
  <2>2. Planned /\ stage' # "rechecking"
    BY <2>1 DEF Planned, Ready
  <2> QED
    BY <2>1, <2>2, ClipsStay
<1>10. CASE UNCHANGED copyVars
  <2>1. UNCHANGED <<session, selected, whole, clips, stage>>
    BY <1>10 DEF copyVars, analysisVars, datasetVars
  <2> QED
    BY <2>1, ClipsStay DEF Planned, Ready
<1> QED
  BY <1>2, <1>3, <1>4, <1>5, <1>6, <1>7, <1>8, <1>9, <1>10 DEF CopyNext, Analyze, BuildDataset

\* The clips hold their words.
LEMMA ClipsAreFilled ==
  ASSUME WordsGiven, ClipsInv, stage = "rechecking" \/ Ready
  PROVE  \A n \in 1..Len(clips) : Filled(clips[n])
<1> SUFFICES ASSUME NEW n \in 1..Len(clips) PROVE Filled(clips[n])
  OBVIOUS
<1> DEFINE c == clips[n]
           W == WordsFullyInside(Words, c.source, selected)
<1>1. Planned
  BY DEF Planned, Ready
<1>2. WordsTimed /\ ~AlignmentUnusable(Words) /\ session.audio \in Nat /\ Bound = Interval(0, session.audio)
  BY <1>1 DEF ClipsInv, WordsTimed, Bound
<1>3. c.source \in Complement(Removed, Bound) /\ c.words = W
  <2>1. c \in ToSet(clips)
    BY DEF ToSet, ClipsInv, Laid
  <2> HIDE DEF c
  <2> QED
    BY <2>1 DEF ClipsInv
<1> HIDE DEF c, W
<1>4. c.source.start \in Nat /\ c.source.end \in Nat /\ c.source.start <= c.source.end
  <2>1. Sound(Removed, session.audio)
    BY <1>2, RemovedIsSound
  <2>2. c.source.start \in 0..session.audio /\ c.source.end \in 0..session.audio /\ c.source.start < c.source.end
    BY <1>2, <1>3, <2>1, ComplementEdges
  <2> QED
    BY <2>2
<1>5. /\ Len(W) \in Nat
      /\ \A k \in 1..Len(W) : /\ W[k].start \in Nat /\ W[k].end \in Nat
                              /\ c.source.start <= W[k].start /\ W[k].end <= c.source.end
                              /\ {"id", "start", "end"} \subseteq DOMAIN W[k]
      /\ \A k, l \in 1..Len(W) : k < l => W[k].end <= W[l].start
  BY <1>2, ClipWordsInOrder DEF W
<1> QED
  BY <1>3, <1>4, <1>5 DEF Filled, c

\* The clips lie end to end on the spliced timeline, in their order and with their lengths, and
\* the words the recheck judges are in order and inside it (DestinationMap::build,
\* renumbered_transcript), for every transcript, every answer and all settings.
THEOREM ClipsLieEndToEnd == CopySpec => []TimelineExact
<1>1. (\E s \in Transcripts : CopyInit(s)) => WindowsInv /\ AnswersInv /\ ClipsInv
  BY CopyStarts, ClipsStart
<1>2. WindowsInv /\ AnswersInv /\ ClipsInv /\ [CopyNext]_copyVars
        => WindowsInv' /\ AnswersInv' /\ ClipsInv'
  BY CopySteps, ClipsSteps
<1>3. WindowsInv /\ AnswersInv /\ ClipsInv => TimelineExact
  <2> SUFFICES ASSUME WindowsInv, ClipsInv, Ready \/ stage = "rechecking"
               PROVE  /\ \A n \in 1..Len(clips) :
                           /\ Length(clips[n].destination) = Length(clips[n].source)
                           /\ clips[n].destination.start = (IF n = 1 THEN 0 ELSE clips[n - 1].destination.end)
                           /\ n > 1 => clips[n - 1].source.end < clips[n].source.start
                      /\ LET words == Renumbered(clips) IN
                         \A i \in 1..Len(words) :
                           /\ words[i].end <= Last(clips).destination.end
                           /\ i > 1 => words[i - 1].end <= words[i].start
    BY DEF TimelineExact
  <2>1. Laid(clips)
    BY DEF ClipsInv
  <2>2. \A n \in 1..Len(clips) : Filled(clips[n])
    BY ClipsAreFilled DEF WindowsInv
  <2> QED
    BY <2>1, <2>2, RenumberedInOrder DEF Laid
<1> QED
  BY <1>1, <1>2, <1>3, PTL DEF CopySpec

-----------------------------------------------------------------------------
\* The removal.

RemovalInv == SpansInv /\ SelectInv

LEMMA RemovalStarts == (\E s \in Transcripts : CopyInit(s)) => RemovalInv
<1> SUFFICES ASSUME NEW s \in Transcripts, CopyInit(s) PROVE RemovalInv
  OBVIOUS
<1>1. /\ session = s /\ answers = <<>> /\ spans = Detect(s.words)
      /\ stage \in {"rejected", "windowing"}
  BY DEF CopyInit, AnalysisInit
<1>2. SpansInv
  BY <1>1 DEF SpansInv, Words
<1>3. SelectInv
  BY <1>1 DEF SelectInv, Planned
<1> QED
  BY <1>2, <1>3 DEF RemovalInv

\* A step that leaves the spans and the selection alone.
LEMMA RemovalStays ==
  ASSUME RemovalInv, UNCHANGED <<session, answers, spans, selected, whole>>,
         stage' # "rejected" => stage # "rejected", Planned' => Planned,
         Planned' /\ stage' # "growing" => stage # "growing"
  PROVE  RemovalInv'
<1>1. Words' = Words /\ Tainted' = Tainted /\ Removed' = Removed
  BY SameSession, SameTaint, SameRemoval
<1>2. SpansInv'
  BY <1>1 DEF RemovalInv, SpansInv
<1>3. SelectInv'
  BY <1>1 DEF RemovalInv, SelectInv
<1> QED
  BY <1>2, <1>3 DEF RemovalInv

LEMMA ClassifySpans ==
  ASSUME RemovalInv, AnswersInv, NEW output, Classify(output)
  PROVE  RemovalInv'
<1> DEFINE n == Len(answers)
           valid == ValidOutput(output, ShownIds(windows[Len(answers')]))
<1>1. /\ stage = "classifying" /\ answers' = Append(answers, output) /\ session' = session
      /\ IF valid
         THEN /\ spans' = spans \cup {ModelSpan(s) : s \in ToSet(output.spans)}
              /\ stage' \in {"planning", "classifying"}
         ELSE stage' = "rejected"
  BY DEF Classify
<1>2. Words' = Words
  BY <1>1 DEF Words
<1>3. SelectInv'
  BY <1>1 DEF SelectInv, Planned
<1>4. SpansInv'
  <2> SUFFICES ASSUME valid
               PROVE  /\ Detect(Words) \subseteq spans'
                      /\ \A k \in 1..Len(answers') : \A raw \in ToSet(answers'[k].spans) :
                           raw.first \in Nat /\ raw.past \in Nat /\ ModelSpan(raw) \in spans'
    BY <1>1, <1>2 DEF SpansInv
  <2>1. /\ spans \subseteq spans' /\ Detect(Words) \subseteq spans
        /\ \A k \in 1..n : \A raw \in ToSet(answers[k].spans) :
             raw.first \in Nat /\ raw.past \in Nat /\ ModelSpan(raw) \in spans
    BY <1>1 DEF RemovalInv, SpansInv
  <2>2. /\ n \in Nat /\ Len(answers') = n + 1 /\ answers'[n + 1] = output
        /\ \A k \in 1..n : answers'[k] = answers[k]
    <3>1. PICK S : answers \in Seq(S)
      BY DEF AnswersInv
    <3>2. answers \in Seq(S \cup {output}) /\ output \in S \cup {output}
      BY <3>1, SeqMonotonic
    <3> QED
      BY <1>1, <3>2, AppendProperties, LenProperties
  <2>3. ASSUME NEW raw \in ToSet(output.spans)
        PROVE  raw.first \in Nat /\ raw.past \in Nat /\ ModelSpan(raw) \in spans'
    <3>1. ModelSpan(raw) \in spans'
      BY <1>1
    <3>2. \E i \in 1..Len(output.spans) : raw = output.spans[i]
      BY DEF ValidOutput, ToSet
    <3> QED
      BY <3>1, <3>2 DEF ValidOutput
  <2>4. ASSUME NEW k \in 1..Len(answers'), NEW raw \in ToSet(answers'[k].spans)
        PROVE  raw.first \in Nat /\ raw.past \in Nat /\ ModelSpan(raw) \in spans'
    <3>1. CASE k = n + 1
      BY <2>2, <2>3, <3>1
    <3>2. CASE k # n + 1
      <4>1. k \in 1..n
        BY <2>2, <3>2
      <4> QED
        BY <2>1, <2>2, <4>1
    <3> QED
      BY <3>1, <3>2
  <2> QED
    BY <2>1, <2>4
<1> QED
  BY <1>3, <1>4 DEF RemovalInv

LEMMA PlanSelects ==
  ASSUME WordsGiven, WordsTimed, RemovalInv, ExpandAll \/ ~WordLevelCuts, PlanRemovals
  PROVE  RemovalInv'
<1> DEFINE first == FirstSelection(Words, spans, Sentences(Words), ExpandAll, UnusableSentences(Words))
<1>1. /\ stage = "planning" /\ ~AlignmentUnusable(Words) /\ UNCHANGED <<session, answers, spans>>
      /\ selected' = first.selected /\ whole' = first.whole
      /\ stage' = IF selected' = {} THEN "cutting" ELSE "growing"
  BY DEF PlanRemovals
<1>2. Words' = Words /\ Tainted' = Tainted
  BY <1>1, SameSession, SameTaint
<1>3. SpansInv'
  BY <1>1, <1>2 DEF RemovalInv, SpansInv
<1>4. ASSUME NEW s \in Tainted
      PROVE  /\ s.index \in first.whole
             /\ \A w \in ToSet(Words) : ContainsWord(s, w.id) => w.id \in first.selected
  BY <1>1, TaintedIsSelected DEF RemovalInv
<1>5. stage' # "growing" => Removed' = {}
  BY <1>1 DEF Removed
<1> HIDE DEF first
<1>6. SelectInv'
  <2>2. \A s \in Tainted' :
          /\ s.index \in whole'
          /\ \A w \in ToSet(Words') : ContainsWord(s, w.id) => w.id \in selected'
    BY <1>1, <1>2, <1>4
  <2>3. stage' # "growing" => \A w \in ToSet(Words'), r \in Removed' :
          Intersects(WordInterval(w), r) => w.id \in selected'
    BY <1>5
  <2> QED
    BY <2>2, <2>3 DEF SelectInv
<1> QED
  BY <1>3, <1>6 DEF RemovalInv

LEMMA GrowSelects ==
  ASSUME RemovalInv, GrowRemovals
  PROVE  RemovalInv'
<1>1. /\ stage = "growing" /\ UNCHANGED <<session, answers, spans, whole>>
      /\ selected' = Grown(Words, selected, Removed)
      /\ stage' = IF selected' = selected THEN "cutting" ELSE "growing"
  BY DEF GrowRemovals
<1>2. Words' = Words /\ Tainted' = Tainted
  BY <1>1, SameSession, SameTaint
<1>3. SpansInv'
  BY <1>1, <1>2 DEF RemovalInv, SpansInv
<1>4. selected \subseteq selected'
  BY <1>1 DEF Grown
<1>5. ASSUME stage' = "cutting", NEW w \in ToSet(Words), NEW r \in Removed', Intersects(WordInterval(w), r)
      PROVE  w.id \in selected'
  <2>1. selected' = selected /\ Removed' = Removed
    BY <1>1, <1>5, SameRemoval
  <2> QED
    BY <1>1, <1>5, <2>1 DEF Grown
<1>6. SelectInv'
  <2>2. \A s \in Tainted' :
          /\ s.index \in whole'
          /\ \A w \in ToSet(Words') : ContainsWord(s, w.id) => w.id \in selected'
    BY <1>1, <1>2, <1>4 DEF RemovalInv, SelectInv, Planned
  <2>3. stage' # "growing" => \A w \in ToSet(Words'), r \in Removed' :
          Intersects(WordInterval(w), r) => w.id \in selected'
    BY <1>1, <1>2, <1>5
  <2> QED
    BY <2>2, <2>3 DEF SelectInv
<1> QED
  BY <1>3, <1>6 DEF RemovalInv

LEMMA RemovalSteps ==
  ASSUME ExpandAll \/ ~WordLevelCuts
  PROVE  WindowsInv /\ AnswersInv /\ ClipsInv /\ RemovalInv /\ [CopyNext]_copyVars => RemovalInv'
<1> SUFFICES ASSUME WindowsInv, AnswersInv, ClipsInv, RemovalInv, [CopyNext]_copyVars PROVE RemovalInv'
  OBVIOUS
<1>1. WordsGiven /\ WordsTimed
  BY DEF WindowsInv, ClipsInv
<1>2. CASE NextWindow
  <2>1. /\ stage = "windowing" /\ UNCHANGED <<session, answers, spans>>
        /\ stage' \in {"windowing", "classifying", "rejected"}
    BY <1>2 DEF NextWindow
  <2>2. Words' = Words
    BY <2>1, SameSession
  <2>3. SpansInv'
    BY <2>1, <2>2 DEF RemovalInv, SpansInv
  <2>4. SelectInv'
    BY <2>1 DEF SelectInv, Planned
  <2> QED
    BY <2>3, <2>4 DEF RemovalInv
<1>3. ASSUME NEW output, Classify(output) PROVE RemovalInv'
  BY <1>3, ClassifySpans
<1>4. CASE PlanRemovals
  BY <1>1, <1>4, PlanSelects
<1>5. CASE RefusePlan
  <2>1. UNCHANGED <<session, answers, spans, selected, whole>> /\ stage' = "rejected"
    BY <1>5 DEF RefusePlan, Reject, datasetVars
  <2> QED
    BY <2>1, RemovalStays DEF Planned
<1>6. CASE GrowRemovals
  BY <1>6, GrowSelects
<1>7. ASSUME NEW dull, CutClips(dull) PROVE RemovalInv'
  <2>1. /\ stage = "cutting" /\ UNCHANGED <<session, answers, spans, selected, whole>>
        /\ stage' \in {"rechecking", "rejected"}
    BY <1>7 DEF CutClips, Reject
  <2> QED
    BY <2>1, RemovalStays DEF Planned
<1>8. ASSUME NEW verdict, Recheck(verdict) PROVE RemovalInv'
  <2>1. /\ stage = "rechecking" /\ UNCHANGED <<session, answers, spans, selected, whole>>
        /\ stage' \in {"eligible", "rejected"}
    BY <1>8 DEF Recheck, Reject
  <2> QED
    BY <2>1, RemovalStays DEF Planned
<1>9. CASE Deliver
  <2>1. /\ UNCHANGED <<session, answers, spans, selected, whole>> /\ Ready
    BY <1>9, DeliverKeeps
  <2> QED
    BY <2>1, RemovalStays DEF Planned, Ready
<1>10. CASE UNCHANGED copyVars
  <2>1. UNCHANGED <<session, answers, spans, selected, whole, stage>>
    BY <1>10 DEF copyVars, analysisVars, datasetVars
  <2> QED
    BY <2>1, RemovalStays DEF Planned
<1> QED
  BY <1>2, <1>3, <1>4, <1>5, <1>6, <1>7, <1>8, <1>9, <1>10 DEF CopyNext, Analyze, BuildDataset

\* No clip of an eligible session holds a word or a sample of a sentence that the rules or
\* the model name or that cannot be trusted, or comes nearer than the padding, for every
\* transcript and every answer, unless cuts of single words are allowed and not grown to
\* sentences (both settings' defaults rule that out).
THEOREM WhatIsRemovedStaysOut ==
  ASSUME ExpandAll \/ ~WordLevelCuts
  PROVE  CopySpec => []RemovedStaysOut
<1>1. (\E s \in Transcripts : CopyInit(s)) => WindowsInv /\ AnswersInv /\ ClipsInv /\ RemovalInv
  BY CopyStarts, ClipsStart, RemovalStarts
<1>2. WindowsInv /\ AnswersInv /\ ClipsInv /\ RemovalInv /\ [CopyNext]_copyVars
        => WindowsInv' /\ AnswersInv' /\ ClipsInv' /\ RemovalInv'
  BY CopySteps, ClipsSteps, RemovalSteps
<1>3. WindowsInv /\ ClipsInv /\ RemovalInv => RemovedStaysOut
  BY CleanClips DEF WindowsInv, RemovalInv
<1> QED
  BY <1>1, <1>2, <1>3, PTL DEF CopySpec

-----------------------------------------------------------------------------
(* The package.                                                             *)

\* The payload that encode_archive puts in the i-th place.
NameAt(i) == IF i % 2 = 1 THEN Text((i \div 2) + 1) ELSE Audio(i \div 2)
Names(n)  == {Audio(i) : i \in 1..n} \cup {Text(i) : i \in 1..n}

LEMMA Halves ==
  /\ \A i \in Nat : i \div 2 \in Nat /\ i % 2 \in {0, 1} /\ i = 2 * (i \div 2) + (i % 2)
  /\ \A j \in Nat : (2 * j) % 2 = 0 /\ (2 * j) \div 2 = j
  /\ \A j \in Nat : (2 * j + 1) % 2 = 1 /\ (2 * j + 1) \div 2 = j
OBVIOUS

\* Each payload has its place and each place its payload.
LEMMA NamesInOrder ==
  ASSUME NEW n \in Nat
  PROVE  /\ \A i \in 1..(2 * n) : NameAt(i) \in Names(n)
         /\ \A i, j \in 1..(2 * n) : NameAt(i) = NameAt(j) => i = j
         /\ \A name \in Names(n) : \E i \in 1..(2 * n) : NameAt(i) = name
         /\ IsFiniteSet(Names(n)) /\ Cardinality(Names(n)) = 2 * n
<1>1. ASSUME NEW i \in 1..(2 * n)
      PROVE  \/ /\ i \div 2 + 1 \in 1..n /\ i = 2 * (i \div 2) + 1
                /\ i % 2 = 1 /\ NameAt(i) = Text((i \div 2) + 1)
             \/ /\ i \div 2 \in 1..n /\ i = 2 * (i \div 2)
                /\ i % 2 # 1 /\ NameAt(i) = Audio(i \div 2)
  <2> DEFINE q == i \div 2
             r == i % 2
  <2>1. i \in Nat /\ q \in Nat /\ r \in {0, 1} /\ i = 2 * q + r
    BY Halves
  <2>2. NameAt(i) = IF r = 1 THEN Text(q + 1) ELSE Audio(q)
    BY DEF NameAt
  <2> HIDE DEF q, r
  <2>3. CASE r = 1
    <3>1. q + 1 \in 1..n /\ i = 2 * q + 1
      BY <2>1, <2>3
    <3> QED
      BY <2>2, <2>3, <3>1 DEF q, r
  <2>4. CASE r = 0
    <3>1. q \in 1..n /\ i = 2 * q
      BY <2>1, <2>4
    <3> QED
      BY <2>2, <2>4, <3>1 DEF q, r
  <2> QED
    BY <2>1, <2>3, <2>4
<1>2. \A i \in 1..(2 * n) : NameAt(i) \in Names(n)
  BY <1>1 DEF Names
<1>3. ASSUME NEW i \in 1..(2 * n), NEW j \in 1..(2 * n), NameAt(i) = NameAt(j)
      PROVE  i = j
  <2> DEFINE p == i \div 2
             q == j \div 2
  <2>1. \/ p + 1 \in 1..n /\ i = 2 * p + 1 /\ NameAt(i) = Text(p + 1)
        \/ p \in 1..n /\ i = 2 * p /\ NameAt(i) = Audio(p)
    BY <1>1
  <2>2. \/ q + 1 \in 1..n /\ j = 2 * q + 1 /\ NameAt(j) = Text(q + 1)
        \/ q \in 1..n /\ j = 2 * q /\ NameAt(j) = Audio(q)
    BY <1>1
  <2>3. p \in Nat /\ q \in Nat
    BY Halves
  <2> HIDE DEF p, q
  <2>4. \A a, b : Text(a) # Audio(b) /\ (Text(a) = Text(b) => a = b) /\ (Audio(a) = Audio(b) => a = b)
    BY DEF Text, Audio
  <2> QED
    BY <1>3, <2>1, <2>2, <2>3, <2>4
<1>4. ASSUME NEW name \in Names(n) PROVE \E i \in 1..(2 * n) : NameAt(i) = name
  <2>1. CASE \E k \in 1..n : name = Audio(k)
    <3>1. PICK k \in 1..n : name = Audio(k)
      BY <2>1
    <3>2. 2 * k \in 1..(2 * n) /\ NameAt(2 * k) = Audio(k)
      BY Halves DEF NameAt
    <3> QED
      BY <3>1, <3>2
  <2>2. CASE \E k \in 1..n : name = Text(k)
    <3>1. PICK k \in 1..n : name = Text(k)
      BY <2>2
    <3>2. k - 1 \in Nat /\ k - 1 + 1 = k
      OBVIOUS
    <3>3. 2 * (k - 1) + 1 \in 1..(2 * n) /\ NameAt(2 * (k - 1) + 1) = Text(k)
      BY <3>2, Halves DEF NameAt
    <3> QED
      BY <3>1, <3>3
  <2> QED
    BY <2>1, <2>2 DEF Names
<1>5. IsFiniteSet(Names(n)) /\ Cardinality(Names(n)) = 2 * n
  <2> DEFINE f == [i \in 1..(2 * n) |-> NameAt(i)]
  <2>1. f \in Bijection(1..(2 * n), Names(n))
    BY <1>2, <1>3, <1>4 DEF Bijection, Injection, Surjection, IsInjective
  <2>2. ExistsBijection(1..(2 * n), Names(n))
    BY <2>1 DEF ExistsBijection
  <2>3. IsFiniteSet(1..(2 * n)) /\ Cardinality(1..(2 * n)) = 2 * n
    BY FS_Interval
  <2> QED
    BY <2>2, <2>3, FS_Bijection
<1> QED
  BY <1>2, <1>3, <1>4, <1>5

LEMMA PayloadNames ==
  ASSUME NEW chosen
  PROVE  DOMAIN Payloads(chosen) = Names(Len(chosen))
BY DEF Payloads, Names

LEMMA NotTheManifest ==
  ASSUME NEW n, NEW name \in Names(n)
  PROVE  name # ManifestName
BY DEF Names, ManifestName, Audio, Text

\* An archive whose names tell its entries apart says of each name what its
\* entry says.
LEMMA ContentIsThatOf ==
  ASSUME NEW entries, NEW i \in 1..Len(entries), Len(entries) \in Nat,
         \A j, k \in 1..Len(entries) : entries[j].name = entries[k].name => j = k
  PROVE  ContentOf(entries, entries[i].name) = entries[i].content
<1> DEFINE place == CHOOSE k \in 1..Len(entries) : entries[k].name = entries[i].name
<1>1. place \in 1..Len(entries) /\ entries[place].name = entries[i].name
  OBVIOUS
<1>2. place = i
  BY <1>1
<1> QED
  BY <1>2 DEF ContentOf

\* What encode_archive makes of a package, decode_archive takes apart again.
Encoded(entries, manifest, payloads, n) ==
  /\ Len(entries) = 2 * n + 1
  /\ entries[1] = Entry(ManifestName, manifest)
  /\ \A i \in 1..(2 * n) : entries[i + 1] = Entry(NameAt(i), payloads[NameAt(i)])
  /\ \A i \in 1..Len(entries) : entries[i].regular
  /\ \A j, k \in 1..Len(entries) : entries[j].name = entries[k].name => j = k

LEMMA EncodedAsBuilt ==
  ASSUME NEW manifest, NEW payloads, NEW n \in Nat, DOMAIN payloads = Names(n)
  PROVE  Encoded(EncodeArchive(manifest, payloads), manifest, payloads, n)
<1> DEFINE first   == Entry(ManifestName, manifest)
           others  == [i \in 1..(2 * n) |-> Entry(NameAt(i), payloads[NameAt(i)])]
           S       == {first} \cup {others[i] : i \in 1..(2 * n)}
           entries == EncodeArchive(manifest, payloads)
<1>1. entries = <<first>> \o others
  BY NamesInOrder DEF EncodeArchive, NameAt
<1>2. <<first>> \in Seq(S) /\ Len(<<first>>) = 1 /\ <<first>>[1] = first
  <2> HIDE DEF first, others
  <2> QED
    OBVIOUS
<1>3. others \in Seq(S) /\ Len(others) = 2 * n
      /\ \A i \in 1..(2 * n) : others[i] = Entry(NameAt(i), payloads[NameAt(i)])
  OBVIOUS
<1> HIDE DEF first, others, S, entries
<1>4. Len(entries) = 2 * n + 1 /\ \A i \in 1..(2 * n + 1) :
        entries[i] = IF i <= 1 THEN <<first>>[i] ELSE others[i - 1]
  BY <1>1, <1>2, <1>3, ConcatProperties
<1>5. entries[1] = first /\ \A i \in 1..(2 * n) : entries[i + 1] = others[i]
  <2>1. 1 \in 1..(2 * n + 1)
    OBVIOUS
  <2>2. ASSUME NEW i \in 1..(2 * n) PROVE entries[i + 1] = others[i]
    <3>1. i + 1 \in 1..(2 * n + 1) /\ ~(i + 1 <= 1) /\ i + 1 - 1 = i
      OBVIOUS
    <3> QED
      BY <1>4, <3>1
  <2> QED
    BY <1>2, <1>4, <2>1, <2>2
<1>6. \A i \in 1..(2 * n + 1) : i = 1 \/ (i - 1 \in 1..(2 * n) /\ i = i - 1 + 1)
  OBVIOUS
<1>7. /\ first.name = ManifestName /\ first.regular
      /\ \A i \in 1..(2 * n) : others[i].name = NameAt(i) /\ others[i].regular
  BY <1>3 DEF Entry, first
<1>8. \A i \in 1..(2 * n) : NameAt(i) # ManifestName
  BY NamesInOrder, NotTheManifest
<1>9. ASSUME NEW j \in 1..Len(entries), NEW k \in 1..Len(entries), entries[j].name = entries[k].name
      PROVE  j = k
  <2>1. CASE j = 1 /\ k = 1
    BY <2>1
  <2>2. CASE j = 1 /\ k # 1
    <3>1. k - 1 \in 1..(2 * n) /\ k = k - 1 + 1
      BY <1>4, <1>6, <2>2
    <3>2. entries[k] = others[k - 1]
      BY <1>5, <3>1
    <3> QED
      BY <1>5, <1>7, <1>8, <1>9, <2>2, <3>1, <3>2
  <2>3. CASE j # 1 /\ k = 1
    <3>1. j - 1 \in 1..(2 * n) /\ j = j - 1 + 1
      BY <1>4, <1>6, <2>3
    <3>2. entries[j] = others[j - 1]
      BY <1>5, <3>1
    <3> QED
      BY <1>5, <1>7, <1>8, <1>9, <2>3, <3>1, <3>2
  <2>4. CASE j # 1 /\ k # 1
    <3>1. j - 1 \in 1..(2 * n) /\ k - 1 \in 1..(2 * n) /\ j = j - 1 + 1 /\ k = k - 1 + 1
      BY <1>4, <1>6, <2>4
    <3>2. entries[j] = others[j - 1] /\ entries[k] = others[k - 1]
      BY <1>5, <3>1
    <3>3. NameAt(j - 1) = NameAt(k - 1)
      BY <1>7, <1>9, <3>1, <3>2
    <3> QED
      BY <3>1, <3>3, NamesInOrder
  <2> QED
    BY <2>1, <2>2, <2>3, <2>4
<1>10. \A i \in 1..Len(entries) : entries[i].regular
  <2> SUFFICES ASSUME NEW i \in 1..Len(entries) PROVE entries[i].regular
    OBVIOUS
  <2>1. CASE i = 1
    BY <1>5, <1>7, <2>1
  <2>2. CASE i # 1
    <3>1. i - 1 \in 1..(2 * n) /\ i = i - 1 + 1
      BY <1>4, <1>6, <2>2
    <3>2. entries[i] = others[i - 1]
      BY <1>5, <3>1
    <3> QED
      BY <1>7, <3>1, <3>2
  <2> QED
    BY <2>1, <2>2
<1>11. Encoded(entries, manifest, payloads, n)
  BY <1>3, <1>4, <1>5, <1>9, <1>10 DEF Encoded, first
<1> QED
  BY <1>11 DEF entries

LEMMA DecodedAsEncoded ==
  ASSUME NEW manifest, NEW payloads, NEW n \in Nat, DOMAIN payloads = Names(n),
         payloads = [name \in Names(n) |-> payloads[name]],
         NEW entries, Encoded(entries, manifest, payloads, n)
  PROVE  /\ ContentOf(entries, ManifestName) = manifest
         /\ DecodedPayloads(entries) = payloads
<1>1. Len(entries) \in Nat /\ 1 \in 1..Len(entries)
      /\ \A i \in 1..(2 * n) : i + 1 \in 1..Len(entries)
  BY DEF Encoded
<1>2. entries[1].name = ManifestName /\ entries[1].content = manifest
      /\ \A i \in 1..(2 * n) : /\ entries[i + 1].name = NameAt(i)
                               /\ entries[i + 1].content = payloads[NameAt(i)]
  <2>1. \A name, content : /\ Entry(name, content).name = name
                           /\ Entry(name, content).content = content
    BY DEF Entry
  <2>2. entries[1] = Entry(ManifestName, manifest)
    BY DEF Encoded
  <2>3. \A i \in 1..(2 * n) : entries[i + 1] = Entry(NameAt(i), payloads[NameAt(i)])
    BY DEF Encoded
  <2>4. entries[1].name = ManifestName /\ entries[1].content = manifest
    BY <2>1, <2>2
  <2>5. ASSUME NEW i \in 1..(2 * n)
        PROVE  entries[i + 1].name = NameAt(i) /\ entries[i + 1].content = payloads[NameAt(i)]
    <3>1. entries[i + 1] = Entry(NameAt(i), payloads[NameAt(i)])
      BY <2>3
    <3> QED
      BY <3>1 DEF Entry
  <2> QED
    BY <2>4, <2>5
<1>3. ContentOf(entries, ManifestName) = manifest
  BY <1>1, <1>2, ContentIsThatOf DEF Encoded
<1>4. {e.name : e \in ToSet(entries)} \ {ManifestName} = Names(n)
  <2>1. ToSet(entries) = {entries[i] : i \in 1..Len(entries)}
    BY <1>1 DEF ToSet
  <2>2. ASSUME NEW i \in 1..Len(entries), entries[i].name # ManifestName
        PROVE  entries[i].name \in Names(n)
    <3>1. i - 1 \in 1..(2 * n) /\ i = i - 1 + 1
      <4>1. i # 1
        BY <1>2, <2>2
      <4> QED
        BY <4>1 DEF Encoded
    <3>2. entries[i].name = NameAt(i - 1)
      BY <1>2, <3>1
    <3> QED
      BY <3>1, <3>2, NamesInOrder
  <2>3. ASSUME NEW name \in Names(n)
        PROVE  name # ManifestName /\ \E i \in 1..Len(entries) : entries[i].name = name
    <3>1. PICK i \in 1..(2 * n) : NameAt(i) = name
      BY NamesInOrder
    <3> QED
      BY <1>1, <1>2, <3>1, NotTheManifest
  <2> QED
    BY <2>1, <2>2, <2>3
<1>5. \A name \in Names(n) : ContentOf(entries, name) = payloads[name]
  <2> SUFFICES ASSUME NEW name \in Names(n) PROVE ContentOf(entries, name) = payloads[name]
    OBVIOUS
  <2>1. PICK i \in 1..(2 * n) : NameAt(i) = name
    BY NamesInOrder
  <2>2. ContentOf(entries, entries[i + 1].name) = entries[i + 1].content
    BY <1>1, ContentIsThatOf DEF Encoded
  <2> QED
    BY <1>2, <2>1, <2>2
<1> QED
  BY <1>3, <1>4, <1>5 DEF DecodedPayloads

\* What admit asks of an archive besides its digest.
Admissible(entries) ==
  Decodable(entries) /\ ValidPackage(ContentOf(entries, ManifestName), DecodedPayloads(entries))

\* An archive that begins with a manifest is admissible only if that is the one it
\* is judged by, and the payloads are those it gives the digests of.
LEMMA JudgedByItsManifest ==
  ASSUME NEW entries, Len(entries) \in Nat, Len(entries) > 0, entries[1].name = ManifestName,
         Admissible(entries)
  PROVE  /\ ContentOf(entries, ManifestName) = entries[1].content
         /\ DecodedPayloads(entries) = entries[1].content.checksums
         /\ ValidPackage(entries[1].content, entries[1].content.checksums)
<1>1. \A i \in 1..Len(entries) : \A j \in 1..(i - 1) : entries[i].name # entries[j].name
  BY DEF Admissible, Decodable
<1>2. \A j, k \in 1..Len(entries) : entries[j].name = entries[k].name => j = k
  <2> SUFFICES ASSUME NEW j \in 1..Len(entries), NEW k \in 1..Len(entries),
                      entries[j].name = entries[k].name, j < k
               PROVE  FALSE
    OBVIOUS
  <2>1. j \in 1..(k - 1)
    OBVIOUS
  <2> QED
    BY <1>1, <2>1
<1>3. ContentOf(entries, ManifestName) = entries[1].content
  <2>1. 1 \in 1..Len(entries)
    OBVIOUS
  <2> QED
    BY <1>2, <2>1, ContentIsThatOf
<1>4. ContentOf(entries, ManifestName).checksums = DecodedPayloads(entries)
      /\ ValidPackage(ContentOf(entries, ManifestName), DecodedPayloads(entries))
  <2> DEFINE manifest == ContentOf(entries, ManifestName)
             payloads == DecodedPayloads(entries)
  <2>1. ValidPackage(manifest, payloads)
    BY DEF Admissible
  <2> HIDE DEF manifest, payloads
  <2>2. ChecksumsCover(manifest, payloads)
    BY <2>1 DEF ValidPackage
  <2>3. manifest.checksums = payloads
    BY <2>2 DEF ChecksumsCover
  <2> QED
    BY <2>1, <2>3 DEF manifest, payloads
<1> QED
  BY <1>3, <1>4

\* A manifest is a record, its clips a sequence and its metrics a record.
Described(manifest, n) ==
  /\ manifest = [clipCount |-> manifest.clipCount, durationMs |-> manifest.durationMs,
                 clips |-> manifest.clips, quality |-> manifest.quality,
                 checksums |-> manifest.checksums]
  /\ manifest.clips = [i \in 1..n |-> manifest.clips[i]]
  /\ \A i \in 1..n : manifest.clips[i] =
       [audio |-> manifest.clips[i].audio, text |-> manifest.clips[i].text,
        sha |-> manifest.clips[i].sha, durationMs |-> manifest.clips[i].durationMs,
        wordCount |-> manifest.clips[i].wordCount]
  /\ manifest.quality = [durationMs |-> manifest.quality.durationMs,
                         wordCount |-> manifest.quality.wordCount,
                         clipCount |-> manifest.quality.clipCount]

LEMMA WhatValidMeans ==
  ASSUME NEW manifest, NEW payloads, ValidPackage(manifest, payloads)
  PROVE  /\ manifest.clipCount \in 1..MaxClips
         /\ Len(manifest.clips) = manifest.clipCount
         /\ \A i \in 1..Len(manifest.clips) :
              manifest.clips[i].wordCount = Len(payloads[manifest.clips[i].text].words)
         /\ manifest.durationMs = ObservedMs(manifest.clips)
         /\ manifest.quality = [durationMs |-> manifest.durationMs, clipCount |-> manifest.clipCount,
                                wordCount |-> ObservedWords(manifest.clips)]
<1>1. /\ manifest.clipCount \in 1..MaxClips /\ ClipsValid(manifest, payloads)
      /\ manifest.durationMs = ObservedMs(manifest.clips)
      /\ manifest.quality = [durationMs |-> manifest.durationMs, clipCount |-> manifest.clipCount,
                             wordCount |-> ObservedWords(manifest.clips)]
  BY DEF ValidPackage
<1>2. /\ Len(manifest.clips) = manifest.clipCount
      /\ \A i \in 1..Len(manifest.clips) : ClipValid(manifest.clips[i], i, payloads)
  BY <1>1 DEF ClipsValid
<1>3. \A i \in 1..Len(manifest.clips) :
        manifest.clips[i].wordCount = Len(payloads[manifest.clips[i].text].words)
  BY <1>2 DEF ClipValid
<1> QED
  BY <1>1, <1>2, <1>3

\* A manifest with one of its numbers changed.
Altered(manifest, number) ==
  {[manifest EXCEPT !.clipCount = number], [manifest EXCEPT !.durationMs = number],
   [manifest EXCEPT !.clips[1].wordCount = number],
   [manifest EXCEPT !.quality.wordCount = number]}

\* The numbers of a manifest follow from the rest of it: one that was changed is
\* noticed.
LEMMA NumbersFollow ==
  ASSUME NEW manifest, NEW payloads, NEW n \in Nat, n > 0, Described(manifest, n),
         ValidPackage(manifest, payloads), NEW number,
         NEW changed \in Altered(manifest, number),
         ValidPackage(changed, payloads)
  PROVE  changed = manifest
<1>1. CASE changed = [manifest EXCEPT !.clipCount = number]
  <2>1. changed = [clipCount |-> number, durationMs |-> manifest.durationMs,
                   clips |-> manifest.clips, quality |-> manifest.quality,
                   checksums |-> manifest.checksums]
    BY <1>1 DEF Described
  <2>2. number = manifest.clipCount
    <3>1. changed.clipCount = number /\ changed.clips = manifest.clips
      BY <2>1
    <3> QED
      BY <3>1, WhatValidMeans
  <2> QED
    BY <2>1, <2>2 DEF Described
<1>2. CASE changed = [manifest EXCEPT !.durationMs = number]
  <2>1. changed = [clipCount |-> manifest.clipCount, durationMs |-> number,
                   clips |-> manifest.clips, quality |-> manifest.quality,
                   checksums |-> manifest.checksums]
    BY <1>2 DEF Described
  <2>2. number = manifest.durationMs
    <3>1. changed.durationMs = number /\ changed.clips = manifest.clips
      BY <2>1
    <3> QED
      BY <3>1, WhatValidMeans
  <2> QED
    BY <2>1, <2>2 DEF Described
<1>3. CASE changed = [manifest EXCEPT !.clips[1].wordCount = number]
  <2> DEFINE first == [audio |-> manifest.clips[1].audio, text |-> manifest.clips[1].text,
                       sha |-> manifest.clips[1].sha, durationMs |-> manifest.clips[1].durationMs,
                       wordCount |-> number]
             others == [manifest.clips EXCEPT ![1] = first]
  <2>1. 1 \in 1..n /\ manifest.clips[1] =
          [audio |-> manifest.clips[1].audio, text |-> manifest.clips[1].text,
           sha |-> manifest.clips[1].sha, durationMs |-> manifest.clips[1].durationMs,
           wordCount |-> manifest.clips[1].wordCount]
    <3>1. 1 \in 1..n
      OBVIOUS
    <3>2. \A i \in 1..n : manifest.clips[i] =
            [audio |-> manifest.clips[i].audio, text |-> manifest.clips[i].text,
             sha |-> manifest.clips[i].sha, durationMs |-> manifest.clips[i].durationMs,
             wordCount |-> manifest.clips[i].wordCount]
      BY DEF Described
    <3> QED
      BY <3>1, <3>2
  <2>2. [manifest.clips[1] EXCEPT !.wordCount = number] = first
    BY <2>1
  <2>3. changed = [clipCount |-> manifest.clipCount, durationMs |-> manifest.durationMs,
                   clips |-> others, quality |-> manifest.quality,
                   checksums |-> manifest.checksums]
    BY <1>3, <2>2 DEF Described
  <2>4. changed.clips = others
    BY <2>3
  <2>5. others = [i \in 1..n |-> IF i = 1 THEN first ELSE manifest.clips[i]]
    BY <2>1 DEF Described
  <2>6. Len(others) = n /\ others[1] = first /\ Len(manifest.clips) = n
    BY <2>1, <2>5 DEF Described
  <2> HIDE DEF others
  <2>7. number = Len(payloads[manifest.clips[1].text].words)
    <3>1. changed.clips[1].wordCount = Len(payloads[changed.clips[1].text].words)
      <4>1. \A i \in 1..Len(changed.clips) :
              changed.clips[i].wordCount = Len(payloads[changed.clips[i].text].words)
        BY WhatValidMeans
      <4> QED
        BY <2>1, <2>4, <2>6, <4>1
    <3>2. first.wordCount = number /\ first.text = manifest.clips[1].text
      OBVIOUS
    <3> QED
      BY <2>4, <2>6, <3>1, <3>2
  <2>8. manifest.clips[1].wordCount = Len(payloads[manifest.clips[1].text].words)
    <3>1. \A i \in 1..Len(manifest.clips) :
            manifest.clips[i].wordCount = Len(payloads[manifest.clips[i].text].words)
      BY WhatValidMeans
    <3> QED
      BY <2>1, <2>6, <3>1
  <2>9. first = manifest.clips[1]
    BY <2>1, <2>7, <2>8
  <2> HIDE DEF first
  <2>10. others = manifest.clips
    <3>1. [i \in 1..n |-> IF i = 1 THEN first ELSE manifest.clips[i]] = [i \in 1..n |-> manifest.clips[i]]
      BY <2>9
    <3> QED
      BY <2>5, <3>1 DEF Described
  <2> QED
    BY <2>3, <2>10 DEF Described
<1>4. CASE changed = [manifest EXCEPT !.quality.wordCount = number]
  <2> DEFINE metrics == [durationMs |-> manifest.quality.durationMs, wordCount |-> number,
                         clipCount |-> manifest.quality.clipCount]
  <2>1. changed = [clipCount |-> manifest.clipCount, durationMs |-> manifest.durationMs,
                   clips |-> manifest.clips, quality |-> metrics,
                   checksums |-> manifest.checksums]
    <3>1. [manifest.quality EXCEPT !.wordCount = number] = metrics
      BY DEF Described
    <3> QED
      BY <1>4, <3>1 DEF Described
  <2>2. metrics = manifest.quality
    <3>1. /\ manifest.quality = [durationMs |-> manifest.durationMs,
                                 clipCount |-> manifest.clipCount,
                                 wordCount |-> ObservedWords(manifest.clips)]
          /\ changed.quality = [durationMs |-> changed.durationMs,
                                clipCount |-> changed.clipCount,
                                wordCount |-> ObservedWords(changed.clips)]
      BY WhatValidMeans
    <3>2. changed.quality = metrics /\ changed.durationMs = manifest.durationMs
          /\ changed.clipCount = manifest.clipCount /\ changed.clips = manifest.clips
      BY <2>1
    <3> QED
      BY <3>1, <3>2
  <2> QED
    BY <2>1, <2>2 DEF Described
<1> QED
  BY <1>1, <1>2, <1>3, <1>4 DEF Altered

LEMMA ManifestDescribes ==
  ASSUME NEW chosen, Len(chosen) \in Nat
  PROVE  Described(Manifest(chosen), Len(chosen)) /\ Manifest(chosen).checksums = Payloads(chosen)
<1> DEFINE n == Len(chosen)
           m == Manifest(chosen)
<1>1. m = [clipCount |-> n, durationMs |-> Total(chosen),
           clips |-> [i \in 1..n |->
             [audio |-> Audio(i), text |-> Text(i), sha |-> Payloads(chosen)[Audio(i)],
              durationMs |-> DurationMs(Length(chosen[i].source)), wordCount |-> Len(chosen[i].words)]],
           quality |-> [durationMs |-> Total(chosen), wordCount |-> WordCount(chosen), clipCount |-> n],
           checksums |-> Payloads(chosen)]
  BY DEF Manifest
<1> HIDE DEF m
<1>2. m.clips = [i \in 1..n |->
        [audio |-> Audio(i), text |-> Text(i), sha |-> Payloads(chosen)[Audio(i)],
         durationMs |-> DurationMs(Length(chosen[i].source)), wordCount |-> Len(chosen[i].words)]]
  BY <1>1
<1>3. \A i \in 1..n : m.clips[i] =
        [audio |-> Audio(i), text |-> Text(i), sha |-> Payloads(chosen)[Audio(i)],
         durationMs |-> DurationMs(Length(chosen[i].source)), wordCount |-> Len(chosen[i].words)]
  BY <1>2
<1>4. m.clips = [i \in 1..n |-> m.clips[i]]
  BY <1>2
<1>5. \A i \in 1..n : m.clips[i] =
        [audio |-> m.clips[i].audio, text |-> m.clips[i].text, sha |-> m.clips[i].sha,
         durationMs |-> m.clips[i].durationMs, wordCount |-> m.clips[i].wordCount]
  <2> SUFFICES ASSUME NEW i \in 1..n
               PROVE  m.clips[i] =
        [audio |-> m.clips[i].audio, text |-> m.clips[i].text, sha |-> m.clips[i].sha,
         durationMs |-> m.clips[i].durationMs, wordCount |-> m.clips[i].wordCount]
    OBVIOUS
  <2>1. m.clips[i] =
          [audio |-> Audio(i), text |-> Text(i), sha |-> Payloads(chosen)[Audio(i)],
           durationMs |-> DurationMs(Length(chosen[i].source)), wordCount |-> Len(chosen[i].words)]
    BY <1>3
  <2> QED
    BY <2>1
<1>6. m.quality = [durationMs |-> m.quality.durationMs, wordCount |-> m.quality.wordCount,
                   clipCount |-> m.quality.clipCount]
  BY <1>1
<1>7. m = [clipCount |-> m.clipCount, durationMs |-> m.durationMs, clips |-> m.clips,
           quality |-> m.quality, checksums |-> m.checksums] /\ m.checksums = Payloads(chosen)
  BY <1>1
<1>8. Described(m, n)
  BY <1>4, <1>5, <1>6, <1>7 DEF Described
<1> QED
  BY <1>7, <1>8 DEF m

LEMMA EncodedIsSequence ==
  ASSUME NEW manifest, NEW payloads, NEW n \in Nat, DOMAIN payloads = Names(n)
  PROVE  LET entries == EncodeArchive(manifest, payloads)
         IN  entries \in Seq({entries[i] : i \in 1..Len(entries)})
<1> DEFINE first   == Entry(ManifestName, manifest)
           others  == [i \in 1..(2 * n) |-> Entry(NameAt(i), payloads[NameAt(i)])]
           S       == {first} \cup {others[i] : i \in 1..(2 * n)}
           entries == EncodeArchive(manifest, payloads)
<1>1. entries = <<first>> \o others
  BY NamesInOrder DEF EncodeArchive, NameAt
<1>2. <<first>> \in Seq(S)
  OBVIOUS
<1>3. others \in Seq(S)
  OBVIOUS
<1> HIDE DEF first, others, S, entries
<1>4. entries \in Seq(S)
  BY <1>1, <1>2, <1>3, ConcatProperties
<1>5. entries \in Seq({entries[i] : i \in 1..Len(entries)})
  BY <1>4
<1> QED
  BY <1>5 DEF entries

LEMMA RemovalKeepsTheRest ==
  ASSUME NEW S, NEW s \in Seq(S), NEW i \in 1..Len(s)
  PROVE  /\ RemoveAt(s, i) \in Seq(S) /\ Len(RemoveAt(s, i)) = Len(s) - 1
         /\ \A j \in 1..(Len(s) - 1) :
              RemoveAt(s, i)[j] = IF j < i THEN s[j] ELSE s[j + 1]
<1> DEFINE left == SubSeq(s, 1, i - 1)
           right == SubSeq(s, i + 1, Len(s))
<1>1. /\ left \in Seq(S) /\ Len(left) = i - 1
      /\ \A j \in 1..(i - 1) : left[j] = s[j]
  <2>1. 1 \in 1..(Len(s) + 1) /\ i - 1 \in 0..Len(s)
    OBVIOUS
  <2> QED
    BY <2>1, SubSeqProperties
<1>2. /\ right \in Seq(S) /\ Len(right) = Len(s) - i
      /\ \A j \in 1..(Len(s) - i) : right[j] = s[i + j]
  <2>1. i + 1 \in 1..(Len(s) + 1) /\ Len(s) \in 0..Len(s)
    OBVIOUS
  <2> QED
    BY <2>1, SubSeqProperties
<1>3. RemoveAt(s, i) = left \o right
  BY DEF RemoveAt
<1> HIDE DEF left, right
<1>4. /\ left \o right \in Seq(S) /\ Len(left \o right) = Len(s) - 1
      /\ \A j \in 1..(Len(s) - 1) :
           (left \o right)[j] = IF j <= Len(left) THEN left[j] ELSE right[j - Len(left)]
  <2>1. /\ left \o right \in Seq(S) /\ Len(left \o right) = Len(left) + Len(right)
        /\ \A j \in 1..(Len(left) + Len(right)) :
             (left \o right)[j] = IF j <= Len(left) THEN left[j] ELSE right[j - Len(left)]
    BY <1>1, <1>2, ConcatProperties
  <2>2. Len(left) + Len(right) = Len(s) - 1
    BY <1>1, <1>2
  <2> QED
    BY <2>1, <2>2
<1>5. ASSUME NEW j \in 1..(Len(s) - 1)
      PROVE  (left \o right)[j] = IF j < i THEN s[j] ELSE s[j + 1]
  <2>1. CASE j < i
    <3>1. j \in 1..(i - 1) /\ j <= Len(left)
      BY <1>1, <2>1
    <3> QED
      BY <1>1, <1>4, <2>1, <3>1
  <2>2. CASE ~(j < i)
    <3>1. j - (i - 1) \in 1..(Len(s) - i) /\ ~(j <= Len(left)) /\ i + (j - (i - 1)) = j + 1
      BY <1>1, <2>2
    <3>2. (left \o right)[j] = right[j - (i - 1)]
      BY <1>1, <1>4, <3>1
    <3> QED
      BY <1>2, <2>2, <3>1, <3>2
  <2> QED
    BY <2>1, <2>2
<1> QED
  BY <1>3, <1>4, <1>5

\* However an archive was harmed, it is admissible only if it says what was built.
LEMMA HarmIsNoticed ==
  ASSUME NEW chosen, Len(chosen) \in Nat, Len(chosen) > 0,
         ValidPackage(Manifest(chosen), Payloads(chosen)),
         NEW entries, entries = EncodeArchive(Manifest(chosen), Payloads(chosen)),
         NEW arrived \in Harmed(entries) \cup {entries}, Admissible(arrived)
  PROVE  /\ ContentOf(arrived, ManifestName) = Manifest(chosen)
         /\ DecodedPayloads(arrived) = Payloads(chosen)
<1> DEFINE n == Len(chosen)
           m == Manifest(chosen)
           p == Payloads(chosen)
<1>1. DOMAIN p = Names(n) /\ p = [name \in Names(n) |-> p[name]]
  <2>1. DOMAIN p = Names(n)
    BY PayloadNames
  <2>2. p = [name \in DOMAIN p |-> p[name]]
    BY DEF Payloads
  <2> QED
    BY <2>1, <2>2
<1>2. Described(m, n) /\ m.checksums = p
  BY ManifestDescribes
<1>3. ValidPackage(m, p)
  OBVIOUS
<1> HIDE DEF m, p
<1>4. Encoded(entries, m, p, n)
  BY <1>1, EncodedAsBuilt DEF m, p
<1>5. ContentOf(entries, ManifestName) = m
  BY <1>1, <1>4, DecodedAsEncoded
<1>6. /\ Len(entries) = 2 * n + 1 /\ entries[1] = Entry(ManifestName, m)
      /\ \A i \in 2..Len(entries) : entries[i].name # ManifestName
  <2>1. /\ Len(entries) = 2 * n + 1 /\ entries[1] = Entry(ManifestName, m)
        /\ \A j, k \in 1..Len(entries) : entries[j].name = entries[k].name => j = k
    BY <1>4 DEF Encoded
  <2>2. entries[1].name = ManifestName
    BY <2>1 DEF Entry
  <2>3. ASSUME NEW i \in 2..Len(entries) PROVE entries[i].name # ManifestName
    <3>1. 1 \in 1..Len(entries) /\ i \in 1..Len(entries) /\ i # 1
      BY <2>1
    <3> QED
      BY <2>1, <2>2, <3>1
  <2> QED
    BY <2>1, <2>3
<1>7. /\ entries \in Seq({entries[i] : i \in 1..Len(entries)})
      /\ entries = [i \in 1..Len(entries) |-> entries[i]]
  <2>1. entries \in Seq({entries[i] : i \in 1..Len(entries)})
    BY <1>1, EncodedIsSequence DEF m, p
  <2> QED
    BY <2>1
\* An archive that still begins with the manifest that was built.
<1>8. ASSUME Len(arrived) \in Nat, Len(arrived) > 0, arrived[1] = Entry(ManifestName, m)
      PROVE  ContentOf(arrived, ManifestName) = m /\ DecodedPayloads(arrived) = p
  <2>1. arrived[1].name = ManifestName /\ arrived[1].content = m
    BY <1>8 DEF Entry
  <2> QED
    BY <1>2, <1>8, <2>1, JudgedByItsManifest
\* One whose manifest was changed.
<1>9. ASSUME NEW number, NEW changed, arrived = [entries EXCEPT ![1].content = changed],
             changed \in Altered(m, number)
      PROVE  ContentOf(arrived, ManifestName) = m /\ DecodedPayloads(arrived) = p
  <2>1. /\ Len(arrived) \in Nat /\ Len(arrived) > 0
        /\ arrived[1] = [entries[1] EXCEPT !.content = changed]
    BY <1>6, <1>7, <1>9
  <2>2. arrived[1].name = ManifestName /\ arrived[1].content = changed
    BY <1>6, <2>1 DEF Entry
  <2>3. changed.checksums = p
    BY <1>2, <1>9 DEF Described, Altered
  <2>4. arrived[1].content.checksums = p
    BY <2>2, <2>3
  <2>5. /\ ContentOf(arrived, ManifestName) = changed /\ DecodedPayloads(arrived) = p
        /\ ValidPackage(changed, p)
    BY <2>1, <2>2, <2>4, JudgedByItsManifest
  <2>6. n \in Nat /\ n > 0
    OBVIOUS
  <2>7. changed = m
    <3> HIDE DEF n
    <3> QED
      BY <1>2, <1>3, <1>9, <2>5, <2>6, NumbersFollow
  <2> QED
    BY <2>5, <2>7
<1> DEFINE goal == ContentOf(arrived, ManifestName) = m /\ DecodedPayloads(arrived) = p
           S    == {entries[i] : i \in 1..Len(entries)}
<1> HIDE DEF goal, S
<1>10. ASSUME NEW i \in 1..Len(entries), arrived = RemoveAt(entries, i) PROVE goal
  <2>1. /\ Len(arrived) = 2 * n
        /\ \A j \in 1..(2 * n) : arrived[j] = IF j < i THEN entries[j] ELSE entries[j + 1]
    <3>1. /\ Len(RemoveAt(entries, i)) = Len(entries) - 1
          /\ \A j \in 1..(Len(entries) - 1) :
               RemoveAt(entries, i)[j] = IF j < i THEN entries[j] ELSE entries[j + 1]
      BY <1>7, RemovalKeepsTheRest
    <3> QED
      BY <1>6, <1>10, <3>1
  <2>2. CASE i = 1
    <3>1. \A j \in 1..(2 * n) : j + 1 \in 2..Len(entries) /\ arrived[j] = entries[j + 1]
      BY <1>6, <2>1, <2>2
    <3>2. \A j \in 1..Len(arrived) : arrived[j].name # ManifestName
      BY <1>6, <2>1, <3>1
    <3> QED
      BY <3>2 DEF Admissible, Decodable
  <2>3. CASE i # 1
    <3>1. Len(arrived) \in Nat /\ Len(arrived) > 0 /\ arrived[1] = entries[1]
      BY <2>1, <2>3
    <3> QED
      BY <1>6, <1>8, <3>1 DEF goal
  <2> QED
    BY <2>2, <2>3
<1>11. ASSUME NEW i \in 1..Len(entries), arrived = Append(entries, entries[i]) PROVE goal
  <2>1. Len(arrived) \in Nat /\ Len(arrived) > 0 /\ arrived[1] = entries[1]
    <3>1. entries[i] \in S /\ entries \in Seq(S)
      BY <1>7 DEF S
    <3>2. 1 \in 1..Len(entries)
      BY <1>6
    <3> QED
      BY <1>11, <3>1, <3>2, AppendProperties
  <2> QED
    BY <1>6, <1>8, <2>1 DEF goal
<1>12. ASSUME NEW i \in 1..Len(entries), arrived = [entries EXCEPT ![i].regular = FALSE] PROVE goal
  <2>1. /\ Len(arrived) = Len(entries) /\ i \in 1..Len(arrived)
        /\ arrived[i] = [entries[i] EXCEPT !.regular = FALSE]
    BY <1>7, <1>12
  <2>2. entries[i] = Entry(entries[i].name, entries[i].content)
    <3>1. \A k \in 1..(2 * n) : entries[k + 1] = Entry(NameAt(k), p[NameAt(k)])
      BY <1>4 DEF Encoded
    <3>2. CASE i = 1
      BY <1>6, <3>2 DEF Entry
    <3>3. CASE i # 1
      <4>1. i - 1 \in 1..(2 * n) /\ i - 1 + 1 = i
        BY <1>6, <3>3
      <4>2. entries[i] = Entry(NameAt(i - 1), p[NameAt(i - 1)])
        BY <3>1, <4>1
      <4> QED
        BY <4>2 DEF Entry
    <3> QED
      BY <3>2, <3>3
  <2>3. arrived[i].regular = FALSE
    BY <2>1, <2>2 DEF Entry
  <2> QED
    BY <2>1, <2>3 DEF Admissible, Decodable
<1> DEFINE With(i, other) == [entries EXCEPT ![i].content = other]
<1>13. ASSUME NEW i \in 2..Len(entries), NEW other, arrived = With(i, other) PROVE goal
  <2>1. Len(arrived) = Len(entries) /\ arrived[1] = entries[1]
    BY <1>6, <1>7, <1>13
  <2> QED
    BY <1>6, <1>8, <2>1 DEF goal
<1>14. ASSUME arrived = entries PROVE goal
  <2>1. Len(arrived) \in Nat /\ Len(arrived) > 0 /\ arrived[1] = Entry(ManifestName, m)
    BY <1>6, <1>14
  <2> QED
    BY <1>8, <2>1 DEF goal
<1>15. ASSUME NEW changed, arrived = [entries EXCEPT ![1].content = changed],
              changed \in {[m EXCEPT !.clipCount = @ + 1], [m EXCEPT !.durationMs = @ + 1],
                           [m EXCEPT !.clips[1].wordCount = @ + 1],
                           [m EXCEPT !.quality.wordCount = @ + 1]}
       PROVE  goal
  <2>1. PICK number : changed \in Altered(m, number)
    BY <1>15 DEF Altered
  <2> QED
    BY <1>9, <1>15, <2>1 DEF goal
<1>16. goal
  <2> DEFINE Other(changed) == [entries EXCEPT ![1].content = changed]
  <2>1. arrived \in Harmed(entries) \/ arrived = entries
    OBVIOUS
  <2>2. ASSUME arrived \in Harmed(entries) PROVE goal
    <3>1. \/ \E i \in 1..Len(entries) : arrived = RemoveAt(entries, i)
          \/ \E i \in 1..Len(entries) : arrived = Append(entries, entries[i])
          \/ \E i \in 1..Len(entries) : arrived = [entries EXCEPT ![i].regular = FALSE]
          \/ \E i \in 2..Len(entries) : \E other : arrived = With(i, other)
          \/ arrived \in {Other([m EXCEPT !.clipCount = @ + 1]), Other([m EXCEPT !.durationMs = @ + 1]),
                          Other([m EXCEPT !.clips[1].wordCount = @ + 1]),
                          Other([m EXCEPT !.quality.wordCount = @ + 1])}
      <4> DEFINE emptied == [kind |-> "wav", source |-> Interval(0, 0)]
                 Lost     == {RemoveAt(entries, i) : i \in 1..Len(entries)}
                 Doubled  == {Append(entries, entries[i]) : i \in 1..Len(entries)}
                 NoFile == {[entries EXCEPT ![i].regular = FALSE] : i \in 1..Len(entries)}
                 Emptied  == {With(i, emptied) : i \in 2..Len(entries)}
                 Swapped  == {With(i, entries[j].content) : i, j \in 2..Len(entries)}
                 Changed  == {Other([m EXCEPT !.clipCount = @ + 1]),
                              Other([m EXCEPT !.durationMs = @ + 1]),
                              Other([m EXCEPT !.clips[1].wordCount = @ + 1]),
                              Other([m EXCEPT !.quality.wordCount = @ + 1])}
      <4>1. Harmed(entries) = Lost \cup Doubled \cup NoFile \cup Emptied \cup Swapped \cup Changed
        BY <1>5 DEF Harmed
      <4> HIDE DEF Other, With, emptied
      <4>2. arrived \in Lost => \E i \in 1..Len(entries) : arrived = RemoveAt(entries, i)
        OBVIOUS
      <4>3. arrived \in Doubled => \E i \in 1..Len(entries) : arrived = Append(entries, entries[i])
        OBVIOUS
      <4>4. arrived \in NoFile =>
              \E i \in 1..Len(entries) : arrived = [entries EXCEPT ![i].regular = FALSE]
        OBVIOUS
      <4>5. arrived \in Emptied => \E i \in 2..Len(entries) : \E other : arrived = With(i, other)
        OBVIOUS
      <4>6. arrived \in Swapped => \E i \in 2..Len(entries) : \E other : arrived = With(i, other)
        OBVIOUS
      <4>7. arrived \in Changed =>
              arrived \in {Other([m EXCEPT !.clipCount = @ + 1]), Other([m EXCEPT !.durationMs = @ + 1]),
                           Other([m EXCEPT !.clips[1].wordCount = @ + 1]),
                           Other([m EXCEPT !.quality.wordCount = @ + 1])}
        OBVIOUS
      <4> HIDE DEF Lost, Doubled, NoFile, Emptied, Swapped, Changed
      <4> QED
        BY <2>2, <4>1, <4>2, <4>3, <4>4, <4>5, <4>6, <4>7
    <3>2. ASSUME arrived \in {Other([m EXCEPT !.clipCount = @ + 1]),
                              Other([m EXCEPT !.durationMs = @ + 1]),
                              Other([m EXCEPT !.clips[1].wordCount = @ + 1]),
                              Other([m EXCEPT !.quality.wordCount = @ + 1])}
          PROVE  goal
      <4>1. \E changed \in {[m EXCEPT !.clipCount = @ + 1], [m EXCEPT !.durationMs = @ + 1],
                            [m EXCEPT !.clips[1].wordCount = @ + 1],
                            [m EXCEPT !.quality.wordCount = @ + 1]} : arrived = Other(changed)
        BY <3>2
      <4> QED
        BY <1>15, <4>1
    <3> HIDE DEF Other, With
    <3> QED
      BY <1>10, <1>11, <1>12, <1>13, <3>1, <3>2
  <2> QED
    BY <1>14, <2>1, <2>2
<1> QED
  BY <1>16 DEF goal, m, p

\* An archive that arrives as it was built passes every check of admit.
LEMMA WholeIsAdmitted ==
  ASSUME NEW chosen, Len(chosen) \in Nat, Len(chosen) > 0,
         ValidPackage(Manifest(chosen), Payloads(chosen))
  PROVE  Admissible(EncodeArchive(Manifest(chosen), Payloads(chosen)))
<1> DEFINE n == Len(chosen)
           m == Manifest(chosen)
           p == Payloads(chosen)
           entries == EncodeArchive(m, p)
<1>1. DOMAIN p = Names(n) /\ p = [name \in Names(n) |-> p[name]]
  <2>1. DOMAIN p = Names(n)
    BY PayloadNames
  <2>2. p = [name \in DOMAIN p |-> p[name]]
    BY DEF Payloads
  <2> QED
    BY <2>1, <2>2
<1>2. ValidPackage(m, p) /\ m.clipCount = n
  BY DEF Manifest
<1> HIDE DEF m, p
<1>3. Encoded(entries, m, p, n)
  BY <1>1, EncodedAsBuilt
<1> HIDE DEF entries
<1>4. ContentOf(entries, ManifestName) = m /\ DecodedPayloads(entries) = p
  BY <1>1, <1>3, DecodedAsEncoded
<1>5. n \in 1..MaxClips /\ \A name \in DOMAIN p : Size(p[name]) <= MaxClipBytes
  BY <1>2 DEF ValidPackage, WithinBounds
<1>6. /\ Len(entries) = 2 * n + 1 /\ entries[1] = Entry(ManifestName, m)
      /\ \A i \in 1..(2 * n) : entries[i + 1] = Entry(NameAt(i), p[NameAt(i)])
      /\ \A i \in 1..Len(entries) : entries[i].regular
      /\ \A j, k \in 1..Len(entries) : entries[j].name = entries[k].name => j = k
  BY <1>3 DEF Encoded
<1>7. Decodable(entries)
  <2>1. Len(entries) <= MaxClips * 2 + 2
    BY <1>5, <1>6, PackageAssumption
  <2>2. ASSUME NEW i \in 1..Len(entries), entries[i].name # ManifestName
        PROVE  Size(entries[i].content) <= MaxClipBytes
    <3>1. i # 1
      BY <1>6, <2>2 DEF Entry
    <3>2. i - 1 \in 1..(2 * n) /\ i - 1 + 1 = i
      BY <1>6, <3>1
    <3>3. entries[i] = Entry(NameAt(i - 1), p[NameAt(i - 1)])
      BY <1>6, <3>2
    <3>4. entries[i].content = p[NameAt(i - 1)]
      BY <3>3 DEF Entry
    <3>5. NameAt(i - 1) \in DOMAIN p
      BY <1>1, <3>2, NamesInOrder
    <3> QED
      BY <1>5, <3>4, <3>5
  <2>3. ASSUME NEW i \in 1..Len(entries), NEW j \in 1..(i - 1)
        PROVE  entries[i].name # entries[j].name
    <3>1. j \in 1..Len(entries) /\ j # i
      BY <1>6
    <3> QED
      BY <1>6, <3>1
  <2>4. \E i \in 1..Len(entries) : entries[i].name = ManifestName
    <3>1. 1 \in 1..Len(entries) /\ entries[1].name = ManifestName
      BY <1>6 DEF Entry
    <3> QED
      BY <3>1
  <2> QED
    BY <1>6, <2>1, <2>2, <2>3, <2>4 DEF Decodable
<1> QED
  BY <1>2, <1>4, <1>7 DEF Admissible, entries, m, p

\* What is known of a package once it was built: it was valid, the archive is the
\* one that was built or one that was harmed, its digest was taken before or after
\* that, and it was admitted exactly if it passed.
PackageInv ==
  /\ stage \in {"packed", "sent", "admitted", "refused"} =>
       /\ ValidPackage(Manifest(clips), Payloads(clips))
       /\ built = EncodeArchive(Manifest(clips), Payloads(clips))
  /\ stage = "packed" => archive = built
  /\ stage \in {"sent", "admitted", "refused"} =>
       archive \in Harmed(built) \cup {built} /\ declared \in {archive, built}
  /\ stage = "admitted" => Admissible(archive)
  /\ stage = "refused" => ~(declared = archive /\ Admissible(archive))

LEMMA PackageStarts == (\E s \in Transcripts : CopyInit(s)) => PackageInv
BY DEF CopyInit, AnalysisInit, PackageInv

\* Until there is a package there is nothing to say of it.
LEMMA NoPackageYet ==
  ASSUME stage' \notin {"packed", "sent", "admitted", "refused"}
  PROVE  PackageInv'
BY DEF PackageInv

LEMMA PackageSteps == PackageInv /\ [CopyNext]_copyVars => PackageInv'
<1> SUFFICES ASSUME PackageInv, [CopyNext]_copyVars PROVE PackageInv'
  OBVIOUS
<1>1. CASE Analyze
  <2>1. CASE NextWindow
    BY <2>1, NoPackageYet DEF NextWindow
  <2>2. ASSUME NEW output, Classify(output) PROVE PackageInv'
    BY <2>2, NoPackageYet DEF Classify
  <2> QED
    BY <1>1, <2>1, <2>2 DEF Analyze
<1>2. CASE BuildDataset
  <2>1. CASE PlanRemovals
    BY <2>1, NoPackageYet DEF PlanRemovals
  <2>2. CASE RefusePlan
    BY <2>2, NoPackageYet DEF RefusePlan, Reject
  <2>3. CASE GrowRemovals
    BY <2>3, NoPackageYet DEF GrowRemovals
  <2>4. ASSUME NEW dull, CutClips(dull) PROVE PackageInv'
    BY <2>4, NoPackageYet DEF CutClips, Reject
  <2>5. ASSUME NEW verdict, Recheck(verdict) PROVE PackageInv'
    BY <2>5, NoPackageYet DEF Recheck, Reject
  <2> QED
    BY <1>2, <2>1, <2>2, <2>3, <2>4, <2>5 DEF BuildDataset
<1>3. CASE Pack
  <2>1. CASE ValidPackage(Manifest(clips), Payloads(clips))
    <3>1. /\ stage' = "packed" /\ clips' = clips /\ archive' = built'
          /\ built' = EncodeArchive(Manifest(clips), Payloads(clips))
      BY <1>3, <2>1 DEF Pack, datasetVars
    <3>2. /\ ValidPackage(Manifest(clips'), Payloads(clips'))
          /\ built' = EncodeArchive(Manifest(clips'), Payloads(clips'))
      BY <2>1, <3>1
    <3> QED
      BY <3>1, <3>2 DEF PackageInv
  <2>2. CASE ~ValidPackage(Manifest(clips), Payloads(clips))
    BY <1>3, <2>2, NoPackageYet DEF Pack, Reject
  <2> QED
    BY <2>1, <2>2
<1>4. ASSUME NEW harmed, NEW early, Transfer(harmed, early) PROVE PackageInv'
  <2>1. /\ stage = "packed" /\ stage' = "sent" /\ clips' = clips /\ built' = built
        /\ archive' \in Harmed(archive) \cup {archive} /\ declared' \in {archive', archive}
    BY <1>4 DEF Transfer, datasetVars
  <2>2. /\ ValidPackage(Manifest(clips'), Payloads(clips'))
        /\ built' = EncodeArchive(Manifest(clips'), Payloads(clips'))
    BY <2>1 DEF PackageInv
  <2>3. archive' \in Harmed(built') \cup {built'} /\ declared' \in {archive', built'}
    <3>1. archive = built'
      BY <2>1 DEF PackageInv
    <3> QED
      BY <2>1, <3>1
  <2> QED
    BY <2>1, <2>2, <2>3 DEF PackageInv
<1>5. CASE Admit
  <2>1. /\ stage = "sent" /\ clips' = clips /\ built' = built /\ archive' = archive
        /\ declared' = declared
        /\ stage' = IF declared = archive /\ Admissible(archive) THEN "admitted" ELSE "refused"
    BY <1>5 DEF Admit, datasetVars, packageVars, Admissible
  <2>2. /\ ValidPackage(Manifest(clips'), Payloads(clips'))
        /\ built' = EncodeArchive(Manifest(clips'), Payloads(clips'))
    BY <2>1 DEF PackageInv
  <2>3. archive' \in Harmed(built') \cup {built'} /\ declared' \in {archive', built'}
    BY <2>1 DEF PackageInv
  <2>4. /\ stage' = "admitted" => Admissible(archive')
        /\ stage' = "refused" => ~(declared' = archive' /\ Admissible(archive'))
        /\ stage' \in {"admitted", "refused"}
    BY <2>1
  <2> QED
    BY <2>2, <2>3, <2>4 DEF PackageInv
<1>6. CASE UNCHANGED copyVars
  BY <1>6 DEF copyVars, analysisVars, datasetVars, packageVars, PackageInv
<1> QED
  BY <1>1, <1>2, <1>3, <1>4, <1>5, <1>6 DEF CopyNext, Deliver

\* An archive that arrives whole is admitted, and one that is admitted holds the
\* manifest and the payloads that were built, for every transcript, every answer of
\* the model and all limits (build_package, encode_archive, decode_archive,
\* validate_package, admit).
THEOREM WhatArrivesWasBuilt == CopySpec => []AdmittedAsBuilt
<1>1. PackageInv => AdmittedAsBuilt
  <2> SUFFICES ASSUME PackageInv PROVE AdmittedAsBuilt
    OBVIOUS
  <2>1. ASSUME stage \in {"admitted", "refused"}
        PROVE  Len(clips) \in Nat /\ Len(clips) > 0
    <3>1. ValidPackage(Manifest(clips), Payloads(clips))
      BY <2>1 DEF PackageInv
    <3>2. Manifest(clips).clipCount \in 1..MaxClips
      BY <3>1, WhatValidMeans
    <3>3. Manifest(clips).clipCount = Len(clips)
      BY DEF Manifest
    <3> QED
      BY <3>2, <3>3
  <2>2. CASE stage = "admitted"
    <3>1. /\ ValidPackage(Manifest(clips), Payloads(clips))
          /\ built = EncodeArchive(Manifest(clips), Payloads(clips))
          /\ archive \in Harmed(built) \cup {built} /\ Admissible(archive)
      BY <2>2 DEF PackageInv
    <3> QED
      BY <2>1, <2>2, <3>1, HarmIsNoticed DEF AdmittedAsBuilt
  <2>3. CASE stage = "refused"
    <3>1. /\ ValidPackage(Manifest(clips), Payloads(clips))
          /\ built = EncodeArchive(Manifest(clips), Payloads(clips))
          /\ declared \in {archive, built} /\ ~(declared = archive /\ Admissible(archive))
      BY <2>3 DEF PackageInv
    <3>2. Admissible(built)
      BY <2>1, <2>3, <3>1, WholeIsAdmitted
    <3> QED
      BY <2>3, <3>1, <3>2 DEF AdmittedAsBuilt
  <2> QED
    BY <2>2, <2>3 DEF AdmittedAsBuilt
<1> QED
  BY PackageStarts, PackageSteps, <1>1, PTL DEF CopySpec

-----------------------------------------------------------------------------
(* What is eligible can be packed.                                         *)

\* What some payloads take.
Bytes(p, names) == MapThenSumSet(LAMBDA name : Size(p[name]), names)

\* What is summed over a set of names may be summed in any order.
Sized(p, D) == IsFiniteSet(D) /\ \A x \in D : Size(p[x]) \in Nat
Adds(sum, p, D) ==
  /\ sum[D] = Bytes(p, D)
  /\ sum[{}] = 0
  /\ \A T \in SUBSET D : sum[T] \in Nat
  /\ \A T \in SUBSET D : \A x \in T : sum[T] = Size(p[x]) + sum[T \ {x}]
LEMMA SumInAnyOrder ==
  ASSUME NEW p, NEW D, Sized(p, D)
  PROVE  \E sum : Adds(sum, p, D)
<1> DEFINE First(T)   == CHOOSE x \in T : TRUE
           Upto(m)    == {T \in SUBSET D : Cardinality(T) <= m}
           Step(g, T) == IF T = {} THEN 0 ELSE Size(p[First(T)]) + g[T \ {First(T)}]
           Sums(g, X) == g = [T \in X |-> Step(g, T)]
           N          == Cardinality(D)
           Bad        == {m \in 0..N : ~\E g : Sums(g, Upto(m))}
<1>0. IsFiniteSet(D) /\ \A x \in D : Size(p[x]) \in Nat
  BY DEF Sized
<1>1. /\ N \in Nat
      /\ \A T \in SUBSET D : IsFiniteSet(T) /\ Cardinality(T) \in 0..N /\ (Cardinality(T) = 0 <=> T = {})
      /\ \A T \in SUBSET D : \A x \in T : Cardinality(T \ {x}) = Cardinality(T) - 1
  <2>1. N \in Nat
    BY <1>0, FS_CardinalityType
  <2>2. \A T \in SUBSET D : IsFiniteSet(T) /\ Cardinality(T) <= N
    BY <1>0, FS_Subset
  <2>3. \A T \in SUBSET D : Cardinality(T) \in Nat
    BY <2>2, FS_CardinalityType
  <2>4. \A T \in SUBSET D : Cardinality(T) = 0 <=> T = {}
    BY <2>2, FS_EmptySet
  <2>5. \A T \in SUBSET D : \A x \in T : Cardinality(T \ {x}) = Cardinality(T) - 1
    BY <2>2, FS_RemoveElement
  <2> HIDE DEF N
  <2> QED
    BY <2>1, <2>2, <2>3, <2>4, <2>5
<1>2. \A T \in SUBSET D : T # {} => First(T) \in T
  OBVIOUS
<1> HIDE DEF First, N
<1>3. ASSUME Bad # {} PROVE FALSE
  <2>1. PICK m \in Bad : \A k \in Bad : m <= k
    <3>1. Bad \subseteq Nat
      OBVIOUS
    <3> HIDE DEF Bad
    <3> QED
      BY <1>3, <3>1, SmallestExists
  <2>2. m \in 0..N /\ ~\E g : Sums(g, Upto(m))
    BY <2>1
  <2>3. CASE m = 0
    <3> DEFINE g == [T \in {{}} |-> 0]
    <3>1. Upto(0) = {{}}
      <4>1. \A T : T \in Upto(0) <=> T = {}
        BY <1>1
      <4> QED
        BY <4>1
    <3>2. g = [T \in {{}} |-> Step(g, T)]
      OBVIOUS
    <3> HIDE DEF Upto, g
    <3> QED
      BY <2>2, <2>3, <3>1, <3>2
  <2>4. CASE m # 0
    <3>1. m - 1 \in 0..N /\ ~(m <= m - 1) /\ m \in Nat \ {0}
      BY <1>1, <2>2, <2>4
    <3>2. PICK g : Sums(g, Upto(m - 1))
      BY <2>1, <3>1
    <3> DEFINE h == [T \in Upto(m) |-> Step(g, T)]
    <3>3. \A T \in Upto(m - 1) : T \in Upto(m)
      BY <1>1, <3>1
    <3>4. \A T \in Upto(m) : T # {} => T \ {First(T)} \in Upto(m - 1)
      <4> SUFFICES ASSUME NEW T \in Upto(m), T # {} PROVE T \ {First(T)} \in Upto(m - 1)
        OBVIOUS
      <4>1. T \in SUBSET D /\ First(T) \in T /\ Cardinality(T) \in Nat /\ Cardinality(T) <= m
        BY <1>1, <1>2
      <4>2. Cardinality(T \ {First(T)}) = Cardinality(T) - 1
        BY <1>1, <4>1
      <4>3. T \ {First(T)} \in SUBSET D
        BY <4>1
      <4> QED
        BY <3>1, <4>1, <4>2, <4>3
    <3>5. \A T \in Upto(m - 1) : h[T] = g[T]
      <4> SUFFICES ASSUME NEW T \in Upto(m - 1) PROVE h[T] = g[T]
        OBVIOUS
      <4> HIDE DEF Upto, Step
      <4>1. h[T] = Step(g, T)
        BY <3>3
      <4>2. g[T] = Step(g, T)
        BY <3>2, Zenon
      <4> QED
        BY <4>1, <4>2
    <3> HIDE DEF Upto
    <3>6. \A T \in Upto(m) : Step(g, T) = Step(h, T)
      <4> HIDE DEF h
      <4> QED
        BY <3>4, <3>5
    <3>7. h = [T \in Upto(m) |-> Step(h, T)]
      <4> HIDE DEF Step
      <4>1. h = [T \in Upto(m) |-> Step(g, T)]
        OBVIOUS
      <4> HIDE DEF h
      <4> QED
        BY <3>6, <4>1
    <3> HIDE DEF h
    <3> QED
      BY <2>2, <3>7
  <2> QED
    BY <2>3, <2>4
<1>4. \E g : Sums(g, SUBSET D)
  <2>1. N \notin Bad /\ N \in 0..N
    <3> HIDE DEF Bad
    <3> QED
      BY <1>1, <1>3
  <2>2. Upto(N) = SUBSET D
    BY <1>1
  <2> HIDE DEF Upto, Sums
  <2> QED
    BY <2>1, <2>2
<1> DEFINE sum == CHOOSE g : Sums(g, SUBSET D)
<1>5. sum[D] = Bytes(p, D)
  BY DEF Bytes, MapThenSumSet, MapThenFoldSet, First
<1>6. Sums(sum, SUBSET D)
  <2> HIDE DEF Sums
  <2> QED
    BY <1>4
<1> HIDE DEF sum
<1>7. \A T \in SUBSET D : sum[T] = Step(sum, T)
  <2> HIDE DEF Step
  <2> QED
    BY <1>6
<1>8. sum[{}] = 0
  BY <1>7
<1>9. \A T \in SUBSET D : T # {} => sum[T] = Size(p[First(T)]) + sum[T \ {First(T)}]
  BY <1>7
<1> HIDE DEF Step, Sums, Bad, Upto
<1> DEFINE Odd == {k \in 0..N : \E T \in SUBSET D : Cardinality(T) = k /\ sum[T] \notin Nat}
<1>10. ASSUME Odd # {} PROVE FALSE
  <2>1. PICK k \in Odd : \A l \in Odd : k <= l
    <3>1. Odd \subseteq Nat
      OBVIOUS
    <3> HIDE DEF Odd
    <3> QED
      BY <1>10, <3>1, SmallestExists
  <2>2. PICK T \in SUBSET D : Cardinality(T) = k /\ sum[T] \notin Nat
    BY <2>1
  <2>3. T # {} /\ First(T) \in T /\ First(T) \in D
    BY <1>2, <1>8, <2>2
  <2>4. T \ {First(T)} \in SUBSET D /\ Cardinality(T \ {First(T)}) = k - 1 /\ k - 1 \in 0..N /\ ~(k <= k - 1)
    <3>1. T \ {First(T)} \in SUBSET D
      BY <2>2
    <3>2. Cardinality(T \ {First(T)}) = k - 1 /\ k \in Nat
      BY <1>1, <2>2, <2>3
    <3>3. k - 1 \in 0..N
      BY <1>1, <3>1, <3>2
    <3> QED
      BY <3>1, <3>2, <3>3
  <2>5. sum[T \ {First(T)}] \in Nat
    BY <2>1, <2>4
  <2>6. sum[T] = Size(p[First(T)]) + sum[T \ {First(T)}]
    BY <1>9, <2>3
  <2>7. Size(p[First(T)]) \in Nat
    BY <1>0, <2>3
  <2>8. sum[T] \in Nat
    BY <2>5, <2>6, <2>7
  <2> QED
    BY <2>2, <2>8
<1>11. \A T \in SUBSET D : sum[T] \in Nat
  <2> SUFFICES ASSUME NEW T \in SUBSET D PROVE sum[T] \in Nat
    OBVIOUS
  <2>1. Cardinality(T) \in 0..N /\ Cardinality(T) \notin Odd
    BY <1>1, <1>10
  <2> QED
    BY <2>1
<1> DEFINE Wrong == {k \in 0..N : \E T \in SUBSET D : \E x \in T :
                       Cardinality(T) = k /\ sum[T] # Size(p[x]) + sum[T \ {x}]}
<1>12. ASSUME Wrong # {} PROVE FALSE
  <2>1. PICK k \in Wrong : \A l \in Wrong : k <= l
    <3>1. Wrong \subseteq Nat
      OBVIOUS
    <3> HIDE DEF Wrong
    <3> QED
      BY <1>12, <3>1, SmallestExists
  <2>14. PICK T \in SUBSET D : \E x \in T : Cardinality(T) = k /\ sum[T] # Size(p[x]) + sum[T \ {x}]
    BY <2>1
  <2>2. PICK x \in T : Cardinality(T) = k /\ sum[T] # Size(p[x]) + sum[T \ {x}]
    BY <2>14
  <2> DEFINE c == First(T)
  <2>3. T # {} /\ c \in T /\ c \in D /\ x \in D
    BY <1>2, <2>2
  <2> HIDE DEF c
  <2>4. sum[T] = Size(p[c]) + sum[T \ {c}]
    BY <1>9, <2>3 DEF c
  <2>5. x # c
    BY <2>2, <2>4
  <2>6. \A y \in T : /\ T \ {y} \in SUBSET D /\ Cardinality(T \ {y}) = k - 1
                     /\ k - 1 \in 0..N /\ ~(k <= k - 1)
    <3> SUFFICES ASSUME NEW y \in T
                 PROVE  /\ T \ {y} \in SUBSET D /\ Cardinality(T \ {y}) = k - 1
                        /\ k - 1 \in 0..N /\ ~(k <= k - 1)
      OBVIOUS
    <3>1. T \ {y} \in SUBSET D
      BY <2>2
    <3>2. Cardinality(T \ {y}) = k - 1 /\ k \in Nat
      BY <1>1, <2>2
    <3>3. k - 1 \in 0..N
      BY <1>1, <3>1, <3>2
    <3> QED
      BY <3>1, <3>2, <3>3
  <2>7. k - 1 \notin Wrong
    BY <2>1, <2>3, <2>6
  <2>8. \A S \in SUBSET D : \A y \in S : Cardinality(S) = k - 1 => sum[S] = Size(p[y]) + sum[S \ {y}]
    BY <2>3, <2>6, <2>7
  <2>9. sum[T \ {c}] = Size(p[x]) + sum[(T \ {c}) \ {x}]
    <3>1. T \ {c} \in SUBSET D /\ x \in T \ {c} /\ Cardinality(T \ {c}) = k - 1
      BY <2>2, <2>3, <2>5, <2>6
    <3> QED
      BY <2>8, <3>1
  <2>10. sum[T \ {x}] = Size(p[c]) + sum[(T \ {x}) \ {c}]
    <3>1. T \ {x} \in SUBSET D /\ c \in T \ {x} /\ Cardinality(T \ {x}) = k - 1
      BY <2>2, <2>3, <2>5, <2>6
    <3> QED
      BY <2>8, <3>1
  <2>11. (T \ {c}) \ {x} = (T \ {x}) \ {c}
    OBVIOUS
  <2>12. sum[(T \ {x}) \ {c}] \in Nat /\ Size(p[x]) \in Nat /\ Size(p[c]) \in Nat
    <3>1. (T \ {x}) \ {c} \in SUBSET D
      BY <2>2
    <3> QED
      BY <1>0, <1>11, <2>3, <3>1
  <2>13. sum[T] = Size(p[x]) + sum[T \ {x}]
    <3> DEFINE rest == sum[(T \ {x}) \ {c}]
               a == Size(p[x])
               b == Size(p[c])
    <3>1. a \in Nat /\ b \in Nat /\ rest \in Nat
      BY <2>12
    <3>2. sum[T \ {c}] = a + rest
      BY <2>9, <2>11
    <3>3. sum[T \ {x}] = b + rest /\ sum[T] = b + sum[T \ {c}]
      BY <2>4, <2>10
    <3> HIDE DEF rest, a, b
    <3>4. sum[T] = b + (a + rest) /\ sum[T \ {x}] = b + rest
      BY <3>2, <3>3
    <3>5. b + (a + rest) = a + (b + rest)
      BY <3>1
    <3>6. sum[T] = a + sum[T \ {x}]
      BY <3>4, <3>5
    <3> QED
      BY <3>6 DEF a
  <2> QED
    BY <2>2, <2>13
<1>13. ASSUME NEW T \in SUBSET D, NEW x \in T PROVE sum[T] = Size(p[x]) + sum[T \ {x}]
  <2>1. Cardinality(T) \in 0..N /\ Cardinality(T) \notin Wrong
    BY <1>1, <1>12
  <2> QED
    BY <2>1
<1> QED
  BY <1>5, <1>8, <1>11, <1>13 DEF Adds

LEMMA Division ==
  ASSUME NEW x \in Nat, NEW r \in Nat, r > 0
  PROVE  x \div r \in Nat /\ x = r * (x \div r) + (x % r) /\ x % r \in 0..(r - 1)
<1>1. x \div r \in Nat
  OBVIOUS
<1>2. x = r * (x \div r) + (x % r)
  OBVIOUS
<1>3. x % r \in 0..(r - 1)
  OBVIOUS
<1> QED
  BY <1>1, <1>2, <1>3

\* DurationMs rounds to the nearest millisecond: it is short of the samples by less than one.
LEMMA DurationIsClose ==
  ASSUME NEW n \in Nat
  PROVE  DurationMs(n) \in Nat /\ n * 1000 <= DurationMs(n) * Rate + Rate
<1> DEFINE x == n * 1000 + Rate \div 2
           d == x \div Rate
<1>1. Rate \in Nat /\ Rate > 0
  BY DatasetAssumption
<1>2. Rate \div 2 \in Nat /\ n * 1000 \in Nat
  BY <1>1
<1>3. x \in Nat /\ n * 1000 <= x
  BY <1>2
<1> HIDE DEF x
<1>4. d \in Nat /\ x = Rate * d + (x % Rate) /\ x % Rate \in 0..(Rate - 1)
  BY <1>1, <1>3, Division
<1> HIDE DEF d
<1>5. Rate * d = d * Rate /\ d * Rate \in Nat
  BY <1>1, <1>4
<1>6. n * 1000 <= d * Rate + Rate
  BY <1>1, <1>2, <1>3, <1>4, <1>5
<1> QED
  BY <1>4, <1>6 DEF d, x, DurationMs

\* Sums of clips: their samples are no more than their milliseconds and one for each.
LEMMA SamplesAreFew ==
  ASSUME NEW q, Len(q) \in Nat, \A k \in 1..Len(q) : Length(q[k].source) \in Nat
  PROVE  LET samples == Accumulated([k \in 1..Len(q) |-> Length(q[k].source)])
         IN  \A k \in 0..Len(q) :
               /\ samples[k] \in Nat
               /\ samples[k] * 1000 <=
                    Accumulated([n \in 1..Len(q) |-> DurationMs(Length(q[n].source))])[k] * Rate + k * Rate
<1> DEFINE N  == Len(q)
           ss == [k \in 1..Len(q) |-> Length(q[k].source)]
           ds == [n \in 1..Len(q) |-> DurationMs(Length(q[n].source))]
           S  == Accumulated(ss)
           D  == Accumulated(ds)
<1>1. N \in Nat /\ Rate \in Nat
  BY DatasetAssumption
<1>2. Len(ss) = N /\ \A k \in 1..N : ss[k] = Length(q[k].source) /\ ss[k] \in Nat
  BY <1>1
<1>3. Len(ds) = N /\ \A k \in 1..N : ds[k] = DurationMs(ss[k]) /\ ds[k] \in Nat
  <2>1. Len(ds) = N /\ \A k \in 1..N : ds[k] = DurationMs(ss[k])
    BY <1>1, <1>2
  <2> HIDE DEF ds, ss
  <2> QED
    BY <1>2, <2>1, DurationIsClose
<1> HIDE DEF ss, ds, N
<1>4. /\ S[0] = 0 /\ \A k \in 1..N : S[k] = S[k - 1] + ss[k]
      /\ \A k \in 0..N : S[k] \in Nat
  BY <1>1, <1>2, RunningTotals
<1>5. /\ D[0] = 0 /\ \A k \in 1..N : D[k] = D[k - 1] + ds[k]
      /\ \A k \in 0..N : D[k] \in Nat
  BY <1>1, <1>3, RunningTotals
<1> HIDE DEF S, D
<1> DEFINE Bad == {k \in 0..N : ~(S[k] * 1000 <= D[k] * Rate + k * Rate)}
<1>6. ASSUME Bad # {} PROVE FALSE
  <2>1. PICK k \in Bad : \A l \in Bad : k <= l
    <3>1. Bad \subseteq Nat
      OBVIOUS
    <3> HIDE DEF Bad
    <3> QED
      BY <1>6, <3>1, SmallestExists
  <2>2. k \in 0..N /\ ~(S[k] * 1000 <= D[k] * Rate + k * Rate)
    BY <2>1
  <2>3. k # 0
    <3>1. S[0] * 1000 <= D[0] * Rate + 0 * Rate
      BY <1>1, <1>4, <1>5
    <3> QED
      BY <2>2, <3>1
  <2>4. k \in 1..N /\ k - 1 \in 0..N /\ ~(k <= k - 1)
    BY <1>1, <2>2, <2>3
  <2>5. S[k - 1] * 1000 <= D[k - 1] * Rate + (k - 1) * Rate
    BY <2>1, <2>4
  <2>6. ss[k] * 1000 <= ds[k] * Rate + Rate
    BY <1>2, <1>3, <2>4, DurationIsClose
  <2> DEFINE s == S[k - 1]
             d == D[k - 1]
             a == ss[k]
             b == ds[k]
             j == k - 1
  <2>7. /\ s \in Nat /\ d \in Nat /\ a \in Nat /\ b \in Nat /\ j \in Nat
        /\ S[k] = s + a /\ D[k] = d + b /\ k = j + 1
    BY <1>2, <1>3, <1>4, <1>5, <2>4
  <2>8. s * 1000 <= d * Rate + j * Rate /\ a * 1000 <= b * Rate + Rate
    BY <2>5, <2>6
  <2> HIDE DEF s, d, a, b, j
  <2>9. (d + b) * Rate = d * Rate + b * Rate /\ (j + 1) * Rate = j * Rate + Rate /\ (s + a) * 1000 = s * 1000 + a * 1000
    BY <1>1, <2>7
  <2>10. d * Rate \in Nat /\ b * Rate \in Nat /\ j * Rate \in Nat
    BY <1>1, <2>7
  <2>11. (s + a) * 1000 <= (d + b) * Rate + (j + 1) * Rate
    BY <1>1, <2>7, <2>8, <2>9, <2>10
  <2> QED
    BY <2>2, <2>7, <2>11
<1>7. \A k \in 0..N : S[k] * 1000 <= D[k] * Rate + k * Rate
  BY <1>6
<1> QED
  BY <1>4, <1>7 DEF S, D, ss, ds, N

\* The audio and the texts of a package are as many samples as its clips.
LEMMA PayloadsSummed ==
  ASSUME NEW q, Len(q) \in Nat, \A k \in 1..Len(q) : Length(q[k].source) \in Nat
  PROVE  /\ \A k \in 1..Len(q) : /\ Size(Payloads(q)[Audio(k)]) = Length(q[k].source)
                                 /\ Size(Payloads(q)[Text(k)]) = 0
         /\ Bytes(Payloads(q), DOMAIN Payloads(q))
              = Accumulated([k \in 1..Len(q) |-> Length(q[k].source)])[Len(q)]
<1> DEFINE N == Len(q)
           p == Payloads(q)
           ss == [k \in 1..Len(q) |-> Length(q[k].source)]
           S == Accumulated(ss)
<1>1. N \in Nat /\ DOMAIN p = Names(N)
  BY PayloadNames
<1>2. \A k \in 1..N : Audio(k) \in Names(N) /\ Text(k) \in Names(N)
  BY DEF Names
<1>3. \A k : Audio(k)[1] = "audio" /\ Audio(k)[2] = k /\ Text(k)[1] = "text" /\ Text(k)[2] = k
  BY DEF Audio, Text
<1>4. ASSUME NEW k \in 1..N
      PROVE  Size(p[Audio(k)]) = Length(q[k].source) /\ Size(p[Text(k)]) = 0
  <2>1. \A name \in Names(N) :
          p[name] = LET c == q[name[2]] IN
                    IF name[1] = "audio" THEN [kind |-> "wav", source |-> c.source]
                    ELSE [kind |-> "txt", words |-> [n \in 1..Len(c.words) |-> c.words[n].id]]
    BY DEF Payloads, Names
  <2> HIDE DEF p
  <2> DEFINE Made(name) == LET c == q[name[2]] IN
                    IF name[1] = "audio" THEN [kind |-> "wav", source |-> c.source]
                    ELSE [kind |-> "txt", words |-> [n \in 1..Len(c.words) |-> c.words[n].id]]
  <2>4. p[Audio(k)] = Made(Audio(k)) /\ p[Text(k)] = Made(Text(k))
    BY <1>2, <2>1
  <2>2. p[Audio(k)] = [kind |-> "wav", source |-> q[k].source]
    BY <1>3, <2>4
  <2>3. p[Text(k)] = [kind |-> "txt", words |-> [n \in 1..Len(q[k].words) |-> q[k].words[n].id]]
    BY <1>3, <2>4
  <2> QED
    BY <2>2, <2>3 DEF Size
<1>5. Len(ss) = N /\ \A k \in 1..N : ss[k] = Length(q[k].source) /\ ss[k] \in Nat
  BY <1>1
<1> HIDE DEF ss, N
<1>6. /\ S[0] = 0 /\ \A k \in 1..N : S[k] = S[k - 1] + ss[k]
      /\ \A k \in 0..N : S[k] \in Nat
  BY <1>1, <1>5, RunningTotals
<1> HIDE DEF S, p
<1>7. \A name \in Names(N) : Size(p[name]) \in Nat
  <2> SUFFICES ASSUME NEW name \in Names(N) PROVE Size(p[name]) \in Nat
    OBVIOUS
  <2>1. \E k \in 1..N : name = Audio(k) \/ name = Text(k)
    BY DEF Names
  <2> QED
    BY <1>4, <1>5, <2>1
<1>8. IsFiniteSet(Names(N))
  BY <1>1, NamesInOrder
<1>12. PICK sum : Adds(sum, p, Names(N))
  <2>1. Sized(p, Names(N))
    BY <1>7, <1>8 DEF Sized
  <2> QED
    BY <2>1, SumInAnyOrder
<1>9. /\ sum[Names(N)] = Bytes(p, Names(N))
      /\ sum[{}] = 0
      /\ \A T \in SUBSET Names(N) : sum[T] \in Nat
      /\ \A T \in SUBSET Names(N) : \A x \in T : sum[T] = Size(p[x]) + sum[T \ {x}]
  BY <1>12 DEF Adds
<1> DEFINE Bad == {k \in 0..N : sum[Names(k)] # S[k]}
<1>10. ASSUME Bad # {} PROVE FALSE
  <2>1. PICK k \in Bad : \A l \in Bad : k <= l
    <3>1. Bad \subseteq Nat
      OBVIOUS
    <3> HIDE DEF Bad
    <3> QED
      BY <1>10, <3>1, SmallestExists
  <2>2. k \in 0..N /\ sum[Names(k)] # S[k]
    BY <2>1
  <2>3. k # 0
    <3>1. Names(0) = {}
      BY DEF Names
    <3> QED
      BY <1>6, <1>9, <2>2, <3>1
  <2>4. k \in 1..N /\ k - 1 \in 0..N /\ ~(k <= k - 1)
    BY <1>1, <2>2, <2>3
  <2>5. sum[Names(k - 1)] = S[k - 1]
    BY <2>1, <2>4
  <2>6. Names(k) \subseteq Names(N) /\ Audio(k) \in Names(k) /\ Text(k) \in Names(k) \ {Audio(k)}
    <3>1. 1..k \subseteq 1..N /\ k \in 1..k
      BY <1>1, <2>4
    <3>2. Audio(k) # Text(k)
      BY <1>3
    <3> QED
      BY <3>1, <3>2 DEF Names
  <2>7. (Names(k) \ {Audio(k)}) \ {Text(k)} = Names(k - 1)
    <3>1. \A l : l \in 1..k <=> l \in 1..(k - 1) \/ l = k
      BY <1>1, <2>4
    <3>2. k \notin 1..(k - 1)
      BY <1>1, <2>4
    <3>3. \A a, b : Audio(a) # Text(b) /\ (Audio(a) = Audio(b) => a = b) /\ (Text(a) = Text(b) => a = b)
      BY DEF Audio, Text
    <3>4. \A name : name \in Names(k) <=> name \in Names(k - 1) \/ name = Audio(k) \/ name = Text(k)
      BY <3>1 DEF Names
    <3>5. Audio(k) \notin Names(k - 1) /\ Text(k) \notin Names(k - 1)
      BY <3>2, <3>3 DEF Names
    <3> QED
      BY <3>4, <3>5
  <2>8. sum[Names(k)] = Size(p[Audio(k)]) + sum[Names(k) \ {Audio(k)}]
    BY <1>9, <2>6
  <2>9. sum[Names(k) \ {Audio(k)}] = Size(p[Text(k)]) + sum[Names(k - 1)]
    <3>1. Names(k) \ {Audio(k)} \in SUBSET Names(N)
      BY <2>6
    <3> QED
      BY <1>9, <2>6, <2>7, <3>1
  <2>10. sum[Names(k)] = ss[k] + (0 + S[k - 1])
    BY <1>4, <1>5, <2>4, <2>5, <2>8, <2>9
  <2>11. S[k] = S[k - 1] + ss[k] /\ S[k - 1] \in Nat /\ ss[k] \in Nat
    BY <1>5, <1>6, <2>4
  <2> QED
    BY <2>2, <2>10, <2>11
<1>11. sum[Names(N)] = S[N]
  <2>1. N \in 0..N
    BY <1>1
  <2> QED
    BY <1>10, <2>1
<1> QED
  BY <1>1, <1>4, <1>9, <1>11 DEF p, S, ss, N

\* The inductive invariant of the gates: what they let through is what is packed.
GatesInv ==
  stage \in {"rechecking", "eligible"} =>
    /\ Len(clips) > 0 /\ Total(clips) \in MinTotalMs..MaxTotalMs
    /\ \A k \in 1..Len(clips) : ClipPasses(clips[k].source, clips[k].words)

LEMMA GatesStart == (\E s \in Transcripts : CopyInit(s)) => GatesInv
BY DEF CopyInit, AnalysisInit, GatesInv

LEMMA GatesSteps == WindowsInv /\ ClipsInv /\ GatesInv /\ [CopyNext]_copyVars => GatesInv'
<1> SUFFICES ASSUME WindowsInv, ClipsInv, GatesInv, [CopyNext]_copyVars,
                    stage' \in {"rechecking", "eligible"}
             PROVE  /\ Len(clips') > 0 /\ Total(clips') \in MinTotalMs..MaxTotalMs
                    /\ \A k \in 1..Len(clips') : ClipPasses(clips'[k].source, clips'[k].words)
  BY DEF GatesInv
<1>1. CASE NextWindow
  BY <1>1 DEF NextWindow
<1>2. ASSUME NEW output, Classify(output) PROVE FALSE
  BY <1>2 DEF Classify
<1>3. CASE PlanRemovals
  BY <1>3 DEF PlanRemovals
<1>4. CASE RefusePlan
  BY <1>4 DEF RefusePlan, Reject
<1>5. CASE GrowRemovals
  BY <1>5 DEF GrowRemovals
<1>6. ASSUME NEW dull, CutClips(dull)
      PROVE  /\ Len(clips') > 0 /\ Total(clips') \in MinTotalMs..MaxTotalMs
             /\ \A k \in 1..Len(clips') : ClipPasses(clips'[k].source, clips'[k].words)
  <2>1. stage = "cutting" /\ SessionPasses(Candidates(dull)) /\ clips' = Placed(Candidates(dull))
    BY <1>6 DEF CutClips, Reject
  <2>2. WordsGiven /\ WordsTimed /\ ~AlignmentUnusable(Words)
    BY <2>1 DEF WindowsInv, ClipsInv, Planned
  <2>3. Candidates(dull) # <<>> /\ Total(Candidates(dull)) \in MinTotalMs..MaxTotalMs
    BY <2>1 DEF SessionPasses
  <2>4. /\ Len(Placed(Candidates(dull))) > 0
        /\ Total(Placed(Candidates(dull))) = Total(Candidates(dull))
        /\ \A k \in 1..Len(Placed(Candidates(dull))) :
             ClipPasses(Placed(Candidates(dull))[k].source, Placed(Candidates(dull))[k].words)
    BY <2>2, <2>3, CandidatesLeft
  <2> QED
    BY <2>1, <2>3, <2>4
<1>7. ASSUME NEW verdict, Recheck(verdict)
      PROVE  stage = "rechecking" /\ clips' = clips
  BY <1>7 DEF Recheck, Reject
<1>8. CASE Deliver
  BY <1>8, DeliverKeeps
<1>9. CASE UNCHANGED copyVars
  BY <1>9 DEF copyVars, analysisVars, datasetVars, GatesInv
<1>10. CASE stage = "rechecking" /\ clips' = clips
  BY <1>10 DEF GatesInv
<1> QED
  BY <1>1, <1>2, <1>3, <1>4, <1>5, <1>6, <1>7, <1>8, <1>9, <1>10 DEF CopyNext, Analyze, BuildDataset

\* A clip as long and a session as long as the gates let through are within the limits of a
\* package, the rounding of each clip's duration allowed for.
LimitsFit ==
  /\ (MaxClipMs + 1) * Rate <= 1000 * MaxClipBytes
  /\ (MaxTotalMs + MaxClips) * Rate <= 1000 * MaxPayloadBytes

LEMMA PassedIsPacked ==
  ASSUME LimitsFit, NEW q, Laid(q), \A n \in 1..Len(q) : Filled(q[n]),
         Len(q) > 0, Len(q) <= MaxClips, Total(q) \in MinTotalMs..MaxTotalMs,
         \A k \in 1..Len(q) : ClipPasses(q[k].source, q[k].words)
  PROVE  ValidPackage(Manifest(q), Payloads(q))
<1> DEFINE N == Len(q)
           m == Manifest(q)
           p == Payloads(q)
<1>1. /\ N \in Nat /\ N \in 1..MaxClips
      /\ {Rate, MaxClips, MaxClipMs, MinClipMs, MaxTotalMs, MinTotalMs, MaxClipBytes, MaxPayloadBytes} \subseteq Nat
  BY DatasetAssumption, PackageAssumption DEF Laid
<1>2. ASSUME NEW k \in 1..N
      PROVE  /\ Length(q[k].source) \in Nat /\ DurationMs(Length(q[k].source)) <= MaxClipMs
             /\ DurationMs(Length(q[k].source)) \in Nat
             /\ Len(q[k].words) \in Nat /\ Len(q[k].words) > 0
  <2>1. Filled(q[k]) /\ ClipPasses(q[k].source, q[k].words)
    OBVIOUS
  <2>2. Length(q[k].source) \in Nat
    BY <2>1 DEF Filled, Length
  <2>3. DurationMs(Length(q[k].source)) \in MinClipMs..MaxClipMs /\ Len(q[k].words) > 0
    BY <2>1 DEF ClipPasses
  <2>4. DurationMs(Length(q[k].source)) \in Nat
    BY <2>2, DurationIsClose
  <2>5. Len(q[k].words) \in Nat
    BY <2>1 DEF Filled
  <2> QED
    BY <1>1, <2>2, <2>3, <2>4, <2>5
<1>3. /\ DOMAIN p = Names(N)
      /\ \A k \in 1..N : Size(p[Audio(k)]) = Length(q[k].source) /\ Size(p[Text(k)]) = 0
      /\ Bytes(p, DOMAIN p) = Accumulated([k \in 1..N |-> Length(q[k].source)])[N]
  BY <1>1, <1>2, PayloadNames, PayloadsSummed
\* Each clip fits.
<1>4. ASSUME NEW name \in DOMAIN p PROVE Size(p[name]) <= MaxClipBytes
  <2>1. PICK k \in 1..N : name = Audio(k) \/ name = Text(k)
    BY <1>3 DEF Names
  <2>2. Size(p[name]) = Length(q[k].source) \/ Size(p[name]) = 0
    BY <1>3, <2>1
  <2> DEFINE n == Length(q[k].source)
             d == DurationMs(n)
  <2>3. n \in Nat /\ d \in Nat /\ d <= MaxClipMs /\ n * 1000 <= d * Rate + Rate
    BY <1>2, DurationIsClose
  <2> HIDE DEF n, d
  <2>4. d * Rate + Rate <= (MaxClipMs + 1) * Rate
    <3>1. MaxClipMs \in Nat /\ Rate \in Nat
      BY <1>1
    <3>2. d * Rate <= MaxClipMs * Rate
      BY <2>3, <3>1
    <3>3. (MaxClipMs + 1) * Rate = MaxClipMs * Rate + Rate
      BY <3>1
    <3>4. d * Rate \in Nat /\ MaxClipMs * Rate \in Nat
      BY <2>3, <3>1
    <3> QED
      BY <3>1, <3>2, <3>3, <3>4
  <2>5. n <= MaxClipBytes
    <3>1. (MaxClipMs + 1) * Rate <= 1000 * MaxClipBytes
      BY DEF LimitsFit
    <3>2. d * Rate + Rate \in Nat /\ (MaxClipMs + 1) * Rate \in Nat /\ MaxClipBytes \in Nat
      BY <1>1, <2>3
    <3>3. n * 1000 <= 1000 * MaxClipBytes
      BY <2>3, <2>4, <3>1, <3>2
    <3> QED
      BY <2>3, <3>2, <3>3
  <2>6. 0 <= MaxClipBytes
    BY <1>1
  <2> QED
    BY <2>2, <2>5, <2>6 DEF n
\* And all together.
<1>5. Bytes(p, DOMAIN p) <= MaxPayloadBytes
  <2> DEFINE s == Accumulated([k \in 1..N |-> Length(q[k].source)])[N]
             t == Total(q)
  <2>1. s \in Nat /\ s * 1000 <= t * Rate + N * Rate
    <3>1. N \in 0..N
      BY <1>1
    <3> QED
      BY <1>1, <1>2, <3>1, SamplesAreFew DEF Total
  <2>2. t \in MinTotalMs..MaxTotalMs
    OBVIOUS
  <2> HIDE DEF s, t
  <2>3. t \in Nat /\ t <= MaxTotalMs /\ N \in Nat /\ N <= MaxClips /\ Rate \in Nat /\ MaxTotalMs \in Nat
        /\ MaxClips \in Nat /\ MaxPayloadBytes \in Nat
    BY <1>1, <2>2
  <2> HIDE DEF N
  <2>4. t * Rate <= MaxTotalMs * Rate /\ N * Rate <= MaxClips * Rate
    BY <2>3
  <2>5. (MaxTotalMs + MaxClips) * Rate = MaxTotalMs * Rate + MaxClips * Rate
    BY <2>3
  <2>6. (MaxTotalMs + MaxClips) * Rate <= 1000 * MaxPayloadBytes
    BY DEF LimitsFit
  <2>7. t * Rate \in Nat /\ N * Rate \in Nat /\ MaxTotalMs * Rate \in Nat /\ MaxClips * Rate \in Nat
    BY <2>3
  <2>8. s * 1000 <= 1000 * MaxPayloadBytes
    BY <2>1, <2>3, <2>4, <2>5, <2>6, <2>7
  <2>9. s <= MaxPayloadBytes
    BY <2>1, <2>3, <2>8
  <2> QED
    BY <1>3, <2>9 DEF s, N
<1>6. WithinBounds(p)
  BY <1>4, <1>5 DEF WithinBounds, Bytes
\* The entries describe the payloads.
<1>7. /\ m.clipCount = N /\ m.durationMs = Total(q) /\ m.checksums = p
      /\ m.quality = [durationMs |-> Total(q), wordCount |-> WordCount(q), clipCount |-> N]
      /\ m.clips = [i \in 1..N |->
           [audio |-> Audio(i), text |-> Text(i), sha |-> p[Audio(i)],
            durationMs |-> DurationMs(Length(q[i].source)), wordCount |-> Len(q[i].words)]]
  BY DEF Manifest
<1>8. /\ Len(m.clips) = N /\ DOMAIN m.clips = 1..N
      /\ \A i \in 1..N : m.clips[i] =
           [audio |-> Audio(i), text |-> Text(i), sha |-> p[Audio(i)],
            durationMs |-> DurationMs(Length(q[i].source)), wordCount |-> Len(q[i].words)]
  <2> HIDE DEF m, p
  <2> QED
    BY <1>1, <1>7
<1>9. ASSUME NEW i \in 1..N
      PROVE  /\ p[Audio(i)] = [kind |-> "wav", source |-> q[i].source]
             /\ p[Text(i)] = [kind |-> "txt", words |-> [n \in 1..Len(q[i].words) |-> q[i].words[n].id]]
  <2> DEFINE Made(name) == LET c == q[name[2]] IN
                    IF name[1] = "audio" THEN [kind |-> "wav", source |-> c.source]
                    ELSE [kind |-> "txt", words |-> [n \in 1..Len(c.words) |-> c.words[n].id]]
  <2>1. \A name \in Names(N) : p[name] = Made(name)
    BY DEF Payloads, Names
  <2>2. Audio(i) \in Names(N) /\ Text(i) \in Names(N)
    BY DEF Names
  <2> HIDE DEF p
  <2>3. p[Audio(i)] = Made(Audio(i)) /\ p[Text(i)] = Made(Text(i))
    BY <2>1, <2>2
  <2>4. Audio(i)[1] = "audio" /\ Audio(i)[2] = i /\ Text(i)[1] = "text" /\ Text(i)[2] = i
    BY DEF Audio, Text
  <2> QED
    BY <2>3, <2>4
<1> HIDE DEF m, p
<1>10. ASSUME NEW i \in 1..N PROVE ClipValid(m.clips[i], i, p)
  <2> DEFINE c == m.clips[i]
             words == [n \in 1..Len(q[i].words) |-> q[i].words[n].id]
  <2>1. /\ c.audio = Audio(i) /\ c.text = Text(i) /\ c.sha = p[Audio(i)]
        /\ c.durationMs = DurationMs(Length(q[i].source)) /\ c.wordCount = Len(q[i].words)
    <3>1. c = [audio |-> Audio(i), text |-> Text(i), sha |-> p[Audio(i)],
               durationMs |-> DurationMs(Length(q[i].source)), wordCount |-> Len(q[i].words)]
      BY <1>8
    <3> HIDE DEF c
    <3> QED
      BY <3>1
  <2>2. Audio(i) \in DOMAIN p /\ Text(i) \in DOMAIN p
    BY <1>3 DEF Names
  <2>3. p[Audio(i)].kind = "wav" /\ Size(p[Audio(i)]) = Length(q[i].source)
    <3>1. p[Audio(i)] = [kind |-> "wav", source |-> q[i].source]
      BY <1>9
    <3>2. p[Audio(i)].kind = "wav"
      BY <3>1
    <3> QED
      BY <1>3, <3>2
  <2>4. p[Text(i)].kind = "txt" /\ p[Text(i)].words = words
    <3>1. p[Text(i)] = [kind |-> "txt", words |-> words]
      BY <1>9
    <3> HIDE DEF words
    <3> QED
      BY <3>1
  <2>5. Len(words) = Len(q[i].words) /\ words # <<>>
    <3>1. Len(q[i].words) \in Nat /\ Len(q[i].words) > 0
      BY <1>2
    <3>2. Len(words) = Len(q[i].words)
      BY <3>1
    <3>3. Len(<<>>) = 0
      OBVIOUS
    <3> HIDE DEF words
    <3> QED
      BY <3>1, <3>2, <3>3
  <2> HIDE DEF c, words
  <2>6. c.audio = Audio(i) /\ c.text = Text(i) /\ {c.audio, c.text} \subseteq DOMAIN p
    BY <2>1, <2>2
  <2>7. p[c.audio].kind = "wav" /\ c.sha = p[c.audio] /\ c.durationMs = DurationMs(Size(p[c.audio]))
    BY <2>1, <2>3
  <2>8. p[c.text].kind = "txt" /\ p[c.text].words # <<>> /\ c.wordCount = Len(p[c.text].words)
    BY <2>1, <2>4, <2>5
  <2> QED
    BY <2>6, <2>7, <2>8 DEF ClipValid, c
<1>18. ASSUME NEW i \in 1..N
      PROVE  /\ m.clips[i].audio = Audio(i) /\ m.clips[i].text = Text(i)
             /\ m.clips[i].durationMs = DurationMs(Length(q[i].source))
             /\ m.clips[i].wordCount = Len(q[i].words)
  <2> DEFINE c == m.clips[i]
  <2>1. c = [audio |-> Audio(i), text |-> Text(i), sha |-> p[Audio(i)],
             durationMs |-> DurationMs(Length(q[i].source)), wordCount |-> Len(q[i].words)]
    BY <1>8
  <2> HIDE DEF c
  <2>2. /\ c.audio = Audio(i) /\ c.text = Text(i)
        /\ c.durationMs = DurationMs(Length(q[i].source)) /\ c.wordCount = Len(q[i].words)
    BY <2>1
  <2> QED
    BY <2>2 DEF c
<1>11. DOMAIN p = UNION {{c.audio, c.text} : c \in ToSet(m.clips)}
  <2>1. ToSet(m.clips) = {m.clips[i] : i \in 1..N}
    BY <1>8 DEF ToSet
  <2>2. \A name : (\E c \in ToSet(m.clips) : name \in {c.audio, c.text})
                    <=> \E i \in 1..N : name = Audio(i) \/ name = Text(i)
    BY <1>18, <2>1
  <2>3. \A name : name \in DOMAIN p <=> \E i \in 1..N : name = Audio(i) \/ name = Text(i)
    BY <1>3 DEF Names
  <2> QED
    BY <2>2, <2>3
<1>12. ClipsValid(m, p)
  BY <1>7, <1>8, <1>10, <1>11 DEF ClipsValid
\* The sums.
<1>13. m.durationMs = ObservedMs(m.clips)
  <2>1. [n \in 1..Len(m.clips) |-> m.clips[n].durationMs] = [n \in 1..Len(q) |-> DurationMs(Length(q[n].source))]
    BY <1>8, <1>18
  <2> QED
    BY <1>7, <1>8, <2>1 DEF ObservedMs, Total
<1>14. WordCount(q) = ObservedWords(m.clips)
  <2>1. [n \in 1..Len(m.clips) |-> m.clips[n].wordCount] = [n \in 1..Len(q) |-> Len(q[n].words)]
    BY <1>8, <1>18
  <2> QED
    BY <1>8, <2>1 DEF ObservedWords, WordCount
<1>15. m.quality = [durationMs |-> m.durationMs, clipCount |-> m.clipCount, wordCount |-> ObservedWords(m.clips)]
  BY <1>7, <1>14
<1>16. ChecksumsCover(m, p)
  BY <1>7 DEF ChecksumsCover
<1>17. m.clipCount \in 1..MaxClips
  BY <1>1, <1>7
<1> QED
  BY <1>6, <1>12, <1>13, <1>15, <1>16, <1>17 DEF ValidPackage, m, p

\* Every eligible session within the number of clips can be packed, whatever the durations and the
\* texts (build_package, validate_package): the defaults of the settings satisfy LimitsFit.
THEOREM EligibleIsPackable == ASSUME LimitsFit PROVE CopySpec => []EligibleCanBePacked
<1>1. (\E s \in Transcripts : CopyInit(s)) => WindowsInv /\ AnswersInv /\ ClipsInv /\ GatesInv
  BY CopyStarts, ClipsStart, GatesStart
<1>2. WindowsInv /\ AnswersInv /\ ClipsInv /\ GatesInv /\ [CopyNext]_copyVars
        => WindowsInv' /\ AnswersInv' /\ ClipsInv' /\ GatesInv'
  BY CopySteps, ClipsSteps, GatesSteps
<1>3. WindowsInv /\ ClipsInv /\ GatesInv => EligibleCanBePacked
  <2> SUFFICES ASSUME WindowsInv, ClipsInv, GatesInv, stage = "eligible", Len(clips) <= MaxClips
               PROVE  ValidPackage(Manifest(clips), Payloads(clips))
    BY DEF EligibleCanBePacked
  <2>1. Laid(clips) /\ Ready
    BY DEF ClipsInv, Ready
  <2>2. \A n \in 1..Len(clips) : Filled(clips[n])
    BY <2>1, ClipsAreFilled DEF WindowsInv
  <2>3. /\ Len(clips) > 0 /\ Total(clips) \in MinTotalMs..MaxTotalMs
        /\ \A k \in 1..Len(clips) : ClipPasses(clips[k].source, clips[k].words)
    BY DEF GatesInv
  <2> QED
    BY <2>1, <2>2, <2>3, PassedIsPacked
<1> QED
  BY <1>1, <1>2, <1>3, PTL DEF CopySpec
=============================================================================
