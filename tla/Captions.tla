------------------------------ MODULE Captions ------------------------------
(***************************************************************************)
(* Live captions: partial passes over the part of a recording that is not  *)
(* committed yet, and a client that replaces the text of a segment by its  *)
(* identity and revision.  A text is the sequence of the non-empty texts   *)
(* joined in it.                                                           *)
(***************************************************************************)
EXTENDS Integers, Sequences, FiniteSets, FiniteSetsExt, SequencesExt

CONSTANTS
  Texts,          \* what a segment may say; the empty sequence stands for no text
  StabilityMargin, MaxTail,    \* LiveSettings
  Lag,                         \* what is recorded between a length and its snapshot
  MaxAudio, MaxSegments        \* bounds: length of a recording, segments of a pass

ASSUME CaptionsAssumption ==
  {StabilityMargin, MaxTail, Lag, MaxAudio, MaxSegments} \subseteq Nat

VARIABLES
  live,    \* LiveReconciler: committed_until, committed, provisional, next_index
  heard,   \* samples recorded when the last pass was asked for
  shown    \* the client: segment -> the update it applied last

captionVars == <<live, heard, shown>>

NoSegment == [id |-> -1, revision |-> 0, text |-> <<>>]

CaptionsInit ==
  /\ live = [until |-> 0, committed |-> <<>>, provisional |-> NoSegment, next |-> 0, updates |-> <<>>]
  /\ heard = 0 /\ shown = <<>>

\* A revision of the provisional segment, or the first one of a new segment.
Revision_Mut(c, text) == [id |-> c.next, revision |-> 1, text |-> text]
Revision(c, text) ==
  IF c.provisional = NoSegment THEN [id |-> c.next, revision |-> 1, text |-> text]
  ELSE [id |-> c.provisional.id, revision |-> c.provisional.revision + 1, text |-> text]

\* How many segments are committed: leading ones that are stable, or all but the
\* last if the tail grew long.
Committable(segments, audioEnd) ==
  LET force  == audioEnd - live.until > MaxTail
      Ended(i) == segments[i].end <= (IF audioEnd > StabilityMargin
                                      THEN audioEnd - StabilityMargin ELSE 0)
  IN  Cardinality({k \in 1..(Len(segments) - 1) : \A i \in 1..k : force \/ Ended(i)})

\* What the next update goes by after n commitments: the first of them took over
\* the provisional segment, if there was one, each of the others opened a new one.
AfterCommits(n) ==
  IF n = 0 THEN [provisional |-> live.provisional, next |-> live.next]
  ELSE [provisional |-> NoSegment,
        next |-> live.next + n - (IF live.provisional = NoSegment THEN 0 ELSE 1)]

\* apply_pass: the commitments, and what is left as the provisional segment, if
\* that says something new.
Applied(segments, audioEnd) ==
  LET k       == Committable(segments, audioEnd)
      commits == [i \in 1..k |-> Revision(AfterCommits(i - 1), segments[i].text)]
      rest    == AfterCommits(k)
      tail    == FlattenSeq([i \in 1..(Len(segments) - k) |-> segments[k + i].text])
      revised == Revision(rest, tail)
      kept    == tail = <<>> \/ (rest.provisional # NoSegment /\ rest.provisional.text = tail)
  IN  [until       |-> Max({live.until} \cup {segments[i].end : i \in 1..k}),
       committed   |-> live.committed \o commits,
       provisional |-> IF kept THEN rest.provisional ELSE revised,
       next        |-> IF ~kept /\ rest.provisional = NoSegment THEN rest.next + 1 ELSE rest.next,
       updates     |-> IF kept THEN commits ELSE Append(commits, revised)]

\* A client replaces a segment by the last update that names it.
Replaced(view, updates) ==
  LET About(id) == {i \in 1..Len(updates) : updates[i].id = id}
  IN  [id \in DOMAIN view \cup {updates[i].id : i \in 1..Len(updates)} |->
         IF About(id) = {} THEN view[id] ELSE updates[Max(About(id))]]

\* A pass over what was recorded since the last commitment, and the client
\* applying the updates it announces.
Pass(segments, audioEnd) ==
  /\ heard < audioEnd /\ heard' = audioEnd
  /\ live' = Applied(segments, audioEnd)
  /\ shown' = Replaced(shown, live'.updates)

\* What a pass may recognise: segments in order, after what is committed.  The
\* snapshot is taken after the length was asked for and may reach past it.
Recognised(audioEnd) ==
  {segments \in UNION {[1..n -> [end : live.until..(audioEnd + Lag), text : Texts]] : n \in 0..MaxSegments} :
     \A i \in 2..Len(segments) : segments[i - 1].end < segments[i].end}

CaptionsNext ==
  \E audioEnd \in 1..MaxAudio : \E segments \in Recognised(audioEnd) : Pass(segments, audioEnd)

CaptionsSpec == CaptionsInit /\ [][CaptionsNext]_captionVars

\* A client that applied every update shows exactly the committed segments in
\* their order and the provisional one after them, each in its last revision:
\* no segment stays on the screen twice and a committed one is never replaced
\* ("clients replace a segment's text by (segment_id, revision) rather than
\* appending").
CaptionsAgree ==
  LET all == IF live.provisional = NoSegment THEN live.committed
             ELSE Append(live.committed, live.provisional)
  IN  /\ DOMAIN shown = {all[i].id : i \in 1..Len(all)}
      /\ \A i \in 1..Len(all) : /\ shown[all[i].id] = all[i]
                                /\ i > 1 => all[i - 1].id < all[i].id
=============================================================================
