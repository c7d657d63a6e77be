----------------------------- MODULE TrainingCopy -----------------------------
(***************************************************************************)
(* One session's training copy from its frozen words to the service's      *)
(* admission: the analysis, the cuts, the recheck, the package and its     *)
(* transfer, one after another.                                            *)
(***************************************************************************)
EXTENDS Package

CONSTANTS Transcripts,   \* the transcripts a session may end with
          Answers(_)  \* bound: what the model may answer when shown a window

\* The words of a frozen transcript are numbered from zero, and none ends before it
\* starts (Word::new).
ASSUME TranscriptsAssumption ==
  \A s \in Transcripts :
    /\ s.audio \in Nat /\ s.words \in Seq(ToSet(s.words))
    /\ \A i \in 1..Len(s.words) :
         /\ {"id", "start", "end"} \subseteq DOMAIN s.words[i] /\ s.words[i].id = i - 1
         /\ {s.words[i].start, s.words[i].end} \subseteq Nat /\ s.words[i].start <= s.words[i].end

copyVars == <<analysisVars, datasetVars, packageVars>>

CopyInit(s) ==
  /\ AnalysisInit(s)
  /\ selected = {} /\ whole = {} /\ clips = <<>>
  /\ built = NoArchive /\ archive = NoArchive /\ declared = NoArchive

Analyze ==
  /\ \/ NextWindow
     \/ /\ stage = "classifying"
        /\ \E output \in Answers(windows[Len(answers) + 1]) : Classify(output)
  /\ UNCHANGED datasetVars /\ UNCHANGED packageVars

BuildDataset ==
  /\ \/ PlanRemovals \/ RefusePlan \/ GrowRemovals
     \/ \E dull \in SUBSET Complement(Removed, Bound) : CutClips(dull)
     \/ \E verdict \in {"clean", "sensitive"} : Recheck(verdict)
  /\ UNCHANGED packageVars

Deliver == Pack \/ (\E harmed, early \in BOOLEAN : Transfer(harmed, early)) \/ Admit

CopyNext == Analyze \/ BuildDataset \/ Deliver

CopySpec == (\E s \in Transcripts : CopyInit(s)) /\ [][CopyNext]_copyVars
=============================================================================
