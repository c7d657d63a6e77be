------------------------------ MODULE Training ------------------------------
(***************************************************************************)
(* A personalization job: `dictation-server train' is a process of its own *)
(* on the database and the files that SampleStore describes.  It takes a   *)
(* snapshot of the samples, enters what it derives into the lineage        *)
(* statement by statement, works for hours on plaintext copies in a        *)
(* private directory, looks again whether it may deliver, and delivers.    *)
(* Reasons for keeping the base model are left out, measurements are       *)
(* outcomes.  MinExamples is the sum of the two minima of PromotionPolicy. *)
(***************************************************************************)
EXTENDS SampleStore

CONSTANT MinExamples

ASSUME TrainingAssumption == MinExamples \in Nat

VARIABLES
  tr,        \* the training process
  jobDirs,   \* jobs whose directory holds decrypted samples
  overtaken, \* jobs during which a sample was admitted, or which passed their last
             \* look before a deletion that did not find their delivery took effect
  lost       \* samples whose file a sweep took for an orphan during their admission

trainerVars == <<tr, jobDirs>>
vars == <<storeVars, trainerVars, overtaken, lost>>

Resting == [pc |-> "rest", job |-> 0, snapshot |-> {}, todo |-> {}]
Init == StoreInit /\ tr = Resting /\ jobDirs = {}
        /\ overtaken = {} /\ lost = {}

-----------------------------------------------------------------------------
TrAt(pc) == tr.pc = pc
Proceed(pc) == tr' = [tr EXCEPT !.pc = pc]
notJobs == <<samples, objects, stale, proc>>
Writes == MayWrite("train") /\ UNCHANGED <<notJobs, events, killed>>
Reads  == UNCHANGED <<notJobs, jobs, events, killed>>

\* finish_training_job: only a job that has not finished yet.
Finished(state) == [jobs EXCEPT ![tr.job].state = IF @ = "running" THEN state ELSE @]

\* Every way out of the job removes its directory.
Leave_Mut == tr' = Resting /\ UNCHANGED jobDirs
Leave == tr' = Resting /\ jobDirs' = jobDirs \ {tr.job}

JobCancelled == jobs[tr.job].state = "cancelled"

StartJob_Mut ==
  /\ TrAt("rest") /\ Writes
  /\ \E j \in Jobs :
       /\ jobs[j] = NoJob /\ \A i \in 1..(j - 1) : jobs[i] # NoJob
       /\ jobs' = [jobs EXCEPT ![j].state = "running"]
       /\ tr' = [Resting EXCEPT !.pc = "snapshot"]
  /\ UNCHANGED jobDirs
StartJob ==
  /\ TrAt("rest") /\ Writes
  /\ \E j \in Jobs :
       /\ jobs[j] = NoJob /\ \A i \in 1..(j - 1) : jobs[i] # NoJob
       /\ jobs' = [jobs EXCEPT ![j].state = "running"]
       /\ tr' = [Resting EXCEPT !.pc = "snapshot", !.job = j]
  /\ UNCHANGED jobDirs

\* "Consent is rechecked here, immediately before training."
TakeSnapshot ==
  /\ TrAt("snapshot") /\ Writes
  /\ IF Cardinality(Trainable) < MinExamples
     THEN jobs' = Finished("kept") /\ Leave
     ELSE /\ tr' = [tr EXCEPT !.pc = "dataset", !.snapshot = Trainable, !.todo = Trainable]
          /\ UNCHANGED <<jobs, jobDirs>>

\* add_node for the dataset: an edge from each sample, each a commit.
AddSampleEdge ==
  /\ TrAt("dataset") /\ Writes
  /\ \E s \in tr.todo :
       /\ jobs' = [jobs EXCEPT ![tr.job].dataset = @ \cup {s}]
       /\ tr' = [tr EXCEPT !.todo = @ \ {s}]
  /\ UNCHANGED jobDirs

AddJobNode ==
  /\ TrAt("dataset") /\ tr.todo = {} /\ Writes
  /\ jobs' = [jobs EXCEPT ![tr.job].chain = 1]
  /\ tr' = [tr EXCEPT !.pc = "read", !.todo = tr.snapshot]
  /\ UNCHANGED jobDirs

\* read_sample; a file that is missing ends the command, and the job stays running.
\* A sample whose clips do not decode is reported.  Plaintext is written after the
\* last one was read.
ReadSample ==
  /\ TrAt("read")
  /\ \/ /\ Reads
        /\ \E s \in tr.todo \cap bins : tr' = [tr EXCEPT !.todo = @ \ {s}]
        /\ UNCHANGED jobDirs
     \/ tr.todo \ bins # {} /\ Reads /\ Leave
     \/ tr.todo \cap bins # {} /\ Writes /\ jobs' = Finished("kept") /\ Leave
     \/ /\ tr.todo = {} /\ Reads
        /\ jobDirs' = jobDirs \cup {tr.job}
        /\ Proceed("train")

\* wait_for_process for the trainer, then for the quantizer; it stops on a
\* cancelled job, whose outcome comes first.
Wait(from, to) ==
  /\ TrAt(from)
  /\ \/ JobCancelled /\ Reads /\ Leave
     \/ ~JobCancelled /\ Writes /\ jobs' = Finished("kept") /\ Leave
     \/ ~JobCancelled /\ Reads /\ Proceed(to) /\ UNCHANGED jobDirs

\* Evaluation against the thresholds and the device budget.
Evaluate ==
  /\ TrAt("evaluate")
  /\ \/ Writes /\ jobs' = Finished("kept") /\ Leave
     \/ Reads /\ Proceed("recheck") /\ UNCHANGED jobDirs

\* "Consent may have been withdrawn while training ran."
Recheck ==
  /\ TrAt("recheck")
  /\ IF JobCancelled \/ Cardinality(Trainable) < Cardinality(tr.snapshot)
     THEN Writes /\ jobs' = Finished("cancelled") /\ Leave
     ELSE Reads /\ Proceed("build") /\ UNCHANGED jobDirs

\* The nodes of the build and of the delivery, then store_delivery: the artifact,
\* then its row.
AddBuildNode ==
  /\ TrAt("build") /\ Writes
  /\ jobs' = [jobs EXCEPT ![tr.job].chain = 2]
  /\ Proceed("delivery") /\ UNCHANGED jobDirs
AddDeliveryNode ==
  /\ TrAt("delivery") /\ Writes
  /\ jobs' = [jobs EXCEPT ![tr.job].chain = 3]
  /\ Proceed("artifact") /\ UNCHANGED jobDirs
WriteArtifact ==
  /\ TrAt("artifact") /\ UNCHANGED <<notJobs, events, killed, jobDirs>>
  /\ jobs' = [jobs EXCEPT ![tr.job].file = TRUE]
  /\ Proceed("row")
InsertDelivery ==
  /\ TrAt("row") /\ Writes
  /\ jobs' = [jobs EXCEPT ![tr.job].row = "live"]
  /\ Proceed("finish") /\ UNCHANGED jobDirs
FinishJob == TrAt("finish") /\ Writes /\ jobs' = Finished("delivered") /\ Leave

EndTrainer ==
  /\ Event /\ ~TrAt("rest")
  /\ tr' = Resting /\ killed' = killed \cup {"train"}
  /\ UNCHANGED <<notJobs, jobs, jobDirs>>

-----------------------------------------------------------------------------
Work == \/ StartJob \/ TakeSnapshot \/ AddSampleEdge \/ AddJobNode \/ ReadSample
        \/ Wait("train", "quantize") \/ Wait("quantize", "evaluate")
        \/ Evaluate \/ Recheck \/ AddBuildNode \/ AddDeliveryNode \/ WriteArtifact
        \/ InsertDelivery \/ FinishJob \/ EndTrainer

\* What Recheck compares is a number, and nothing is compared after it.
LastLookTaken == tr.pc \in {"build", "delivery", "artifact", "row", "finish"}
Deleting == \E p \in Procs : proc[p].pc = "rows"
Overtaken ==
  IF \/ ~TrAt("rest") /\ \E s \in Sessions : rows[s] = 0 /\ rows'[s] # 0
     \/ LastLookTaken /\ \E p \in Procs : proc[p].pc = "derive" /\ proc'[p].pc = "rows"
     \/ TrAt("recheck") /\ tr'.pc = "build" /\ Deleting
  THEN {tr.job} ELSE {}

\* The sweep of the other process looks for a row that is about to be committed.
Lost == {s \in bins \ bins' : /\ proc["cli"].pc = "orphan"
                              /\ s \in Held \/ At("http", "commit")}

Next == /\ \/ StoreNext /\ UNCHANGED trainerVars
           \/ Work
        /\ overtaken' = overtaken \cup Overtaken
        /\ lost' = lost \cup Lost

Spec == Init /\ [][Next]_vars

-----------------------------------------------------------------------------
(* Properties *)

Quiet == \A p \in Procs : proc[p].pc = "idle"

\* delete_samples, "affected personalized models are revoked and deleted whole":
\* between requests, no model that is offered to the device was trained on a sample
\* that has been deleted, however the deletion met the job; except for the two ways
\* the code leaves open (overtaken).  And what is offered is there to be fetched,
\* unless a deletion was cut short.
ModelsFollowDeletions ==
  Quiet => \A j \in Jobs \ overtaken :
             jobs[j].row = "live" => /\ jobs[j].dataset \cap tombs = {}
                                     /\ killed \cap Procs = {} => jobs[j].file

\* admit_sample, "atomically", and delete_samples: a sample has its file, whichever
\* process ended when and whatever was swept, except for a sweep by the other process
\* that saw the file before the row (lost); and files without a row are left only
\* where a process ended, for the next sweep.
FilesMatchRows ==
  Quiet => /\ Held \ lost \subseteq bins
           /\ killed \cap Procs = {} => bins \subseteq Held /\ parts = {}

\* "Decrypted training material never outlives the job", on any way out of it that
\* the process lives to see.
NoPlaintextLeft == TrAt("rest") /\ "train" \notin killed => jobDirs = {}

\* The service is what its clients take it for, commit by commit: consents and
\* receipts never change back, a deleted sample never returns, a sample is admitted
\* with its receipt and under an active consent only, whatever process ends when.
Told == [c \in Grants |-> IF consents[c] = "expired" THEN "active" ELSE consents[c]]
Record == [consents |-> Told, held |-> Held, buried |-> tombs, receipts |-> receipts]
Ledger == INSTANCE SampleLedger WITH sv <- Record
ImplementsLedger == Ledger!Spec

-----------------------------------------------------------------------------
(* What the code's comments say, and what it does not do.                   *)

\* "Deletes samples and everything derived from them": a job one of whose samples
\* was deleted while it ran does not get past its last look.
LastLookSeesDeletions ==
  [][Quiet /\ TrAt("recheck") /\ tr.snapshot \cap tombs # {} => tr'.pc # "build"]_vars
=============================================================================
