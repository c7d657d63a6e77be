--------------------------- MODULE TrainingProofs ---------------------------
(***************************************************************************)
(* The training service and its training process, for any number of        *)
(* samples, consents and jobs, and any number of requests, sweeps and ends *)
(* of a process.                                                           *)
(***************************************************************************)
EXTENDS Training, FiniteSetTheorems, TLAPS

Pc == {"idle", "rename", "commit", "cancel", "derive", "rows", "objects", "deliveries",
       "revokeAll", "cancelAll", "withdrawAll", "expired", "scan", "orphan"}

Progress == [pc : Pc, consent : {0} \cup Grants, todo : SUBSET Sessions,
             found : SUBSET Jobs, queue : SUBSET Sessions,
             then : {"idle", "deliveries", "expired"}]

StoreTypes ==
  /\ consents \in [Grants -> {"unknown", "active", "expired", "withdrawn"}]
  /\ rows \in [Sessions -> {0} \cup Grants]
  /\ receipts \in [Sessions -> {"none", "accepted", "refused"}]
  /\ tombs \subseteq Sessions /\ bins \subseteq Sessions /\ parts \subseteq Sessions
  /\ proc \in [Procs -> Progress]

\* What an admission under way has found, which nobody changes before it is committed.
Admitting == At("http", "rename") \/ At("http", "commit")
AdmissionInv ==
  Admitting =>
    \E s \in Sessions :
      /\ proc["http"].todo = {s} /\ proc["http"].consent \in Grants
      /\ receipts[s] = "none" /\ s \notin tombs /\ s \notin Held
      /\ consents[proc["http"].consent] \in {"active", "expired"}

\* A sample was accepted once, under a consent that was known.
AcceptedInv ==
  /\ IsFiniteSet(Held)
  /\ \A s \in Held : /\ receipts[s] = "accepted" /\ s \notin tombs
                     /\ consents[rows[s]] # "unknown"

\* The sweep of the other process deletes what was accepted.
Accepted == {s \in Sessions : receipts[s] = "accepted"}
SweepInv ==
  /\ At("cli", "expired") => proc["cli"].queue \subseteq Accepted
  /\ proc["cli"].pc \in {"derive", "rows", "objects"} =>
       /\ proc["cli"].then = "expired"
       /\ proc["cli"].queue \subseteq Accepted /\ proc["cli"].todo \subseteq Accepted
  /\ ~At("cli", "commit") /\ ~At("cli", "rename")

StoreInv == StoreTypes /\ AdmissionInv /\ AcceptedInv /\ SweepInv

-----------------------------------------------------------------------------
\* Whose removal an object file without a row waits for.
FilesInv ==
  /\ Held \ lost \subseteq bins
  /\ At("http", "commit") => proc["http"].todo \ lost \subseteq bins
  /\ \A p \in Procs : At(p, "objects") => proc[p].todo \subseteq tombs
  /\ At("http", "orphan") => proc["http"].todo \cap Held = {}
  /\ killed \cap Procs = {} =>
       /\ parts \subseteq IF At("http", "rename") THEN proc["http"].todo ELSE {}
       /\ \A s \in bins \ Held : \/ At("http", "commit") /\ s \in proc["http"].todo
                                 \/ \E p \in Procs : At(p, "objects") /\ s \in proc[p].todo

-----------------------------------------------------------------------------
Stage == {"rest", "snapshot", "dataset", "read", "train", "quantize", "evaluate", "recheck",
          "build", "delivery", "artifact", "row", "finish"}

\* How far the lineage of the job under way has come.
Chain(pc) == CASE pc \in {"snapshot", "dataset"} -> 0
               [] pc = "delivery" -> 2
               [] pc \in {"artifact", "row", "finish"} -> 3
               [] OTHER -> 1

JobTypes ==
  /\ tr \in [pc : Stage, job : Nat, snapshot : SUBSET Sessions, todo : SUBSET Sessions]
  /\ jobs \in [Jobs -> Job]

JobInv ==
  /\ JobTypes
  /\ ~TrAt("rest") =>
       /\ tr.job \in Jobs /\ jobs[tr.job].state # "none"
       /\ jobs[tr.job].chain = Chain(tr.pc)
       /\ tr.todo \subseteq tr.snapshot /\ jobs[tr.job].dataset \subseteq tr.snapshot
       /\ TrAt("snapshot") => tr.snapshot = {}
       /\ ~TrAt("finish") => jobs[tr.job].row = "none"
       /\ IsFiniteSet(tr.snapshot)
  /\ \A j \in Jobs : jobs[j].row # "none" => jobs[j].chain = 3 /\ jobs[j].state # "none"

DirsInv ==
  "train" \notin killed => IF TrAt("rest") THEN jobDirs = {} ELSE jobDirs \subseteq {tr.job}

\* What the job under way still knows, unless it was overtaken.
LookInv ==
  /\ tr.pc \notin {"rest", "snapshot"} /\ tr.job \notin overtaken =>
       /\ Trainable \subseteq tr.snapshot
       /\ LastLookTaken => tr.snapshot \cap tombs = {} /\ ~Deleting
       /\ TrAt("row") => jobs[tr.job].file

\* A model that is offered, and a deletion that has looked for what derives from its samples.
ModelsInv ==
  \A j \in Jobs \ overtaken :
    jobs[j].row = "live" =>
      /\ jobs[j].dataset \cap tombs = {}
      /\ \A p \in Procs : At(p, "rows") /\ jobs[j].dataset \cap proc[p].todo # {}
                            => j \in proc[p].found
      /\ \/ jobs[j].file
         \/ killed \cap Procs # {}
         \/ At("http", "revokeAll")
         \/ \E p \in Procs : At(p, "rows") /\ j \in proc[p].found

-----------------------------------------------------------------------------
(* Samples *)

\* The training process changes nothing of what the store's invariants are about.
LEMMA WorkLeavesSamples == Work => UNCHANGED <<notJobs>>
BY DEF Work, StartJob, TakeSnapshot, AddSampleEdge, AddJobNode, ReadSample, Wait, Evaluate, Recheck,
       AddBuildNode, AddDeliveryNode, WriteArtifact, InsertDelivery, FinishJob, EndTrainer,
       Writes, Reads, notJobs

LEMMA TypesStart == StoreInit => StoreTypes
BY StoreAssumption DEF StoreInit, StoreTypes, Idle, Progress, Pc, Procs

LEMMA DeleteTypes ==
  ASSUME StoreTypes, NEW p \in Procs, NEW from \in SUBSET Sessions,
         NEW then \in {"idle", "deliveries", "expired"}
  PROVE  Delete(p, from, then) \in [Procs -> Progress]
<1> DEFINE r == [proc[p] EXCEPT !.pc = IF from = {} THEN then ELSE "derive",
                                !.todo = from, !.then = then]
<1>1. proc[p] \in Progress /\ proc \in [Procs -> Progress]
  BY DEF StoreTypes
<1>2. r \in Progress
  BY <1>1 DEF Progress, Pc
<1>3. Delete(p, from, then) = [proc EXCEPT ![p] = r]
  BY <1>1 DEF Delete
<1> QED
  BY <1>1, <1>2, <1>3

LEMMA TypesStep == StoreTypes /\ [StoreNext]_storeVars => StoreTypes'
<1> SUFFICES ASSUME StoreTypes, [StoreNext]_storeVars PROVE StoreTypes'
  OBVIOUS
<1> USE DEF StoreTypes, Procs, samples, objects
<1>1. ASSUME NEW c \in Grants, PostConsent(c) PROVE StoreTypes'
  BY <1>1 DEF PostConsent
<1>2. ASSUME NEW c \in Grants, WithdrawConsent(c) PROVE StoreTypes'
  BY <1>2 DEF WithdrawConsent, Withdrawn, Idle, Progress, Pc
<1>3. ASSUME NEW s \in Sessions, NEW c \in Grants, WritePart(s, c) PROVE StoreTypes'
  BY <1>3 DEF WritePart, Idle, Progress, Pc
<1>4. ASSUME NEW s \in Sessions, Refuse(s) PROVE StoreTypes'
  BY <1>4 DEF Refuse
<1>5. ASSUME NEW s \in Sessions, DeleteSample(s) PROVE StoreTypes'
  BY <1>5, DeleteTypes DEF DeleteSample
<1>6. CASE RenamePart
  BY <1>6 DEF RenamePart, Goto, Progress, Pc
<1>7. CASE CommitSample
  BY <1>7 DEF CommitSample, Idle, Progress, Pc
<1>8. CASE CancelJobs
  BY <1>8, DeleteTypes DEF CancelJobs
<1>9. CASE DeleteEverything
  BY <1>9, DeleteTypes DEF DeleteEverything, Held
<1>10. CASE RemoveDeliveries \/ RevokeDeliveries \/ CancelEveryJob
  BY <1>10 DEF RemoveDeliveries, RevokeDeliveries, CancelEveryJob, Goto, Progress, Pc
<1>11. CASE WithdrawEveryConsent
  BY <1>11 DEF WithdrawEveryConsent, Withdrawn, Idle, Progress, Pc
<1>12. ASSUME NEW c \in Grants, ConsentExpires(c) PROVE StoreTypes'
  BY <1>12 DEF ConsentExpires
<1>13. ASSUME NEW s \in Sessions, SampleExpires(s) PROVE StoreTypes'
  BY <1>13 DEF SampleExpires
<1>14. ASSUME NEW p \in Procs, Derive(p) PROVE StoreTypes'
  BY <1>14 DEF Derive, Derived, Progress, Pc
<1>15. ASSUME NEW p \in Procs, DeleteRows(p) PROVE StoreTypes'
  BY <1>15 DEF DeleteRows, Goto, Progress, Pc
<1>16. ASSUME NEW p \in Procs, RemoveObjects(p) PROVE StoreTypes'
  BY <1>16 DEF RemoveObjects, Idle, Progress, Pc
<1>17. ASSUME NEW p \in Procs, BeginSweep(p) PROVE StoreTypes'
  BY <1>17 DEF BeginSweep, Held, Progress, Pc
<1>18. ASSUME NEW p \in Procs, SweepExpired(p) PROVE StoreTypes'
  <2>1. ASSUME NEW s \in proc[p].queue,
               proc' = [Delete(p, {s}, "expired") EXCEPT ![p].queue = @ \ {s}]
        PROVE  proc' \in [Procs -> Progress]
    <3> DEFINE d == Delete(p, {s}, "expired")
    <3>1. d \in [Procs -> Progress]
      <4>1. {s} \in SUBSET Sessions
        BY DEF Progress
      <4> QED
        BY <4>1, DeleteTypes
    <3> HIDE DEF d
    <3>2. [d[p] EXCEPT !.queue = @ \ {s}] \in Progress
      BY <3>1 DEF Progress
    <3>3. proc' = [d EXCEPT ![p] = [d[p] EXCEPT !.queue = @ \ {s}]]
      BY <2>1, <3>1 DEF d
    <3> QED
      BY <3>1, <3>2, <3>3
  <2>2. ASSUME proc' = [proc EXCEPT ![p].pc = "scan", ![p].queue = bins]
        PROVE  proc' \in [Procs -> Progress]
    BY <2>2 DEF Progress, Pc
  <2> QED
    BY <1>18, <2>1, <2>2 DEF SweepExpired
<1>19. ASSUME NEW p \in Procs, SweepFile(p) PROVE StoreTypes'
  BY <1>19 DEF SweepFile, Progress, Pc
<1>20. ASSUME NEW p \in Procs, SweepOrphan(p) \/ EndSweep(p) PROVE StoreTypes'
  BY <1>20 DEF SweepOrphan, EndSweep, Goto, Idle, Progress, Pc
<1>21. ASSUME NEW p \in Procs, EndProcess(p) PROVE StoreTypes'
  BY <1>21 DEF EndProcess, Idle, Progress, Pc
<1>22. CASE UNCHANGED storeVars
  BY <1>22 DEF storeVars
<1> QED
  BY <1>1, <1>2, <1>3, <1>4, <1>5, <1>6, <1>7, <1>8, <1>9, <1>10, <1>11,
     <1>12, <1>13, <1>14, <1>15, <1>16, <1>17, <1>18, <1>19, <1>20, <1>21, <1>22
  DEF StoreNext, Receive, Elapse, DeleteSamples, Sweep

\* What the handlers and the sweep do to a process, field by field.
Aimed(record, from, then) ==
  [record EXCEPT !.pc = IF from = {} THEN then ELSE "derive", !.todo = from, !.then = then]

LEMMA DeleteFields ==
  ASSUME StoreTypes, NEW p \in Procs, NEW from, NEW then
  PROVE  Delete(p, from, then) = [proc EXCEPT ![p] = Aimed(proc[p], from, then)]
BY DEF Delete, Aimed, StoreTypes, Progress

LEMMA SweepFields ==
  ASSUME StoreTypes, NEW p \in Procs, SweepExpired(p)
  PROVE  /\ \A q \in Procs \ {p} : proc'[q] = proc[q]
         /\ \/ \E s \in proc[p].queue :
                 proc'[p] = [Aimed(proc[p], {s}, "expired") EXCEPT !.queue = @ \ {s}]
            \/ proc'[p] = [proc[p] EXCEPT !.pc = "scan", !.queue = bins]
<1>1. ASSUME NEW s \in proc[p].queue,
             proc' = [Delete(p, {s}, "expired") EXCEPT ![p].queue = @ \ {s}]
      PROVE  /\ \A q \in Procs \ {p} : proc'[q] = proc[q]
             /\ proc'[p] = [Aimed(proc[p], {s}, "expired") EXCEPT !.queue = @ \ {s}]
  <2>1. proc' = [[proc EXCEPT ![p] = Aimed(proc[p], {s}, "expired")] EXCEPT ![p].queue = @ \ {s}]
    <3>1. Delete(p, {s}, "expired") = [proc EXCEPT ![p] = Aimed(proc[p], {s}, "expired")]
      BY DeleteFields, Zenon
    <3> QED
      BY <1>1, <3>1, Zenon
  <2> QED
    BY <2>1 DEF StoreTypes
<1>2. ASSUME proc' = [proc EXCEPT ![p].pc = "scan", ![p].queue = bins]
      PROVE  /\ \A q \in Procs \ {p} : proc'[q] = proc[q]
             /\ proc'[p] = [proc[p] EXCEPT !.pc = "scan", !.queue = bins]
  BY <1>2 DEF StoreTypes
<1> QED
  BY <1>1, <1>2 DEF SweepExpired

\* The requests that end in a deletion.
LEMMA RequestFields ==
  ASSUME StoreTypes, CancelJobs \/ DeleteEverything \/ \E s \in Sessions : DeleteSample(s)
  PROVE  /\ UNCHANGED <<samples, objects>> /\ proc'["cli"] = proc["cli"]
         /\ \E from \in SUBSET Sessions, then \in {"idle", "deliveries"} :
              proc'["http"] = Aimed(proc["http"], from, then)
<1>1. PICK from \in SUBSET Sessions, then \in {"idle", "deliveries"} :
        UNCHANGED <<samples, objects>> /\ proc' = Delete("http", from, then)
  <2>1. CASE CancelJobs
    <3>1. {s \in Sessions : rows[s] = proc["http"].consent} \in SUBSET Sessions
      OBVIOUS
    <3> QED
      BY <2>1, <3>1 DEF CancelJobs
  <2>2. CASE DeleteEverything
    <3>1. Held \in SUBSET Sessions
      BY DEF Held
    <3> QED
      BY <2>2, <3>1 DEF DeleteEverything
  <2>3. ASSUME NEW s \in Sessions, DeleteSample(s)
        PROVE  \E from \in SUBSET Sessions, then \in {"idle", "deliveries"} :
                 UNCHANGED <<samples, objects>> /\ proc' = Delete("http", from, then)
    <3>1. {s} \in SUBSET Sessions
      OBVIOUS
    <3> QED
      BY <2>3, <3>1 DEF DeleteSample
  <2> QED
    BY <2>1, <2>2, <2>3
<1>2. "http" \in Procs /\ proc' = [proc EXCEPT !["http"] = Aimed(proc["http"], from, then)]
  BY <1>1, DeleteFields DEF Procs
<1> QED
  BY <1>1, <1>2 DEF StoreTypes, Procs

\* Requests reach the store one after another, so that an admission is not disturbed by
\* another one, and the sweep of the other process only deletes what was accepted.
LEMMA AdmissionStep == StoreInv /\ StoreTypes' /\ [StoreNext]_storeVars => AdmissionInv'
<1> SUFFICES ASSUME StoreInv, StoreTypes', [StoreNext]_storeVars, Admitting'
             PROVE  \E s \in Sessions :
                      /\ proc'["http"].todo = {s} /\ proc'["http"].consent \in Grants
                      /\ receipts'[s] = "none" /\ s \notin tombs' /\ s \notin Held'
                      /\ consents'[proc'["http"].consent] \in {"active", "expired"}
  BY DEF AdmissionInv
<1> DEFINE Ok == \E s \in Sessions :
                      /\ proc'["http"].todo = {s} /\ proc'["http"].consent \in Grants
                      /\ receipts'[s] = "none" /\ s \notin tombs' /\ s \notin Held'
                      /\ consents'[proc'["http"].consent] \in {"active", "expired"}
<1> USE DEF At
<1>0. /\ "http" \in Procs /\ "cli" \in Procs /\ "http" # "cli" /\ DOMAIN proc = Procs
      /\ \A p \in Procs : proc[p] \in Progress /\ (p # "cli" => p = "http")
      /\ \A s \in Sessions : rows[s] \in {0} \cup Grants
  BY DEF StoreInv, StoreTypes, Procs
\* A step that leaves the admission and its sample alone.
<1>1. ASSUME Admitting, UNCHANGED <<proc["http"].todo, proc["http"].consent>>,
             \A s \in proc["http"].todo : UNCHANGED receipts[s] /\ (s \in tombs' => s \in tombs)
                                          /\ (s \in Held' => s \in Held),
             consents[proc["http"].consent] \in {"active", "expired"} =>
               consents'[proc["http"].consent] \in {"active", "expired"}
      PROVE  Ok
  BY <1>1 DEF StoreInv, AdmissionInv
<1>2. ASSUME NEW s \in Sessions, NEW c \in Grants, WritePart(s, c) PROVE Ok
  BY <1>2, <1>0 DEF WritePart, Admissible, Active, Idle, samples, Held
<1>3. CASE RenamePart
  BY <1>3, <1>1, <1>0 DEF RenamePart, Continue, Goto, samples, Admitting, Held, Progress
<1>4. ASSUME NEW p \in Procs, DeleteRows(p) PROVE Ok
  <2>1. p = "cli"
    BY <1>4, <1>0 DEF DeleteRows, Continue, Goto, Admitting, Progress
  <2>2. proc'["http"] = proc["http"] /\ Admitting
    BY <1>4, <2>1, <1>0 DEF DeleteRows, Continue, Goto, Admitting, Progress
  <2>3. PICK s \in Sessions : proc["http"].todo = {s} /\ receipts[s] = "none"
    BY <2>2 DEF StoreInv, AdmissionInv
  <2>4. s \notin proc["cli"].todo
    BY <1>4, <2>1, <2>3 DEF DeleteRows, Continue, StoreInv, SweepInv, Accepted
  <2>5. /\ UNCHANGED <<receipts, consents>>
        /\ tombs' = tombs \cup proc["cli"].todo /\ Held' \subseteq Held
    BY <1>4, <2>1 DEF DeleteRows, Held
  <2> QED
    BY <1>1, <2>2, <2>3, <2>4, <2>5
<1>5. ASSUME NEW c \in Grants, ConsentExpires(c) PROVE Ok
  BY <1>5, <1>1 DEF ConsentExpires, Admitting, Held, StoreInv, StoreTypes
<1>6. ASSUME NEW p \in Procs,
             Derive(p) \/ RemoveObjects(p) \/ SweepFile(p) \/ SweepOrphan(p) \/ EndSweep(p) \/ EndProcess(p)
      PROVE  Ok
  <2>1. CASE p = "http"
    <3>1. proc["http"].then \notin {"rename", "commit"}
      BY <1>0 DEF Progress
    <3>2. CASE Derive(p) \/ RemoveObjects(p) \/ SweepFile(p)
      <4>1. CASE Derive(p)
        BY <4>1, <2>1, <1>0 DEF Derive, Admitting, Progress
      <4>3. CASE SweepFile(p)
        BY <4>3, <2>1, <1>0 DEF SweepFile, Admitting, Progress
      <4>2. CASE RemoveObjects(p)
        BY <4>2, <3>1, <2>1, <1>0 DEF RemoveObjects, Idle, Admitting
      <4> QED
        BY <3>2, <4>1, <4>2, <4>3
    <3>3. CASE SweepOrphan(p) \/ EndSweep(p) \/ EndProcess(p)
      BY <3>3, <2>1, <1>0 DEF SweepOrphan, EndSweep, EndProcess, Continue, Goto, Idle, Admitting, Progress
    <3> QED
      BY <1>6, <3>2, <3>3
  <2>2. CASE p = "cli"
    BY <1>6, <2>2, <1>0, <1>1 DEF Derive, RemoveObjects, SweepFile, SweepOrphan, EndSweep, EndProcess, Continue, Goto,
         samples, Admitting, Held
  <2> QED
    BY <2>1, <2>2 DEF Procs
<1>7. ASSUME NEW p \in Procs, BeginSweep(p) \/ SweepExpired(p) PROVE Ok
  <2>1. CASE p = "http"
    <3>1. CASE BeginSweep(p)
      BY <3>1, <2>1, <1>0 DEF BeginSweep, Admitting, Progress
    <3>2. CASE SweepExpired(p)
      <4>1. proc'["http"].pc \in {"derive", "scan"}
        <5>1. ASSUME NEW s PROVE [Aimed(proc["http"], {s}, "expired") EXCEPT !.queue = @ \ {s}].pc = "derive"
          BY <1>0 DEF Aimed, Progress
        <5>2. [proc["http"] EXCEPT !.pc = "scan", !.queue = bins].pc = "scan"
          BY <1>0 DEF Progress
        <5> QED
          BY <3>2, <2>1, <5>1, <5>2, SweepFields DEF StoreInv
      <4> QED
        BY <4>1 DEF Admitting
    <3> QED
      BY <1>7, <3>1, <3>2
  <2>2. CASE p = "cli"
    <3>1. proc'["http"] = proc["http"] /\ UNCHANGED samples
      <4>1. CASE BeginSweep(p)
        BY <4>1, <2>2, <1>0 DEF BeginSweep
      <4>2. CASE SweepExpired(p)
        BY <4>2, <2>2, <1>0, SweepFields DEF SweepExpired, StoreInv
      <4> QED
        BY <1>7, <4>1, <4>2
    <3> QED
      BY <3>1, <1>1 DEF samples, Held, Admitting
  <2> QED
    BY <2>1, <2>2 DEF Procs
<1>8. CASE \/ RemoveDeliveries \/ RevokeDeliveries \/ CancelEveryJob \/ WithdrawEveryConsent \/ CommitSample
  BY <1>8, <1>0 DEF RemoveDeliveries, RevokeDeliveries, CancelEveryJob, WithdrawEveryConsent, CommitSample,
       Continue, Goto, Idle, Admitting, Progress
<1>9. CASE CancelJobs \/ DeleteEverything \/ \E s \in Sessions : DeleteSample(s)
  BY <1>9, <1>0, RequestFields DEF Aimed, Admitting, Progress, StoreInv
<1>10. CASE \/ \E c \in Grants : PostConsent(c) \/ WithdrawConsent(c)
            \/ \E s \in Sessions : Refuse(s)
  <2>1. ASSUME NEW c \in Grants, WithdrawConsent(c) PROVE Ok
    BY <2>1, <1>0 DEF WithdrawConsent, Admitting, Idle, Progress
  <2>2. CASE (\E c \in Grants : PostConsent(c)) \/ \E s \in Sessions : Refuse(s)
    BY <2>2 DEF PostConsent, Refuse, Begin, Admitting
  <2> QED
    BY <1>10, <2>1, <2>2
<1>11. CASE UNCHANGED storeVars \/ \E s \in Sessions : SampleExpires(s)
  BY <1>11, <1>1 DEF storeVars, SampleExpires, samples, Admitting, Held
<1> QED
  BY <1>2, <1>3, <1>4, <1>5, <1>6, <1>7, <1>8, <1>9, <1>10, <1>11
  DEF StoreNext, Receive, Elapse, DeleteSamples, Sweep

\* A sample that is held was accepted for good; what is deleted is never held again.
LEMMA AcceptedStep == StoreInv /\ [StoreNext]_storeVars => AcceptedInv'
<1> SUFFICES ASSUME StoreInv, [StoreNext]_storeVars PROVE AcceptedInv'
  OBVIOUS
<1> USE DEF AcceptedInv, Held
<1>1. ASSUME UNCHANGED samples PROVE AcceptedInv'
  BY <1>1 DEF samples, StoreInv
<1>2. ASSUME UNCHANGED <<rows, tombs>>,
             \A s \in Sessions : receipts[s] = "accepted" => receipts'[s] = "accepted",
             \A c \in Grants : consents[c] # "unknown" => consents'[c] # "unknown"
      PROVE  AcceptedInv'
  BY <1>2 DEF StoreInv, StoreTypes
<1>3. ASSUME NEW c \in Grants, PostConsent(c) \/ WithdrawConsent(c) \/ ConsentExpires(c) PROVE AcceptedInv'
  <2>1. UNCHANGED <<rows, tombs, receipts>>
    BY <1>3 DEF PostConsent, WithdrawConsent, ConsentExpires
  <2>2. ASSUME NEW d \in Grants, consents[d] # "unknown" PROVE consents'[d] # "unknown"
    BY <1>3, <2>2 DEF PostConsent, WithdrawConsent, ConsentExpires, Withdrawn, StoreInv, StoreTypes
  <2> QED
    BY <1>2, <2>1, <2>2
<1>4. CASE WithdrawEveryConsent
  BY <1>4, <1>2 DEF WithdrawEveryConsent, Withdrawn
<1>5. ASSUME NEW s \in Sessions, Refuse(s) PROVE AcceptedInv'
  BY <1>5, <1>2 DEF Refuse, StoreInv, StoreTypes
<1>6. CASE CommitSample
  <2>1. PICK s \in Sessions :
          /\ proc["http"].todo = {s} /\ proc["http"].consent \in Grants
          /\ s \notin tombs /\ consents[proc["http"].consent] # "unknown"
    BY <1>6 DEF CommitSample, Continue, StoreInv, AdmissionInv, Admitting
  <2>2. /\ rows' = [rows EXCEPT ![s] = proc["http"].consent]
        /\ receipts' = [receipts EXCEPT ![s] = "accepted"]
        /\ UNCHANGED <<tombs, consents>>
    BY <1>6, <2>1 DEF CommitSample, StoreInv, StoreTypes
  <2>3. Held' = Held \cup {s}
    BY <2>1, <2>2 DEF StoreInv, StoreTypes, Grants
  <2>4. IsFiniteSet(Held')
    BY <2>3, FS_AddElement DEF StoreInv
  <2> QED
    BY <2>1, <2>2, <2>4 DEF StoreInv, StoreTypes
<1>7. ASSUME NEW p \in Procs, DeleteRows(p) PROVE AcceptedInv'
  <2>1. /\ rows' = [s \in Sessions |-> IF s \in proc[p].todo THEN 0 ELSE rows[s]]
        /\ tombs' = tombs \cup proc[p].todo /\ UNCHANGED <<consents, receipts>>
    BY <1>7 DEF DeleteRows
  <2>2. Held' \subseteq Held
    BY <2>1
  <2>3. IsFiniteSet(Held')
    BY <2>2, FS_Subset DEF StoreInv
  <2> QED
    BY <2>1, <2>3 DEF StoreInv
<1>8. CASE \/ RenamePart \/ CancelJobs \/ DeleteEverything
           \/ RemoveDeliveries \/ RevokeDeliveries \/ CancelEveryJob \/ UNCHANGED storeVars
  BY <1>1, <1>8 DEF RenamePart, CancelJobs, DeleteEverything, RemoveDeliveries, RevokeDeliveries,
                    CancelEveryJob, storeVars
<1>9. ASSUME NEW s \in Sessions,
             (\E c \in Grants : WritePart(s, c)) \/ DeleteSample(s) \/ SampleExpires(s)
      PROVE  AcceptedInv'
  BY <1>1, <1>9 DEF WritePart, DeleteSample, SampleExpires
<1>10. ASSUME NEW p \in Procs, Derive(p) \/ RemoveObjects(p) \/ Sweep(p) \/ EndProcess(p)
       PROVE  AcceptedInv'
  BY <1>1, <1>10 DEF Derive, RemoveObjects, Sweep, BeginSweep, SweepExpired, SweepFile, SweepOrphan,
                     EndSweep, EndProcess
<1> QED
  BY <1>3, <1>4, <1>5, <1>6, <1>7, <1>8, <1>9, <1>10
  DEF StoreNext, Receive, Elapse, DeleteSamples

\* A request is handled by the server and no step of it moves the other process.
LEMMA RequestsLeaveSweep ==
  StoreTypes /\ (Receive \/ Elapse) => proc'["cli"] = proc["cli"]
<1> SUFFICES ASSUME StoreTypes, Receive \/ Elapse PROVE proc'["cli"] = proc["cli"]
  OBVIOUS
<1> USE DEF StoreTypes, Procs
<1>1. CASE Elapse
  BY <1>1 DEF Elapse, ConsentExpires, SampleExpires
<1>2. CASE CancelJobs \/ DeleteEverything \/ \E s \in Sessions : DeleteSample(s)
  BY <1>2, RequestFields
<1>3. CASE \/ \E c \in Grants : PostConsent(c) \/ WithdrawConsent(c)
           \/ \E s \in Sessions, c \in Grants : WritePart(s, c)
           \/ \E s \in Sessions : Refuse(s)
           \/ RenamePart \/ CommitSample
           \/ RemoveDeliveries \/ RevokeDeliveries \/ CancelEveryJob \/ WithdrawEveryConsent
  BY <1>3 DEF PostConsent, WithdrawConsent, WritePart, Refuse, RenamePart, CommitSample, RemoveDeliveries,
              RevokeDeliveries, CancelEveryJob, WithdrawEveryConsent, Goto
<1> QED
  BY <1>1, <1>2, <1>3 DEF Receive

LEMMA ProcessesApart ==
  ASSUME StoreTypes, NEW p \in Procs, NEW q \in Procs \ {p},
         DeleteSamples(p) \/ Sweep(p) \/ EndProcess(p)
  PROVE  proc'[q] = proc[q]
<1> USE DEF StoreTypes
<1>1. CASE SweepExpired(p)
  BY <1>1, SweepFields
<1> QED
  BY <1>1 DEF DeleteSamples, Derive, DeleteRows, RemoveObjects, Sweep, BeginSweep, SweepFile, SweepOrphan,
              EndSweep, EndProcess, Goto

LEMMA AcceptedStays == StoreInv /\ [StoreNext]_storeVars => Accepted \subseteq Accepted'
<1> SUFFICES ASSUME StoreInv, [StoreNext]_storeVars PROVE Accepted \subseteq Accepted'
  OBVIOUS
<1>1. ASSUME NEW s \in Sessions, Refuse(s) PROVE Accepted \subseteq Accepted'
  BY <1>1 DEF Refuse, Accepted, StoreInv, StoreTypes
<1>2. CASE CommitSample
  BY <1>2 DEF CommitSample, Accepted
<1>3. ASSUME NEW c \in Grants,
             PostConsent(c) \/ WithdrawConsent(c) \/ ConsentExpires(c) \/ \E s \in Sessions : WritePart(s, c)
      PROVE  Accepted \subseteq Accepted'
  BY <1>3 DEF PostConsent, WithdrawConsent, ConsentExpires, WritePart, samples, Accepted
<1>4. ASSUME NEW s \in Sessions, DeleteSample(s) \/ SampleExpires(s) PROVE Accepted \subseteq Accepted'
  BY <1>4 DEF DeleteSample, SampleExpires, samples, Accepted
<1>5. CASE \/ RenamePart \/ CancelJobs \/ DeleteEverything \/ RemoveDeliveries \/ RevokeDeliveries
           \/ CancelEveryJob \/ WithdrawEveryConsent \/ UNCHANGED storeVars
  BY <1>5 DEF RenamePart, CancelJobs, DeleteEverything, RemoveDeliveries, RevokeDeliveries,
              CancelEveryJob, WithdrawEveryConsent, storeVars, samples, Accepted
<1>6. ASSUME NEW p \in Procs, DeleteSamples(p) \/ Sweep(p) \/ EndProcess(p) PROVE Accepted \subseteq Accepted'
  BY <1>6 DEF DeleteSamples, Derive, DeleteRows, RemoveObjects, Sweep, BeginSweep, SweepExpired, SweepFile,
              SweepOrphan, EndSweep, EndProcess, samples, Accepted
<1> QED
  BY <1>1, <1>2, <1>3, <1>4, <1>5, <1>6 DEF StoreNext, Receive, Elapse

LEMMA SweepStep == StoreInv /\ [StoreNext]_storeVars => SweepInv'
<1> SUFFICES ASSUME StoreInv, [StoreNext]_storeVars PROVE SweepInv'
  OBVIOUS
<1>0. /\ Accepted \subseteq Accepted' /\ "cli" \in Procs /\ "cli" \in Procs \ {"http"}
      /\ proc["cli"] \in Progress /\ DOMAIN proc = Procs
  BY AcceptedStays DEF Procs, StoreInv, StoreTypes
<1> USE DEF At
<1>1. CASE proc'["cli"] = proc["cli"]
  BY <1>0, <1>1 DEF SweepInv, StoreInv
<1>2. CASE DeleteSamples("cli")
  <2>1. CASE Derive("cli")
    BY <2>1, <1>0 DEF Derive, Continue, SweepInv, StoreInv, Progress
  <2>2. CASE DeleteRows("cli")
    BY <2>2, <1>0 DEF DeleteRows, Continue, Goto, SweepInv, StoreInv, Progress
  <2>3. CASE RemoveObjects("cli")
    BY <2>3, <1>0 DEF RemoveObjects, Continue, Idle, SweepInv, StoreInv, Progress
  <2> QED
    BY <1>2, <2>1, <2>2, <2>3 DEF DeleteSamples
<1>3. CASE Sweep("cli")
  <2>1. CASE BeginSweep("cli")
    BY <2>1, <1>0 DEF BeginSweep, AcceptedInv, Accepted, Held, SweepInv, StoreInv, Progress
  <2>2. CASE SweepExpired("cli")
    <3>1. ASSUME NEW s \in proc["cli"].queue,
                 proc'["cli"] = [Aimed(proc["cli"], {s}, "expired") EXCEPT !.queue = @ \ {s}]
          PROVE  SweepInv'
      <4>1. /\ proc'["cli"].pc = "derive" /\ proc'["cli"].then = "expired"
            /\ proc'["cli"].todo = {s} /\ proc'["cli"].queue = proc["cli"].queue \ {s}
        BY <3>1, <1>0 DEF Aimed, Progress
      <4> QED
        BY <4>1, <2>2, <1>0 DEF SweepExpired, Continue, SweepInv, StoreInv
    <3>2. CASE proc'["cli"] = [proc["cli"] EXCEPT !.pc = "scan", !.queue = bins]
      BY <3>2, <1>0 DEF SweepInv, Progress
    <3> QED
      BY <2>2, <1>0, <3>1, <3>2, SweepFields DEF StoreInv
  <2>3. CASE SweepFile("cli") \/ SweepOrphan("cli") \/ EndSweep("cli")
    <3>1. ASSUME NEW s, NEW pc \in {"orphan", "scan"},
                 proc' = [proc EXCEPT !["cli"].queue = @ \ {s}, !["cli"].todo = {s}, !["cli"].pc = pc]
          PROVE  SweepInv'
      BY <3>1, <1>0 DEF SweepInv, Progress
    <3>2. ASSUME proc' = [proc EXCEPT !["cli"].pc = "scan"] \/ proc' = [proc EXCEPT !["cli"] = Idle]
          PROVE  SweepInv'
      BY <3>2, <1>0 DEF SweepInv, Idle, Progress
    <3> QED
      BY <2>3, <3>1, <3>2 DEF SweepFile, SweepOrphan, EndSweep, Goto
  <2> QED
    BY <1>3, <2>1, <2>2, <2>3 DEF Sweep
<1>4. CASE EndProcess("cli")
  BY <1>4, <1>0 DEF EndProcess, Idle, SweepInv
<1>5. CASE \E p \in Procs : DeleteSamples(p) \/ Sweep(p) \/ EndProcess(p)
  BY <1>0, <1>1, <1>2, <1>3, <1>4, <1>5, ProcessesApart DEF Procs, StoreInv
<1>6. CASE Receive \/ Elapse \/ UNCHANGED storeVars
  BY <1>1, <1>6, RequestsLeaveSweep DEF StoreInv, storeVars
<1> QED
  BY <1>5, <1>6 DEF StoreNext

LEMMA StoreStarts == StoreInit => StoreInv
<1> SUFFICES ASSUME StoreInit PROVE StoreInv
  OBVIOUS
<1>1. Held = {}
  BY DEF StoreInit, Held
<1>2. IsFiniteSet({})
  BY FS_EmptySet
<1> QED
  BY <1>1, <1>2, TypesStart
  DEF StoreInit, StoreInv, AdmissionInv, Admitting, At, Idle, AcceptedInv, SweepInv, Procs

LEMMA StoreStep == StoreInv /\ [StoreNext]_storeVars => StoreInv'
BY TypesStep, AdmissionStep, AcceptedStep, SweepStep DEF StoreInv

\* The training process beside it changes nothing of this.
LEMMA StoreInvStep == StoreInv /\ [Next]_vars => StoreInv'
<1> SUFFICES ASSUME StoreInv, [Next]_vars PROVE StoreInv'
  OBVIOUS
<1>1. CASE StoreNext \/ UNCHANGED vars
  BY <1>1, StoreStep DEF vars
<1>2. CASE Work
  BY <1>2, WorkLeavesSamples
  DEF notJobs, samples, objects, StoreInv, StoreTypes, AdmissionInv, Admitting, AcceptedInv, SweepInv, Accepted,
      Held, At
<1> QED
  BY <1>1, <1>2 DEF Next

-----------------------------------------------------------------------------
(* The promise to the clients *)

Known(a, b, c, d) == [consents |-> a, held |-> b, buried |-> c, receipts |-> d]

Moved(r, held, buried) == [r EXCEPT !.held = held, !.buried = buried]
Admitted(r, held, s) == [r EXCEPT !.held = held, !.receipts[s] = "accepted"]

LEMMA SamplesFields ==
  ASSUME NEW a, NEW b, NEW c, NEW d, NEW x, NEW y
  PROVE  Moved(Known(a, b, c, d), x, y) = Known(a, x, y, d)
<1> DEFINE r == Moved(Known(a, b, c, d), x, y)
<1>1. DOMAIN r = {"consents", "held", "buried", "receipts"} /\ r = [k \in DOMAIN r |-> r[k]]
  BY DEF Known, Moved
<1>2. r.consents = a
  BY DEF Known, Moved
<1>3. r.held = x
  BY DEF Known, Moved
<1>4. r.buried = y
  BY DEF Known, Moved
<1>5. r.receipts = d
  BY DEF Known, Moved
<1> HIDE DEF r
<1>6. r = Known(a, x, y, d)
  BY <1>1, <1>2, <1>3, <1>4, <1>5 DEF Known
<1> QED
  BY <1>6 DEF r

LEMMA AdmittedFields ==
  ASSUME NEW a, NEW b, NEW c, NEW d, NEW x, NEW s
  PROVE  Admitted(Known(a, b, c, d), x, s) = Known(a, x, c, [d EXCEPT ![s] = "accepted"])
<1> DEFINE r == Admitted(Known(a, b, c, d), x, s)
<1>1. DOMAIN r = {"consents", "held", "buried", "receipts"} /\ r = [k \in DOMAIN r |-> r[k]]
  BY DEF Known, Admitted
<1>2. r.consents = a
  BY DEF Known, Admitted
<1>3. r.held = x
  BY DEF Known, Admitted
<1>4. r.buried = c
  BY DEF Known, Admitted
<1>5. r.receipts = [d EXCEPT ![s] = "accepted"]
  BY DEF Known, Admitted
<1> HIDE DEF r
<1>6. r = Known(a, x, c, [d EXCEPT ![s] = "accepted"])
  BY <1>1, <1>2, <1>3, <1>4, <1>5 DEF Known
<1> QED
  BY <1>6 DEF r

LEMMA RemoveFields ==
  ASSUME NEW a, NEW b, NEW c, NEW d, NEW e
  PROVE  Ledger!Remove(Known(a, b, c, d), e) = Known(a, b \ e, c \cup e, d)
<1>1. Known(a, b, c, d).held = b /\ Known(a, b, c, d).buried = c
  BY DEF Known
<1>2. Ledger!Remove(Known(a, b, c, d), e)
        = Moved(Known(a, b, c, d), b \ e, c \cup e)
  BY <1>1, Zenon DEF Ledger!Remove, Moved
<1> QED
  BY <1>2, SamplesFields

LEMMA LedgerStarts == StoreInit => Record = Ledger!NoService(MaxGrants)
BY DEF StoreInit, Record, Told, Held, Grants, Ledger!NoService

LEMMA LedgerRegister == ASSUME StoreInv, NEW c \in Grants, PostConsent(c) PROVE Record' = Ledger!Register(Record, c)
<1>1. Told' = IF Told[c] = "unknown" THEN [Told EXCEPT ![c] = "active"] ELSE Told
  BY DEF PostConsent, Told, StoreInv, StoreTypes
<1>2. UNCHANGED <<Held, tombs, receipts>>
  BY DEF PostConsent, Held
<1> QED
  BY <1>1, <1>2 DEF Record, Ledger!Register

LEMMA LedgerRefuse == ASSUME StoreInv, NEW s \in Sessions, Refuse(s) PROVE Record' = Ledger!Refuse(Record, s)
<1>1. UNCHANGED <<Told, Held, tombs>> /\ receipts' = [receipts EXCEPT ![s] = "refused"] /\ receipts[s] = "none"
  BY DEF Refuse, Told, Held
<1> QED
  BY <1>1 DEF Record, Ledger!Refuse

\* An admission that was begun is committed under a consent that was good when it began.
LEMMA LedgerAdmit ==
  ASSUME StoreInv, CommitSample
  PROVE  \/ \E c \in Grants : \E s \in Sessions : Record' \in Ledger!Admit(Record, s, c)
<1>1. PICK s \in Sessions :
        /\ proc["http"].todo = {s} /\ proc["http"].consent \in Grants
        /\ receipts[s] = "none" /\ s \notin tombs
        /\ consents[proc["http"].consent] \in {"active", "expired"}
  BY DEF CommitSample, Continue, StoreInv, AdmissionInv, Admitting
<1> DEFINE c == proc["http"].consent
<1>2. /\ rows' = [rows EXCEPT ![s] = c]
      /\ receipts' = [receipts EXCEPT ![s] = "accepted"]
      /\ UNCHANGED <<tombs, consents>>
  BY <1>1 DEF CommitSample, StoreInv, StoreTypes
<1>3. Held' = Held \cup {s} /\ UNCHANGED Told
  BY <1>1, <1>2 DEF StoreInv, StoreTypes, Grants, Held, Told
<1>4. Told[c] = "active"
  BY <1>1 DEF Told
<1>5. Record' = [Record EXCEPT !.held = @ \cup {s}, !.receipts[s] = "accepted"]
  <2>1. Record' = [consents |-> Told, held |-> Held \cup {s}, buried |-> tombs,
                   receipts |-> [receipts EXCEPT ![s] = "accepted"]]
    BY <1>2, <1>3 DEF Record
  <2>2. Record = Known(Told, Held, tombs, receipts)
        /\ Record' = Known(Told, Held \cup {s}, tombs, [receipts EXCEPT ![s] = "accepted"])
    BY <2>1 DEF Record, Known
  <2>3. Record.held = Held
    BY DEF Record
  <2>4. [Record EXCEPT !.held = @ \cup {s}, !.receipts[s] = "accepted"] =
          Admitted(Known(Told, Held, tombs, receipts), Held \cup {s}, s)
    BY <2>2, <2>3, Zenon DEF Admitted
  <2> QED
    BY <2>2, <2>4, AdmittedFields
<1>6. Ledger!Admissible(Record, s, c)
  BY <1>1, <1>4 DEF Record, Ledger!Admissible
<1>7. Ledger!Admit(Record, s, c) =
        {[Record EXCEPT !.held = @ \cup {s}, !.receipts[s] = "accepted"], Ledger!Refuse(Record, s)}
  BY <1>6, Zenon DEF Ledger!Admit
<1> QED
  BY <1>1, <1>5, <1>7

LEMMA LedgerRemove ==
  ASSUME StoreInv, NEW p \in Procs, DeleteRows(p) PROVE Record' = Ledger!Remove(Record, proc[p].todo)
<1>1. /\ rows' = [s \in Sessions |-> IF s \in proc[p].todo THEN 0 ELSE rows[s]]
      /\ tombs' = tombs \cup proc[p].todo /\ UNCHANGED <<consents, receipts>>
  BY DEF DeleteRows
<1>2. Held' = Held \ proc[p].todo /\ UNCHANGED Told
  BY <1>1 DEF Held, Told
<1>3. Record' = [consents |-> Told, held |-> Held \ proc[p].todo, buried |-> tombs \cup proc[p].todo,
                 receipts |-> receipts]
  BY <1>1, <1>2 DEF Record
<1>4. Ledger!Remove(Record, proc[p].todo) =
        Known(Told, Held \ proc[p].todo, tombs \cup proc[p].todo, receipts)
  <2>1. Record = Known(Told, Held, tombs, receipts)
    BY DEF Record, Known
  <2> QED
    BY <2>1, RemoveFields
<1> QED
  BY <1>3, <1>4 DEF Known

LEMMA LedgerWithdraw ==
  ASSUME StoreInv, NEW c \in Grants, WithdrawConsent(c) PROVE Record' = Ledger!Withdraw(Record, c, {})
<1>1. Told' = IF Told[c] = "active" THEN [Told EXCEPT ![c] = "withdrawn"] ELSE Told
  BY DEF WithdrawConsent, Withdrawn, Told, StoreInv, StoreTypes
<1>2. UNCHANGED <<Held, tombs, receipts>>
  BY DEF WithdrawConsent, Held
<1>3. Record' = [consents |-> IF Told[c] = "active" THEN [Told EXCEPT ![c] = "withdrawn"] ELSE Told,
                 held |-> Held, buried |-> tombs, receipts |-> receipts]
  BY <1>1, <1>2 DEF Record
<1>4. Ledger!Withdraw(Record, c, {}) =
        [consents |-> IF Told[c] = "active" THEN [Told EXCEPT ![c] = "withdrawn"] ELSE Told,
         held |-> Held, buried |-> tombs, receipts |-> receipts]
  <2> DEFINE told == IF Told[c] = "active" THEN [Told EXCEPT ![c] = "withdrawn"] ELSE Told
  <2>1. (IF Record.consents[c] = "active" THEN [Record EXCEPT !.consents[c] = "withdrawn"] ELSE Record)
          = Known(told, Held, tombs, receipts)
    BY DEF Record, Known
  <2>2. Ledger!Withdraw(Record, c, {}) = Ledger!Remove(Known(told, Held, tombs, receipts), Record.held \cap {})
    BY <2>1, Zenon DEF Ledger!Withdraw
  <2>3. Record.held \cap {} = {} /\ Held \ {} = Held /\ tombs \cup {} = tombs
    OBVIOUS
  <2>4. Ledger!Withdraw(Record, c, {}) = Known(told, Held, tombs, receipts)
    BY <2>2, <2>3, RemoveFields
  <2> QED
    BY <2>4 DEF Known
<1> QED
  BY <1>3, <1>4

LEMMA LedgerWithdrawAll == ASSUME StoreInv, WithdrawEveryConsent PROVE Record' = Ledger!WithdrawAll(Record)
<1>1. Told' = [c \in Grants |-> IF Told[c] = "active" THEN "withdrawn" ELSE Told[c]]
  BY DEF WithdrawEveryConsent, Withdrawn, Told, StoreInv, StoreTypes
<1>2. UNCHANGED <<Held, tombs, receipts>>
  BY DEF WithdrawEveryConsent, Held
<1>3. DOMAIN Told = Grants
  BY DEF Told
<1>4. Record' = [consents |-> [c \in DOMAIN Told |-> IF Told[c] = "active" THEN "withdrawn" ELSE Told[c]],
                 held |-> Held, buried |-> tombs, receipts |-> receipts]
  BY <1>1, <1>2, <1>3 DEF Record
<1>5. Ledger!WithdrawAll(Record) =
        [consents |-> [c \in DOMAIN Told |-> IF Told[c] = "active" THEN "withdrawn" ELSE Told[c]],
         held |-> Held, buried |-> tombs, receipts |-> receipts]
  <2> DEFINE told == [c \in DOMAIN Told |-> IF Told[c] = "active" THEN "withdrawn" ELSE Told[c]]
  <2>1. /\ Record = Known(Told, Held, tombs, receipts)
        /\ Record.consents = Told /\ Record.held = Held /\ Record.buried = tombs
    BY DEF Record, Known
  <2>2. [Record EXCEPT !.consents = told] = Known(told, Held, tombs, receipts)
    BY DEF Record, Known
  <2>3. Ledger!DeleteEverything(Record) = Ledger!Remove(Known(told, Held, tombs, receipts), Held)
    <3>1. [d \in DOMAIN Record.consents |->
             IF Record.consents[d] = "active" THEN "withdrawn" ELSE Record.consents[d]] = told
      BY <2>1
    <3> QED
      BY <2>1, <2>2, <3>1, Zenon DEF Ledger!DeleteEverything
  <2>4. Ledger!DeleteEverything(Record) = Known(told, Held \ Held, tombs \cup Held, receipts)
    BY <2>3, RemoveFields
  <2>5. Ledger!WithdrawAll(Record)
          = Moved(Known(told, Held \ Held, tombs \cup Held, receipts), Held, tombs)
    BY <2>1, <2>4, Zenon DEF Ledger!WithdrawAll, Moved
  <2>6. Ledger!WithdrawAll(Record) = Known(told, Held, tombs, receipts)
    BY <2>5, SamplesFields
  <2> QED
    BY <2>6 DEF Known
<1> QED
  BY <1>4, <1>5

LEMMA LedgerStep == StoreInv /\ [Next]_vars => [Ledger!Next]_Record
<1> SUFFICES ASSUME StoreInv, [Next]_vars PROVE Ledger!Next \/ UNCHANGED Record
  OBVIOUS
<1>1. ASSUME UNCHANGED samples PROVE UNCHANGED Record
  BY <1>1 DEF samples, Record, Told, Held
<1>2. ASSUME NEW c \in Grants, PostConsent(c) \/ WithdrawConsent(c) \/ ConsentExpires(c)
      PROVE  Ledger!Next \/ UNCHANGED Record
  <2>1. CASE PostConsent(c)
    BY <2>1, LedgerRegister DEF Ledger!Next, Grants
  <2>2. CASE WithdrawConsent(c)
    BY <2>2, LedgerWithdraw DEF Ledger!Next, Grants
  <2>3. CASE ConsentExpires(c)
    BY <2>3 DEF ConsentExpires, Active, Record, Told, Held, StoreInv, StoreTypes
  <2> QED
    BY <1>2, <2>1, <2>2, <2>3
<1>3. ASSUME NEW s \in Sessions, Refuse(s) PROVE Ledger!Next
  BY <1>3, LedgerRefuse DEF Ledger!Next
<1>4. CASE CommitSample
  BY <1>4, LedgerAdmit DEF Ledger!Next, Grants
<1>5. ASSUME NEW p \in Procs, DeleteRows(p) PROVE Ledger!Next
  <2>1. proc[p].todo \in SUBSET Sessions
    BY DEF StoreInv, StoreTypes, Progress
  <2> QED
    BY <1>5, <2>1, LedgerRemove DEF Ledger!Next
<1>6. CASE WithdrawEveryConsent
  BY <1>6, LedgerWithdrawAll DEF Ledger!Next
<1>7. CASE \/ RenamePart \/ CancelJobs \/ DeleteEverything
           \/ RemoveDeliveries \/ RevokeDeliveries \/ CancelEveryJob \/ UNCHANGED vars
  BY <1>1, <1>7 DEF RenamePart, CancelJobs, DeleteEverything, RemoveDeliveries, RevokeDeliveries,
                    CancelEveryJob, storeVars, vars
<1>8. ASSUME NEW s \in Sessions,
             (\E c \in Grants : WritePart(s, c)) \/ DeleteSample(s) \/ SampleExpires(s)
      PROVE  UNCHANGED Record
  BY <1>1, <1>8 DEF WritePart, DeleteSample, SampleExpires
<1>9. ASSUME NEW p \in Procs, Derive(p) \/ RemoveObjects(p) \/ Sweep(p) \/ EndProcess(p)
      PROVE  UNCHANGED Record
  BY <1>1, <1>9 DEF Derive, RemoveObjects, Sweep, BeginSweep, SweepExpired, SweepFile, SweepOrphan,
                    EndSweep, EndProcess
<1>10. CASE Work
  BY <1>1, <1>10, WorkLeavesSamples DEF notJobs
<1> QED
  BY <1>2, <1>3, <1>4, <1>5, <1>6, <1>7, <1>8, <1>9, <1>10
  DEF Next, StoreNext, Receive, Elapse, DeleteSamples

\* The service keeps its promise, whatever the training process does beside it and
\* whichever process ends when: every commit is a change that SampleLedger allows.
THEOREM ServiceKeepsItsPromise == Spec => ImplementsLedger
<1>1. Init => StoreInv /\ Record = Ledger!NoService(MaxGrants)
  BY StoreStarts, LedgerStarts DEF Init
<1>2. Spec => []StoreInv
  BY <1>1, StoreInvStep, PTL DEF Spec
<1>3. Spec => Record = Ledger!NoService(MaxGrants) /\ [][Ledger!Next]_Record
  BY <1>1, <1>2, LedgerStep, PTL DEF Spec
<1> QED
  BY <1>3 DEF ImplementsLedger, Ledger!Spec, Ledger!Init

-----------------------------------------------------------------------------
(* Files *)

Holding == {"rename", "commit", "objects"}

\* A step that moves no file and no row, and no process into or out of the middle of either.
LEMMA FilesUntouched ==
  ASSUME FilesInv, UNCHANGED <<Held, bins, parts>>, killed' \cap Procs = killed \cap Procs,
         tombs \subseteq tombs', lost \subseteq lost',
         \A p \in Procs : proc[p].pc \in Holding \/ proc'[p].pc \in Holding
                            => UNCHANGED <<proc[p].pc, proc[p].todo>>,
         At("http", "orphan")' => proc'["http"].todo \cap Held = {}
  PROVE  FilesInv'
<1>0. "http" \in Procs /\ "cli" \in Procs
  BY DEF Procs
<1>1. (Held \ lost \subseteq bins)'
  BY DEF FilesInv
<1>2. (At("http", "commit") => proc["http"].todo \ lost \subseteq bins)'
  BY <1>0 DEF FilesInv, At, Holding
<1>3. (\A p \in Procs : At(p, "objects") => proc[p].todo \subseteq tombs)'
  BY DEF FilesInv, At, Holding
<1>4. (parts \subseteq IF At("http", "rename") THEN proc["http"].todo ELSE {})'
        \/ killed' \cap Procs # {}
  BY <1>0 DEF FilesInv, At, Holding
<1>5. (\A s \in bins \ Held : \/ At("http", "commit") /\ s \in proc["http"].todo
                              \/ \E p \in Procs : At(p, "objects") /\ s \in proc[p].todo)'
        \/ killed' \cap Procs # {}
  BY <1>0 DEF FilesInv, At, Holding
<1> QED
  BY <1>1, <1>2, <1>3, <1>4, <1>5 DEF FilesInv

LEMMA FilesStoreStep == StoreInv /\ FilesInv /\ StoreNext /\ lost' = lost \cup Lost => FilesInv'
<1> SUFFICES ASSUME StoreInv, FilesInv, StoreNext, lost' = lost \cup Lost PROVE FilesInv'
  OBVIOUS
<1>0. /\ "http" \in Procs /\ "cli" \in Procs /\ "http" # "cli" /\ DOMAIN proc = Procs
      /\ \A p \in Procs : proc[p] \in Progress /\ (p # "cli" => p = "http")
      /\ lost \subseteq lost'
  BY DEF StoreInv, StoreTypes, Procs
\* A step of one process that leaves files and rows alone.
<1>1. ASSUME NEW p \in Procs, \A q \in Procs \ {p} : proc'[q] = proc[q],
             UNCHANGED <<rows, tombs, bins, parts, killed>>,
             proc[p].pc \notin Holding, proc'[p].pc \notin Holding,
             p = "http" /\ proc'[p].pc = "orphan" => proc'[p].todo \cap Held = {}
      PROVE  FilesInv'
  <2>1. UNCHANGED Held
    BY <1>1 DEF Held
  <2>2. At("http", "orphan")' => proc'["http"].todo \cap Held = {}
    BY <1>0, <1>1 DEF At, FilesInv
  <2> QED
    BY <1>0, <1>1, <2>1, <2>2, FilesUntouched
<1>2. ASSUME UNCHANGED <<rows, tombs, bins, parts, killed, proc>> PROVE FilesInv'
  BY <1>0, <1>2, FilesUntouched DEF Held, FilesInv, At
<1>3. ASSUME NEW c \in Grants, PostConsent(c) \/ ConsentExpires(c) PROVE FilesInv'
  BY <1>2, <1>3 DEF PostConsent, ConsentExpires, Begin, objects
<1>4. ASSUME NEW s \in Sessions, Refuse(s) \/ SampleExpires(s) PROVE FilesInv'
  BY <1>2, <1>4 DEF Refuse, SampleExpires, Begin, objects, samples
<1>5. ASSUME NEW c \in Grants, WithdrawConsent(c) PROVE FilesInv'
  <2>1. proc'["http"].pc = "cancel" /\ proc'["cli"] = proc["cli"] /\ proc["http"].pc = "idle"
    BY <1>0, <1>5 DEF WithdrawConsent, Begin, At, Idle
  <2> QED
    BY <1>0, <1>1, <1>5, <2>1 DEF WithdrawConsent, Begin, objects, Holding
<1>6. CASE CancelJobs \/ DeleteEverything \/ \E s \in Sessions : DeleteSample(s)
  <2>1. /\ proc'["cli"] = proc["cli"] /\ proc["http"].pc \notin Holding
        /\ proc'["http"].pc \in {"idle", "deliveries", "derive"}
        /\ UNCHANGED <<samples, objects, killed>>
    <3>1. UNCHANGED killed /\ proc["http"].pc \in {"idle", "cancel"}
      BY <1>6 DEF CancelJobs, DeleteEverything, DeleteSample, Begin, Continue, At
    <3>2. /\ UNCHANGED <<samples, objects>> /\ proc'["cli"] = proc["cli"]
          /\ \E from \in SUBSET Sessions, then \in {"idle", "deliveries"} :
               proc'["http"] = Aimed(proc["http"], from, then)
      BY <1>6, RequestFields, Zenon DEF StoreInv
    <3>3. proc'["http"].pc \in {"idle", "deliveries", "derive"}
      BY <1>0, <3>2 DEF Aimed, Progress
    <3> QED
      BY <3>1, <3>2, <3>3 DEF Holding
  <2> QED
    BY <1>0, <1>1, <2>1 DEF samples, objects, Holding
<1>7. CASE RemoveDeliveries \/ RevokeDeliveries \/ CancelEveryJob \/ WithdrawEveryConsent
  <2>1. /\ proc'["cli"] = proc["cli"] /\ proc["http"].pc \notin Holding
        /\ proc'["http"].pc \in {"revokeAll", "cancelAll", "withdrawAll", "idle"}
        /\ UNCHANGED <<rows, tombs, objects, killed>>
    BY <1>0, <1>7 DEF RemoveDeliveries, RevokeDeliveries, CancelEveryJob, WithdrawEveryConsent, Continue,
         Goto, At, Idle, Holding, Progress, samples
  <2> QED
    BY <1>0, <1>1, <2>1 DEF objects, Holding
<1>8. ASSUME NEW p \in Procs, Derive(p) \/ BeginSweep(p) \/ SweepExpired(p) \/ SweepFile(p) \/ EndSweep(p)
      PROVE  FilesInv'
  <2>1. \A q \in Procs \ {p} : proc'[q] = proc[q]
    BY <1>8, ProcessesApart DEF DeleteSamples, Sweep, StoreInv
  <2>2. UNCHANGED <<samples, objects, killed>> /\ proc[p].pc \notin Holding
    <3>1. proc[p].pc \in {"derive", "idle", "expired", "scan"}
      BY <1>8, Zenon DEF Derive, BeginSweep, SweepExpired, SweepFile, EndSweep, Begin, Continue, At
    <3>2. UNCHANGED <<samples, objects>>
      BY <1>8, Zenon DEF Derive, BeginSweep, SweepExpired, SweepFile, EndSweep
    <3>3. UNCHANGED killed
      BY <1>8, Zenon DEF Derive, BeginSweep, SweepExpired, SweepFile, EndSweep, Begin, Continue
    <3> QED
      BY <3>1, <3>2, <3>3 DEF Holding
  <2>3. CASE Derive(p) \/ BeginSweep(p) \/ EndSweep(p)
    <3>1. proc'[p].pc \in {"rows", "expired", "idle"}
      BY <1>0, <2>3 DEF Derive, BeginSweep, EndSweep, Idle, Progress
    <3> QED
      BY <1>1, <2>1, <2>2, <3>1 DEF samples, objects, Holding
  <2>4. CASE SweepExpired(p)
    <3>1. proc'[p].pc \in {"derive", "scan"}
      <4>1. ASSUME NEW s PROVE [Aimed(proc[p], {s}, "expired") EXCEPT !.queue = @ \ {s}].pc = "derive"
        BY <1>0 DEF Aimed, Progress
      <4>2. [proc[p] EXCEPT !.pc = "scan", !.queue = bins].pc = "scan"
        BY <1>0 DEF Progress
      <4> QED
        <5>1. \/ \E s \in proc[p].queue :
                   proc'[p] = [Aimed(proc[p], {s}, "expired") EXCEPT !.queue = @ \ {s}]
              \/ proc'[p] = [proc[p] EXCEPT !.pc = "scan", !.queue = bins]
          BY <2>4, SweepFields, Zenon DEF StoreInv
        <5> QED
          BY <4>1, <4>2, <5>1
    <3> QED
      BY <1>1, <2>1, <2>2, <3>1 DEF samples, objects, Holding
  <2>5. CASE SweepFile(p)
    <3>1. PICK s : proc' = [proc EXCEPT ![p].queue = @ \ {s}, ![p].todo = {s},
                                        ![p].pc = IF s \notin Held THEN "orphan" ELSE "scan"]
      BY <2>5, Zenon DEF SweepFile
    <3>2. proc'[p].pc = (IF s \notin Held THEN "orphan" ELSE "scan") /\ proc'[p].todo = {s}
      BY <1>0, <3>1 DEF Progress
    <3>3. proc'[p].pc \notin Holding /\ (proc'[p].pc = "orphan" => proc'[p].todo \cap Held = {})
      BY <3>2 DEF Holding
    <3> QED
      BY <1>1, <2>1, <2>2, <3>3 DEF samples, objects
  <2> QED
    BY <1>8, <2>3, <2>4, <2>5
<1>9. ASSUME NEW s \in Sessions, NEW c \in Grants, WritePart(s, c) PROVE FilesInv'
  <2>1. /\ proc'["http"].pc = "rename" /\ proc'["http"].todo = {s} /\ proc["http"].pc = "idle"
        /\ proc'["cli"] = proc["cli"] /\ UNCHANGED <<Held, tombs, bins, killed>>
        /\ parts' = parts \cup {s}
    BY <1>0, <1>9 DEF WritePart, Begin, At, Idle, samples, Held
  <2> QED
    BY <1>0, <2>1 DEF FilesInv, At
<1>10. CASE RenamePart
  <2>1. /\ proc'["http"].pc = "commit" /\ proc'["http"].todo = proc["http"].todo /\ proc["http"].pc = "rename"
        /\ proc'["cli"] = proc["cli"] /\ UNCHANGED <<Held, tombs, killed>>
        /\ parts' = parts \ proc["http"].todo /\ bins' = bins \cup proc["http"].todo
    BY <1>0, <1>10 DEF RenamePart, Continue, Goto, At, samples, Held, Progress
  <2> QED
    BY <1>0, <2>1 DEF FilesInv, At
<1>11. CASE CommitSample
  <2>1. PICK s \in Sessions : proc["http"].todo = {s} /\ proc["http"].consent \in Grants
    BY <1>11 DEF CommitSample, Continue, StoreInv, AdmissionInv, Admitting
  <2>2. /\ proc'["http"].pc = "idle" /\ proc["http"].pc = "commit" /\ proc'["cli"] = proc["cli"]
        /\ UNCHANGED <<tombs, bins, parts, killed>>
    BY <1>0, <1>11 DEF CommitSample, Continue, At, Idle, objects
  <2>3. Held' = Held \cup {s}
    BY <1>11, <2>1 DEF CommitSample, Held, Grants
  <2> QED
    BY <1>0, <2>1, <2>2, <2>3 DEF FilesInv, At
<1>12. ASSUME NEW p \in Procs, DeleteRows(p) PROVE FilesInv'
  <2>1. /\ proc'[p].pc = "objects" /\ proc'[p].todo = proc[p].todo /\ proc[p].pc = "rows"
        /\ \A q \in Procs \ {p} : proc'[q] = proc[q]
        /\ UNCHANGED <<bins, parts, killed>> /\ tombs' = tombs \cup proc[p].todo
    BY <1>0, <1>12 DEF DeleteRows, Continue, Goto, At, objects, Progress
  <2>2. Held' = Held \ proc[p].todo
    BY <1>12 DEF DeleteRows, Held
  <2> QED
    BY <1>0, <2>1, <2>2 DEF FilesInv, At
\* What is removed has no row, and the admission under way is of another sample.
<1>13. ASSUME NEW p \in Procs, RemoveObjects(p) PROVE FilesInv'
  <2>1. proc[p].then \in {"idle", "deliveries", "expired"}
    BY <1>0 DEF Progress
  <2>2. /\ proc'[p].pc = proc[p].then /\ proc[p].pc = "objects"
        /\ \A q \in Procs \ {p} : proc'[q] = proc[q]
        /\ UNCHANGED <<Held, tombs, parts, killed>> /\ bins' = bins \ proc[p].todo
    BY <1>0, <1>13 DEF RemoveObjects, Continue, At, Idle, samples, Held
  <2>3. proc[p].todo \subseteq tombs /\ Held \cap tombs = {}
    BY <1>0, <2>2 DEF FilesInv, At, StoreInv, AcceptedInv
  <2>4. At("http", "commit") => proc["http"].todo \cap tombs = {}
    BY DEF StoreInv, AdmissionInv, Admitting
  <2> QED
    BY <1>0, <2>1, <2>2, <2>3, <2>4 DEF FilesInv, At
<1>14. ASSUME NEW p \in Procs, SweepOrphan(p) PROVE FilesInv'
  <2>1. /\ proc'[p].pc \in {"scan", "idle"} /\ proc[p].pc = "orphan"
        /\ \A q \in Procs \ {p} : proc'[q] = proc[q]
        /\ UNCHANGED <<Held, tombs, parts, killed>> /\ bins' = bins \ proc[p].todo
    BY <1>0, <1>14 DEF SweepOrphan, Continue, Goto, At, Idle, samples, Held, Progress
  <2>2. CASE p = "cli"
    <3>1. \A s \in bins \ bins' : s \in Held \/ At("http", "commit") => s \in lost'
      BY <2>1, <2>2 DEF Lost
    <3> QED
      BY <1>0, <2>1, <2>2, <3>1 DEF FilesInv, At
  <2>3. CASE p = "http"
    BY <1>0, <2>1, <2>3 DEF FilesInv, At
  <2> QED
    BY <1>0, <2>2, <2>3
<1>15. ASSUME NEW p \in Procs, EndProcess(p) PROVE FilesInv'
  <2>1. /\ proc'[p].pc = "idle" /\ \A q \in Procs \ {p} : proc'[q] = proc[q]
        /\ UNCHANGED <<Held, tombs, bins, parts>> /\ p \in killed'
    BY <1>0, <1>15 DEF EndProcess, Idle, samples, objects, Held
  <2> QED
    BY <1>0, <2>1 DEF FilesInv, At
<1> QED
  BY <1>3, <1>4, <1>5, <1>6, <1>7, <1>8, <1>9, <1>10, <1>11, <1>12, <1>13, <1>14, <1>15
  DEF StoreNext, Receive, Elapse, DeleteSamples, Sweep

LEMMA FilesStart == Init => FilesInv
BY DEF Init, StoreInit, FilesInv, Held, At, Idle, Procs

LEMMA FilesStep == StoreInv /\ FilesInv /\ [Next]_vars => FilesInv'
<1> SUFFICES ASSUME StoreInv, FilesInv, [Next]_vars PROVE FilesInv'
  OBVIOUS
<1>1. CASE Work /\ lost' = lost \cup Lost
  <2>1. killed' \cap Procs = killed \cap Procs
    <3>1. CASE EndTrainer
      <4>1. killed' = killed \cup {"train"}
        BY <3>1 DEF EndTrainer
      <4> QED
        BY <4>1 DEF Procs
    <3>2. CASE ~EndTrainer
      <4>1. UNCHANGED killed
        BY <1>1, <3>2, Zenon
        DEF Work, StartJob, TakeSnapshot, AddSampleEdge, AddJobNode, ReadSample, Wait, Evaluate, Recheck,
            AddBuildNode, AddDeliveryNode, WriteArtifact, InsertDelivery, FinishJob, Writes, Reads
      <4> QED
        BY <4>1
    <3> QED
      BY <3>1, <3>2
  <2>2. UNCHANGED <<samples, objects, proc>>
    BY <1>1, WorkLeavesSamples DEF notJobs
  <2> QED
    BY <1>1, <2>1, <2>2, FilesUntouched DEF FilesInv, samples, objects, Held, At
<1>2. CASE UNCHANGED vars
  BY <1>2 DEF vars, storeVars, samples, objects, FilesInv, Held, At
<1> QED
  BY <1>1, <1>2, FilesStoreStep DEF Next

\* A sample that is held has its file, and a file without a row is left only where a
\* process ended, except for what a sweep beside the server took for an orphan.
THEOREM FilesFollowRows == Spec => []FilesMatchRows
<1>1. Init => StoreInv /\ FilesInv
  BY StoreStarts, FilesStart DEF Init
<1>2. StoreInv /\ FilesInv /\ [Next]_vars => StoreInv' /\ FilesInv'
  BY StoreInvStep, FilesStep
<1>3. FilesInv => FilesMatchRows
  BY DEF FilesInv, FilesMatchRows, Quiet, At, Procs
<1> QED
  BY <1>1, <1>2, <1>3, PTL DEF Spec

-----------------------------------------------------------------------------
(* Jobs and models *)

\* What the store does to a job: its lineage stays, its state and its delivery only go on.
Lessened(j) ==
  /\ jobs'[j].dataset = jobs[j].dataset /\ jobs'[j].chain = jobs[j].chain
  /\ jobs[j].state = "none" <=> jobs'[j].state = "none"
  /\ jobs[j].row = "none" <=> jobs'[j].row = "none"
  /\ jobs'[j].row = "live" => jobs[j].row = "live"
  /\ jobs'[j].file => jobs[j].file

LEMMA CancelledJobs ==
  ASSUME JobTypes, jobs' = Cancelled PROVE jobs' \in [Jobs -> Job] /\ \A j \in Jobs : Lessened(j)
<1>1. ASSUME NEW j \in Jobs PROVE jobs'[j] \in Job /\ Lessened(j)
  <2>1. CASE jobs[j].state = "running"
    <3>1. jobs'[j] = [jobs[j] EXCEPT !.state = "cancelled"]
      BY <2>1 DEF Cancelled
    <3> QED
      BY <2>1, <3>1 DEF Lessened, JobTypes, Job
  <2>2. CASE jobs[j].state # "running"
    BY <2>2 DEF Cancelled, Lessened, JobTypes, Job
  <2> QED
    BY <2>1, <2>2
<1> QED
  BY <1>1 DEF Cancelled

LEMMA FilelessJobs ==
  ASSUME JobTypes, NEW of, jobs' = WithoutFiles(of)
  PROVE  /\ jobs' \in [Jobs -> Job] /\ \A j \in Jobs : Lessened(j)
         /\ \A j \in Jobs : /\ jobs'[j].row = jobs[j].row
                            /\ j \notin of => jobs'[j].file = jobs[j].file
<1>1. ASSUME NEW j \in Jobs
      PROVE  jobs'[j] \in Job /\ Lessened(j) /\ jobs'[j].row = jobs[j].row
             /\ (j \notin of => jobs'[j].file = jobs[j].file)
  <2>1. CASE j \in of
    <3>1. jobs'[j] = [jobs[j] EXCEPT !.file = FALSE] /\ jobs[j] \in Job
      BY <2>1 DEF WithoutFiles, JobTypes
    <3>2. jobs'[j] \in Job /\ jobs'[j].file = FALSE
      BY <3>1 DEF Job
    <3>3. jobs'[j].row = jobs[j].row
      BY <3>1 DEF Job
    <3>4. /\ jobs'[j].dataset = jobs[j].dataset /\ jobs'[j].chain = jobs[j].chain
          /\ jobs'[j].state = jobs[j].state
      BY <3>1 DEF Job
    <3> QED
      BY <2>1, <3>2, <3>3, <3>4 DEF Lessened
  <2>2. CASE j \notin of
    BY <2>2 DEF WithoutFiles, Lessened, JobTypes, Job
  <2> QED
    BY <2>1, <2>2
<1> QED
  BY <1>1 DEF WithoutFiles

LEMMA RevokedJobs ==
  ASSUME JobTypes, NEW of, jobs' = Revoked(of)
  PROVE  /\ jobs' \in [Jobs -> Job] /\ \A j \in Jobs : Lessened(j)
         /\ \A j \in Jobs : /\ jobs'[j].file = jobs[j].file
                            /\ j \in of => jobs'[j].row # "live"
<1>1. ASSUME NEW j \in Jobs
      PROVE  jobs'[j] \in Job /\ Lessened(j) /\ jobs'[j].file = jobs[j].file
             /\ (j \in of => jobs'[j].row # "live")
  <2>1. CASE j \in of /\ jobs[j].row = "live"
    <3>1. jobs'[j] = [jobs[j] EXCEPT !.row = "revoked"]
      BY <2>1 DEF Revoked
    <3> QED
      BY <2>1, <3>1 DEF Lessened, JobTypes, Job
  <2>2. CASE ~(j \in of /\ jobs[j].row = "live")
    BY <2>2 DEF Revoked, Lessened, JobTypes, Job
  <2> QED
    BY <2>1, <2>2
<1> QED
  BY <1>1 DEF Revoked

LEMMA StoreLessens ==
  ASSUME JobTypes, StoreNext PROVE jobs' \in [Jobs -> Job] /\ \A j \in Jobs : Lessened(j)
<1>1. ASSUME UNCHANGED jobs PROVE jobs' \in [Jobs -> Job] /\ \A j \in Jobs : Lessened(j)
  BY <1>1 DEF Lessened, JobTypes, Job
<1>2. CASE CancelJobs \/ CancelEveryJob
  BY <1>2, CancelledJobs DEF CancelJobs, CancelEveryJob
<1>3. CASE RemoveDeliveries \/ RevokeDeliveries
  BY <1>3, FilelessJobs, RevokedJobs DEF RemoveDeliveries, RevokeDeliveries
<1>4. ASSUME NEW p \in Procs, Derive(p) PROVE jobs' \in [Jobs -> Job] /\ \A j \in Jobs : Lessened(j)
  BY <1>4, FilelessJobs DEF Derive
<1>5. ASSUME NEW p \in Procs, DeleteRows(p) PROVE jobs' \in [Jobs -> Job] /\ \A j \in Jobs : Lessened(j)
  BY <1>5, RevokedJobs DEF DeleteRows
<1>6. ASSUME NEW p \in Procs, RemoveObjects(p) \/ Sweep(p) \/ EndProcess(p) PROVE UNCHANGED jobs
  BY <1>6, Zenon DEF RemoveObjects, Sweep, BeginSweep, SweepExpired, SweepFile, SweepOrphan, EndSweep, EndProcess
<1>7. ASSUME NEW c \in Grants,
             PostConsent(c) \/ WithdrawConsent(c) \/ ConsentExpires(c) \/ \E s \in Sessions : WritePart(s, c)
      PROVE  UNCHANGED jobs
  BY <1>7, Zenon DEF PostConsent, WithdrawConsent, ConsentExpires, WritePart
<1>8. ASSUME NEW s \in Sessions, Refuse(s) \/ DeleteSample(s) \/ SampleExpires(s) PROVE UNCHANGED jobs
  BY <1>8, Zenon DEF Refuse, DeleteSample, SampleExpires
<1>9. CASE RenamePart \/ CommitSample \/ DeleteEverything \/ WithdrawEveryConsent
  BY <1>1, <1>9, Zenon DEF RenamePart, CommitSample, DeleteEverything, WithdrawEveryConsent
<1> QED
  BY <1>1, <1>2, <1>3, <1>4, <1>5, <1>6, <1>7, <1>8, <1>9
  DEF StoreNext, Receive, Elapse, DeleteSamples

\* What the training process does to jobs, each alike in all but the field that is named.
Alike(j) ==
  /\ jobs'[j].dataset = jobs[j].dataset /\ jobs'[j].chain = jobs[j].chain
  /\ jobs'[j].row = jobs[j].row /\ jobs'[j].file = jobs[j].file
  /\ jobs[j].state = "none" => jobs'[j].state \in {"none", "running"}
  /\ jobs[j].state # "none" => jobs'[j].state # "none"

LEMMA FinishedJobs ==
  ASSUME JobTypes, tr.job \in Jobs, NEW state \in {"kept", "cancelled", "delivered"},
         jobs' = Finished(state)
  PROVE  jobs' \in [Jobs -> Job] /\ \A j \in Jobs : Alike(j)
<1>1. ASSUME NEW j \in Jobs PROVE jobs'[j] \in Job /\ Alike(j)
  <2>1. jobs[j] \in Job
    BY DEF JobTypes
  <2>2. CASE j = tr.job /\ jobs[j].state = "running"
    <3>1. jobs'[j] = [jobs[j] EXCEPT !.state = state]
      BY <2>2 DEF Finished, JobTypes
    <3>2. /\ jobs'[j].dataset = jobs[j].dataset /\ jobs'[j].chain = jobs[j].chain
          /\ jobs'[j].row = jobs[j].row /\ jobs'[j].file = jobs[j].file
      BY <2>1, <3>1 DEF Job
    <3>3. jobs'[j] \in Job /\ jobs'[j].state = state
      BY <2>1, <3>1 DEF Job
    <3> QED
      BY <2>2, <3>2, <3>3 DEF Alike
  <2>3. CASE j # tr.job
    <3>1. jobs'[j] = jobs[j]
      BY <2>3 DEF Finished, JobTypes
    <3> QED
      BY <2>1, <3>1 DEF Alike, Job
  <2>4. CASE j = tr.job /\ jobs[j].state # "running"
    <3>1. jobs'[j] = [jobs[j] EXCEPT !.state = jobs[j].state]
      BY <2>4 DEF Finished, JobTypes
    <3>2. jobs'[j] = jobs[j]
      BY <2>1, <3>1 DEF Job
    <3> QED
      BY <2>1, <3>2 DEF Alike, Job
  <2> QED
    BY <2>2, <2>3, <2>4
<1> QED
  BY <1>1 DEF Finished, JobTypes

\* Every way out of a job.
LEMMA LeavingKeepsJobs ==
  ASSUME JobInv, tr' = Resting,
         \/ UNCHANGED jobs
         \/ tr.job \in Jobs /\ \E state \in {"kept", "cancelled", "delivered"} : jobs' = Finished(state)
  PROVE  JobInv'
<1>1. jobs' \in [Jobs -> Job] /\ \A j \in Jobs : Alike(j)
  BY FinishedJobs DEF Alike, JobInv, JobTypes
<1> QED
  BY <1>1 DEF Resting, JobInv, JobTypes, Stage, TrAt, Alike

\* A step to another stage that needs no more of the lineage.
LEMMA GoingOnKeepsJobs ==
  ASSUME JobInv, ~TrAt("rest"), UNCHANGED jobs, NEW pc \in Stage \ {"rest", "finish", "snapshot"}, Proceed(pc),
         Chain(pc) = Chain(tr.pc), ~TrAt("finish")
  PROVE  JobInv'
<1>1. /\ tr'.pc = pc /\ tr'.job = tr.job /\ tr'.snapshot = tr.snapshot /\ tr'.todo = tr.todo
      /\ tr' \in [pc : Stage, job : Nat, snapshot : SUBSET Sessions, todo : SUBSET Sessions]
  BY DEF Proceed, JobInv, JobTypes
<1> QED
  BY <1>1 DEF JobInv, JobTypes, TrAt, Stage

LEMMA WorkKeepsJobs == ASSUME StoreInv, JobInv, Work PROVE JobInv'
<1> DEFINE k == tr.job
           Tr == [pc : Stage, job : Nat, snapshot : SUBSET Sessions, todo : SUBSET Sessions]
<1>0. ~TrAt("rest") => k \in Jobs /\ jobs[k] \in Job
  BY DEF JobInv, JobTypes
<1>1. CASE StartJob
  <2>1. PICK j \in Jobs : /\ jobs[j] = NoJob /\ jobs' = [jobs EXCEPT ![j].state = "running"]
                          /\ tr' = [Resting EXCEPT !.pc = "snapshot", !.job = j]
    BY <1>1, Zenon DEF StartJob
  <2>2. /\ tr' \in Tr /\ tr'.pc = "snapshot" /\ tr'.job = j /\ tr'.snapshot = {} /\ tr'.todo = {}
    <3>1. /\ Resting \in Tr /\ Resting.snapshot = {} /\ Resting.todo = {}
          /\ j \in Nat /\ "snapshot" \in Stage
      BY DEF Resting, Stage, Jobs
    <3> QED
      BY <2>1, <3>1
  <2>3. /\ jobs'[j].state = "running" /\ jobs'[j].chain = 0 /\ jobs'[j].dataset = {} /\ jobs'[j].row = "none"
        /\ \A i \in Jobs \ {j} : jobs'[i] = jobs[i]
    BY <2>1 DEF NoJob, JobInv, JobTypes
  <2>4. jobs' \in [Jobs -> Job]
    BY <2>1 DEF JobInv, JobTypes, Job
  <2>5. IsFiniteSet({}) /\ Chain("snapshot") = 0
    BY FS_EmptySet DEF Chain
  <2> QED
    BY <2>2, <2>3, <2>4, <2>5 DEF JobInv, JobTypes, TrAt
<1>2. CASE TakeSnapshot
  <2>1. CASE jobs' = Finished("kept") /\ Leave
    BY <1>0, <1>2, <2>1, LeavingKeepsJobs DEF TakeSnapshot, TrAt, Leave
  <2>2. CASE UNCHANGED jobs /\ tr' = [tr EXCEPT !.pc = "dataset", !.snapshot = Trainable, !.todo = Trainable]
    <3>1. Trainable \in SUBSET Sessions /\ IsFiniteSet(Trainable)
      BY FS_Subset DEF Trainable, Held, StoreInv, AcceptedInv
    <3>2. /\ tr' \in Tr /\ tr'.pc = "dataset" /\ tr'.job = k /\ tr'.snapshot = Trainable /\ tr'.todo = Trainable
      BY <2>2, <3>1 DEF JobInv, JobTypes, Stage
    <3>3. Chain("dataset") = Chain("snapshot")
      BY DEF Chain
    <3> QED
      BY <1>0, <1>2, <2>2, <3>1, <3>2, <3>3 DEF TakeSnapshot, JobInv, JobTypes, TrAt
  <2> QED
    BY <1>2, <2>1, <2>2 DEF TakeSnapshot
<1>3. CASE AddSampleEdge
  <2>1. PICK s \in tr.todo : /\ jobs' = [jobs EXCEPT ![k].dataset = @ \cup {s}]
                             /\ tr' = [tr EXCEPT !.todo = @ \ {s}]
    BY <1>3 DEF AddSampleEdge
  <2>2. /\ tr' \in Tr /\ tr'.pc = "dataset" /\ tr.pc = "dataset" /\ tr'.job = k /\ tr'.snapshot = tr.snapshot
        /\ tr'.todo \subseteq tr.todo
    BY <1>3, <2>1 DEF AddSampleEdge, JobInv, JobTypes, TrAt
  <2>3. s \in Sessions /\ s \in tr.snapshot /\ tr.snapshot \subseteq Sessions
    BY <2>1, <2>2 DEF JobInv, JobTypes, TrAt
  <2>4. /\ jobs'[k].state = jobs[k].state /\ jobs'[k].chain = jobs[k].chain /\ jobs'[k].row = jobs[k].row
        /\ jobs'[k].dataset = jobs[k].dataset \cup {s}
        /\ \A i \in Jobs \ {k} : jobs'[i] = jobs[i]
    BY <1>0, <2>1, <2>2 DEF JobInv, JobTypes, Job, TrAt
  <2>5. jobs' \in [Jobs -> Job]
    BY <1>0, <2>1, <2>2, <2>3 DEF JobInv, JobTypes, Job, TrAt
  <2> QED
    BY <1>0, <2>2, <2>3, <2>4, <2>5 DEF JobInv, JobTypes, TrAt
<1>4. ASSUME NEW n \in 1..3, NEW pc \in {"read", "delivery", "artifact"},
             ~TrAt("rest"), TrAt("snapshot") \/ TrAt("dataset") \/ TrAt("build") \/ TrAt("delivery"),
             jobs' = [jobs EXCEPT ![k].chain = n], n = Chain(pc), jobs[k].row = "none",
             tr' \in Tr, tr'.pc = pc, tr'.job = k, tr'.snapshot = tr.snapshot, tr'.todo \subseteq tr.snapshot
      PROVE  JobInv'
  <2>1. /\ jobs'[k].state = jobs[k].state /\ jobs'[k].chain = n /\ jobs'[k].row = jobs[k].row
        /\ jobs'[k].dataset = jobs[k].dataset
        /\ \A i \in Jobs \ {k} : jobs'[i] = jobs[i]
    BY <1>0, <1>4 DEF JobInv, JobTypes, Job
  <2>2. jobs' \in [Jobs -> Job]
    BY <1>0, <1>4 DEF JobInv, JobTypes, Job
  <2> QED
    BY <1>0, <1>4, <2>1, <2>2 DEF JobInv, JobTypes, TrAt
<1>5. CASE AddJobNode \/ AddBuildNode \/ AddDeliveryNode
  <2>1. /\ Chain("read") = 1 /\ Chain("delivery") = 2 /\ Chain("artifact") = 3
        /\ jobs[k].row = "none" /\ tr.todo \subseteq tr.snapshot /\ ~TrAt("rest")
    BY <1>5 DEF Chain, AddJobNode, AddBuildNode, AddDeliveryNode, JobInv, TrAt
  <2>2. CASE AddJobNode
    <3>1. tr \in Tr /\ TrAt("dataset")
      BY <2>2 DEF AddJobNode, JobInv, JobTypes
    <3>2. /\ tr' = [tr EXCEPT !.pc = "read", !.todo = tr.snapshot]
          /\ jobs' = [jobs EXCEPT ![k].chain = 1]
      BY <2>2 DEF AddJobNode
    <3>3. /\ tr' \in Tr /\ tr'.pc = "read" /\ tr'.job = k /\ tr'.snapshot = tr.snapshot
          /\ tr'.todo \subseteq tr.snapshot
      BY <3>1, <3>2 DEF Stage
    <3> QED
      BY <1>4, <2>1, <3>1, <3>2, <3>3
  <2>3. CASE AddBuildNode
    BY <1>4, <2>1, <2>3 DEF AddBuildNode, Proceed, TrAt, JobInv, JobTypes, Stage
  <2>4. CASE AddDeliveryNode
    BY <1>4, <2>1, <2>4 DEF AddDeliveryNode, Proceed, TrAt, JobInv, JobTypes, Stage
  <2> QED
    BY <1>5, <2>2, <2>3, <2>4
<1>6. CASE ReadSample
  <2>1. CASE \E s \in tr.todo \cap bins : UNCHANGED jobs /\ tr' = [tr EXCEPT !.todo = @ \ {s}]
    <3>1. PICK s \in tr.todo \cap bins : UNCHANGED jobs /\ tr' = [tr EXCEPT !.todo = @ \ {s}]
      BY <2>1
    <3>2. /\ tr' \in Tr /\ tr'.pc = tr.pc /\ tr'.job = k /\ tr'.snapshot = tr.snapshot
          /\ tr'.todo \subseteq tr.todo
      BY <3>1 DEF JobInv, JobTypes
    <3> QED
      BY <1>6, <3>1, <3>2 DEF ReadSample, TrAt, JobInv, JobTypes
  <2>2. CASE Leave /\ (UNCHANGED jobs \/ jobs' = Finished("kept"))
    <3>1. TrAt("read")
      BY <1>6 DEF ReadSample
    <3> QED
      BY <1>0, <2>2, <3>1, LeavingKeepsJobs, Zenon DEF Leave, TrAt
  <2>3. CASE UNCHANGED jobs /\ Proceed("train")
    BY <1>6, <2>3, GoingOnKeepsJobs DEF ReadSample, TrAt, Stage, Chain
  <2> QED
    BY <1>6, <2>1, <2>2, <2>3, Zenon DEF ReadSample, Reads
<1>7. ASSUME NEW from \in {"train", "quantize"}, NEW to \in {"quantize", "evaluate"}, Wait(from, to) PROVE JobInv'
  <2>1. CASE Leave /\ (UNCHANGED jobs \/ jobs' = Finished("kept"))
    <3>1. TrAt(from)
      BY <1>7 DEF Wait
    <3> QED
      BY <1>0, <2>1, <3>1, LeavingKeepsJobs, Zenon DEF Leave, TrAt
  <2>2. CASE UNCHANGED jobs /\ Proceed(to)
    BY <1>7, <2>2, GoingOnKeepsJobs DEF Wait, TrAt, Stage, Chain
  <2> QED
    BY <1>7, <2>1, <2>2, Zenon DEF Wait, Reads
<1>8. CASE Evaluate
  <2>1. CASE Leave /\ jobs' = Finished("kept")
    BY <1>0, <1>8, <2>1, LeavingKeepsJobs DEF Evaluate, Leave, TrAt
  <2>2. CASE UNCHANGED jobs /\ Proceed("recheck")
    BY <1>8, <2>2, GoingOnKeepsJobs DEF Evaluate, TrAt, Stage, Chain
  <2> QED
    BY <1>8, <2>1, <2>2, Zenon DEF Evaluate, Reads
<1>9. CASE Recheck
  <2>1. CASE Leave /\ jobs' = Finished("cancelled")
    BY <1>0, <1>9, <2>1, LeavingKeepsJobs DEF Recheck, Leave, TrAt
  <2>2. CASE UNCHANGED jobs /\ Proceed("build")
    BY <1>9, <2>2, GoingOnKeepsJobs DEF Recheck, TrAt, Stage, Chain
  <2> QED
    BY <1>9, <2>1, <2>2, Zenon DEF Recheck, Reads
<1>10. CASE WriteArtifact \/ InsertDelivery
  <2>1. PICK pc \in {"row", "finish"} :
          /\ tr' = [tr EXCEPT !.pc = pc] /\ Chain(pc) = 3
          /\ pc = "row" => TrAt("artifact") /\ jobs' = [jobs EXCEPT ![k].file = TRUE]
          /\ pc = "finish" => TrAt("row") /\ jobs' = [jobs EXCEPT ![k].row = "live"]
    <3>1. Chain("row") = 3 /\ Chain("finish") = 3
      BY DEF Chain
    <3> QED
      BY <1>10, <3>1 DEF WriteArtifact, InsertDelivery, Proceed
  <2>2. /\ tr' \in Tr /\ tr'.pc = pc /\ tr'.job = k /\ tr'.snapshot = tr.snapshot /\ tr'.todo = tr.todo
    BY <2>1 DEF JobInv, JobTypes, Stage
  <2>3. k \in Jobs /\ jobs[k] \in Job /\ jobs[k].chain = 3
    BY <1>0, <2>1 DEF JobInv, TrAt, Chain
  <2>4. /\ jobs'[k].state = jobs[k].state /\ jobs'[k].chain = 3 /\ jobs'[k].dataset = jobs[k].dataset
        /\ pc = "row" => jobs'[k].row = jobs[k].row
        /\ \A i \in Jobs \ {k} : jobs'[i] = jobs[i]
    <3>1. CASE pc = "row"
      BY <2>1, <2>3, <3>1 DEF JobInv, JobTypes, Job
    <3>2. CASE pc = "finish"
      BY <2>1, <2>3, <3>2 DEF JobInv, JobTypes, Job
    <3> QED
      BY <2>1, <3>1, <3>2
  <2>5. jobs' \in [Jobs -> Job]
    <3>1. CASE pc = "row"
      <4>1. jobs' = [jobs EXCEPT ![k].file = TRUE] /\ jobs \in [Jobs -> Job]
        BY <2>1, <3>1 DEF JobInv, JobTypes
      <4>2. [jobs[k] EXCEPT !.file = TRUE] \in Job
        BY <2>3 DEF Job
      <4> QED
        BY <2>3, <4>1, <4>2
    <3>2. CASE pc = "finish"
      <4>1. jobs' = [jobs EXCEPT ![k].row = "live"] /\ jobs \in [Jobs -> Job]
        BY <2>1, <3>2 DEF JobInv, JobTypes
      <4>2. [jobs[k] EXCEPT !.row = "live"] \in Job
        BY <2>3 DEF Job
      <4> QED
        BY <2>3, <4>1, <4>2
    <3> QED
      BY <2>1, <3>1, <3>2
  <2> QED
    BY <2>1, <2>2, <2>3, <2>4, <2>5 DEF JobInv, JobTypes, TrAt
<1>11. CASE FinishJob \/ EndTrainer
  <2>1. CASE FinishJob
    BY <1>0, <2>1, LeavingKeepsJobs DEF FinishJob, Leave, TrAt
  <2>2. CASE EndTrainer
    <3>1. tr' = Resting /\ UNCHANGED jobs
      BY <2>2 DEF EndTrainer
    <3> QED
      BY <3>1, LeavingKeepsJobs, Zenon
  <2> QED
    BY <1>11, <2>1, <2>2
<1> QED
  BY <1>1, <1>2, <1>3, <1>5, <1>6, <1>7, <1>8, <1>9, <1>10, <1>11 DEF Work

LEMMA JobStep == StoreInv /\ JobInv /\ [Next]_vars => JobInv'
<1> SUFFICES ASSUME StoreInv, JobInv, [Next]_vars PROVE JobInv'
  OBVIOUS
<1>1. CASE StoreNext /\ UNCHANGED trainerVars
  <2>1. jobs' \in [Jobs -> Job] /\ \A j \in Jobs : Lessened(j)
    BY <1>1, StoreLessens DEF JobInv
  <2> QED
    BY <1>1, <2>1 DEF JobInv, JobTypes, Lessened, trainerVars, TrAt
<1>2. CASE UNCHANGED vars
  BY <1>2 DEF vars, storeVars, trainerVars, JobInv, JobTypes, TrAt
<1> QED
  BY <1>1, <1>2, WorkKeepsJobs DEF Next

LEMMA JobsStart == Init => JobInv
BY DEF Init, StoreInit, JobInv, JobTypes, NoJob, Job, Resting, Stage, TrAt

-----------------------------------------------------------------------------
(* Plaintext *)

LEMMA StoreKillsMore == StoreNext => killed \subseteq killed'
<1> SUFFICES ASSUME StoreNext PROVE killed \subseteq killed'
  OBVIOUS
<1>1. CASE Receive
  BY <1>1, Zenon DEF Receive, PostConsent, WithdrawConsent, WritePart, Refuse, DeleteSample, RenamePart,
    CommitSample, CancelJobs, DeleteEverything, RemoveDeliveries, RevokeDeliveries, CancelEveryJob,
    WithdrawEveryConsent, Begin, Continue
<1>2. CASE Elapse
  BY <1>2, Zenon DEF Elapse, ConsentExpires, SampleExpires
<1>3. ASSUME NEW p \in Procs, DeleteSamples(p) \/ Sweep(p) PROVE killed \subseteq killed'
  BY <1>3, Zenon DEF DeleteSamples, Derive, DeleteRows, RemoveObjects, Sweep, BeginSweep, SweepExpired,
    SweepFile, SweepOrphan, EndSweep, Begin, Continue
<1>4. ASSUME NEW p \in Procs, EndProcess(p) PROVE killed \subseteq killed'
  BY <1>4 DEF EndProcess
<1> QED
  BY <1>1, <1>2, <1>3, <1>4 DEF StoreNext

\* Only the step after the last sample was read makes a directory, and every way out
\* of the job but its end removes it.
LEMMA DirsStep == JobTypes /\ DirsInv /\ [Next]_vars => DirsInv'
<1> SUFFICES ASSUME JobTypes, DirsInv, [Next]_vars PROVE DirsInv'
  OBVIOUS
<1>1. CASE StoreNext /\ UNCHANGED trainerVars
  BY <1>1, StoreKillsMore DEF trainerVars, DirsInv, TrAt
<1>2. CASE UNCHANGED vars
  BY <1>2 DEF vars, storeVars, trainerVars, DirsInv, TrAt
<1>3. ASSUME UNCHANGED killed, ~TrAt("rest"), tr'.job = tr.job, tr'.pc # "rest",
             jobDirs' \subseteq jobDirs \cup {tr.job}
      PROVE  DirsInv'
  BY <1>3 DEF DirsInv, TrAt
<1>4. ASSUME UNCHANGED killed, ~TrAt("rest"), Leave PROVE DirsInv'
  BY <1>4 DEF DirsInv, TrAt, Leave, Resting
<1>5. ASSUME UNCHANGED killed, ~TrAt("rest"), NEW pc \in Stage \ {"rest"}, Proceed(pc), UNCHANGED jobDirs PROVE DirsInv'
  BY <1>3, <1>5 DEF Proceed, JobTypes
<1>6. CASE StartJob
  BY <1>6 DEF StartJob, Writes, DirsInv, TrAt
<1>7. CASE TakeSnapshot
  <2>1. UNCHANGED killed /\ ~TrAt("rest")
    BY <1>7 DEF TakeSnapshot, Writes, TrAt
  <2>2. CASE tr' = [tr EXCEPT !.pc = "dataset", !.snapshot = Trainable, !.todo = Trainable] /\ UNCHANGED jobDirs
    <3>1. tr'.pc = "dataset" /\ tr'.job = tr.job
      BY <2>2 DEF JobTypes
    <3> QED
      BY <1>3, <2>1, <2>2, <3>1
  <2> QED
    BY <1>4, <1>7, <2>1, <2>2 DEF TakeSnapshot
<1>8. CASE AddSampleEdge \/ AddJobNode
  <2>1. UNCHANGED <<killed, jobDirs>> /\ TrAt("dataset")
    BY <1>8, Zenon DEF AddSampleEdge, AddJobNode, Writes
  <2>2. tr'.job = tr.job /\ tr'.pc # "rest"
    <3>1. CASE AddSampleEdge
      BY <3>1 DEF AddSampleEdge, TrAt, JobTypes
    <3>2. CASE AddJobNode
      <4>1. tr' = [tr EXCEPT !.pc = "read", !.todo = tr.snapshot]
        BY <3>2 DEF AddJobNode
      <4> QED
        BY <4>1 DEF JobTypes
    <3> QED
      BY <1>8, <3>1, <3>2
  <2> QED
    BY <1>3, <2>1, <2>2 DEF TrAt
<1>9. CASE ReadSample
  <2>1. UNCHANGED killed /\ TrAt("read")
    BY <1>9, Zenon DEF ReadSample, Reads, Writes
  <2>2. CASE UNCHANGED jobDirs /\ \E s \in tr.todo \cap bins : tr' = [tr EXCEPT !.todo = @ \ {s}]
    BY <1>3, <2>1, <2>2 DEF JobTypes, TrAt
  <2>3. CASE jobDirs' = jobDirs \cup {tr.job} /\ Proceed("train")
    BY <1>3, <2>1, <2>3 DEF Proceed, JobTypes, TrAt
  <2> QED
    BY <1>4, <1>9, <2>1, <2>2, <2>3, Zenon DEF ReadSample, TrAt
<1>10. ASSUME NEW from \in {"train", "quantize"}, NEW to \in {"quantize", "evaluate"}, Wait(from, to) PROVE DirsInv'
  <2>1. UNCHANGED killed /\ TrAt(from)
    BY <1>10, Zenon DEF Wait, Reads, Writes
  <2>2. ~TrAt("rest") /\ to \in Stage \ {"rest"}
    BY <2>1 DEF TrAt, Stage
  <2> QED
    BY <1>4, <1>5, <1>10, <2>1, <2>2, Zenon DEF Wait
<1>11. CASE Evaluate \/ Recheck
  <2>1. UNCHANGED killed /\ (TrAt("evaluate") \/ TrAt("recheck"))
    BY <1>11, Zenon DEF Evaluate, Recheck, Reads, Writes
  <2>2. ~TrAt("rest") /\ {"recheck", "build"} \subseteq Stage \ {"rest"}
    BY <2>1 DEF TrAt, Stage
  <2>3. \/ Leave
        \/ UNCHANGED jobDirs /\ \E pc \in {"recheck", "build"} : Proceed(pc)
    BY <1>11, Zenon DEF Evaluate, Recheck
  <2> QED
    BY <1>4, <1>5, <2>1, <2>2, <2>3
<1>12. CASE AddBuildNode \/ AddDeliveryNode \/ WriteArtifact \/ InsertDelivery
  <2>1. UNCHANGED <<killed, jobDirs>> /\ \E pc \in {"delivery", "artifact", "row", "finish"} : Proceed(pc)
    BY <1>12, Zenon DEF AddBuildNode, AddDeliveryNode, WriteArtifact, InsertDelivery, Writes
  <2>2. ~TrAt("rest") /\ {"delivery", "artifact", "row", "finish"} \subseteq Stage \ {"rest"}
    BY <1>12 DEF AddBuildNode, AddDeliveryNode, WriteArtifact, InsertDelivery, TrAt, Stage
  <2> QED
    BY <1>5, <2>1, <2>2
<1>13. CASE FinishJob
  BY <1>4, <1>13 DEF FinishJob, Writes, TrAt
<1>14. CASE EndTrainer
  BY <1>14 DEF EndTrainer, DirsInv
<1> QED
  BY <1>1, <1>2, <1>6, <1>7, <1>8, <1>9, <1>10, <1>11, <1>12, <1>13, <1>14 DEF Next, Work

\* What training has decrypted is gone with the job, on any way out of it.
THEOREM PlaintextGoesWithTheJob == Spec => []NoPlaintextLeft
<1>1. Init => StoreInv /\ JobInv /\ DirsInv
  BY StoreStarts, JobsStart DEF Init, DirsInv
<1>2. StoreInv /\ JobInv /\ DirsInv /\ [Next]_vars => StoreInv' /\ JobInv' /\ DirsInv'
  BY StoreInvStep, JobStep, DirsStep DEF JobInv
<1>3. DirsInv => NoPlaintextLeft
  BY DEF DirsInv, NoPlaintextLeft
<1> QED
  BY <1>1, <1>2, <1>3, PTL DEF Spec

-----------------------------------------------------------------------------
(* Models and deletions *)

\* What a process in the middle of a deletion does next.
LEMMA RowsLeft ==
  ASSUME StoreTypes, StoreNext, NEW p \in Procs, At(p, "rows")
  PROVE  proc'[p] = proc[p] \/ DeleteRows(p) \/ EndProcess(p)
<1>1. CASE Receive \/ Elapse
  <2>1. CASE p = "cli"
    BY <1>1, <2>1, RequestsLeaveSweep
  <2>2. CASE p = "http" /\ Receive
    <3>1. proc["http"].pc # "rows"
      BY <2>2, Zenon DEF Receive, PostConsent, WithdrawConsent, WritePart, Refuse, DeleteSample, RenamePart,
        CommitSample, CancelJobs, DeleteEverything, RemoveDeliveries, RevokeDeliveries, CancelEveryJob,
        WithdrawEveryConsent, Begin, Continue, At
    <3> QED
      BY <2>2, <3>1 DEF At
  <2>3. CASE Elapse
    BY <2>3 DEF Elapse, ConsentExpires, SampleExpires
  <2> QED
    BY <1>1, <2>1, <2>2, <2>3 DEF Procs
<1>2. ASSUME NEW q \in Procs, DeleteSamples(q) \/ Sweep(q) \/ EndProcess(q)
      PROVE  proc'[p] = proc[p] \/ DeleteRows(p) \/ EndProcess(p)
  <2>1. CASE q # p
    BY <1>2, <2>1, ProcessesApart
  <2>2. CASE q = p
    <3>1. ASSUME Derive(p) \/ RemoveObjects(p) \/ Sweep(p) PROVE proc[p].pc # "rows"
      BY <3>1, Zenon DEF Derive, RemoveObjects, Sweep, BeginSweep, SweepExpired, SweepFile, SweepOrphan,
                         EndSweep, Begin, Continue, At
    <3> QED
      BY <1>2, <2>2, <3>1 DEF DeleteSamples, At
  <2> QED
    BY <2>1, <2>2
<1> QED
  BY <1>1, <1>2 DEF StoreNext

LEMMA RevokeAllLeft ==
  ASSUME StoreTypes, StoreNext, At("http", "revokeAll")
  PROVE  proc'["http"] = proc["http"] \/ RevokeDeliveries \/ EndProcess("http")
<1>1. CASE Receive
  <2>1. CASE ~RevokeDeliveries
    <3>1. proc["http"].pc # "revokeAll"
      BY <1>1, <2>1, Zenon DEF Receive, PostConsent, WithdrawConsent, WritePart, Refuse, DeleteSample, RenamePart,
        CommitSample, CancelJobs, DeleteEverything, RemoveDeliveries, CancelEveryJob,
        WithdrawEveryConsent, Begin, Continue, At
    <3> QED
      BY <3>1 DEF At
  <2> QED
    BY <2>1
<1>2. CASE Elapse
  BY <1>2 DEF Elapse, ConsentExpires, SampleExpires
<1>3. ASSUME NEW q \in Procs, DeleteSamples(q) \/ Sweep(q) \/ EndProcess(q)
      PROVE  proc'["http"] = proc["http"] \/ EndProcess("http")
  <2>1. CASE q # "http"
    BY <1>3, <2>1, ProcessesApart DEF Procs
  <2>2. CASE q = "http"
    <3>1. ASSUME DeleteSamples(q) \/ Sweep(q) PROVE proc[q].pc # "revokeAll"
      BY <3>1, Zenon DEF DeleteSamples, Derive, DeleteRows, RemoveObjects, Sweep, BeginSweep, SweepExpired,
                         SweepFile, SweepOrphan, EndSweep, Begin, Continue, At
    <3> QED
      BY <1>3, <2>2, <3>1 DEF At
  <2> QED
    BY <2>1, <2>2
<1> QED
  BY <1>1, <1>2, <1>3 DEF StoreNext

\* Nobody gets there without having looked for what derives from the samples.
LEMMA RowsEntered ==
  ASSUME StoreTypes, StoreNext, NEW p \in Procs, proc'[p].pc = "rows"
  PROVE  proc'[p] = proc[p] \/ Derive(p)
<1>0. /\ "http" \in Procs /\ DOMAIN proc = Procs
      /\ \A q \in Procs : proc[q] \in Progress
  BY DEF StoreTypes, Procs
<1>1. CASE Elapse
  BY <1>1 DEF Elapse, ConsentExpires, SampleExpires
<1>2. CASE Receive
  <2>1. CASE p = "cli"
    BY <1>2, <2>1, RequestsLeaveSweep
  <2>2. CASE p = "http"
    <3>1. CASE CancelJobs \/ DeleteEverything \/ \E s \in Sessions : DeleteSample(s)
      <4>1. \E from \in SUBSET Sessions, then \in {"idle", "deliveries"} :
               proc'["http"] = Aimed(proc["http"], from, then)
        BY <3>1, RequestFields
      <4> QED
        BY <1>0, <2>2, <4>1 DEF Aimed, Progress
    <3>2. CASE (\E c \in Grants : PostConsent(c)) \/ \E s \in Sessions : Refuse(s)
      BY <2>2, <3>2 DEF PostConsent, Refuse
    <3>3. CASE (\E c \in Grants : WithdrawConsent(c)) \/ WithdrawEveryConsent \/ CommitSample
      <4>1. proc'["http"].pc \in {"cancel", "idle"}
        <5>1. CASE WithdrawEveryConsent \/ CommitSample
          BY <1>0, <5>1 DEF WithdrawEveryConsent, CommitSample, Idle
        <5>2. ASSUME NEW c \in Grants, WithdrawConsent(c) PROVE proc'["http"].pc = "cancel"
          BY <1>0, <5>2 DEF WithdrawConsent, Idle
        <5> QED
          BY <3>3, <5>1, <5>2
      <4> QED
        BY <2>2, <4>1
    <3>4. CASE \E s \in Sessions, c \in Grants : WritePart(s, c)
      <4>1. proc'["http"].pc = "rename"
        BY <1>0, <3>4 DEF WritePart, Idle
      <4> QED
        BY <2>2, <4>1
    <3>5. CASE RenamePart \/ RemoveDeliveries \/ RevokeDeliveries \/ CancelEveryJob
      BY <1>0, <2>2, <3>5 DEF RenamePart, RemoveDeliveries, RevokeDeliveries, CancelEveryJob, Goto, Progress
    <3> QED
      BY <1>2, <3>1, <3>2, <3>3, <3>4, <3>5 DEF Receive
  <2> QED
    BY <2>1, <2>2 DEF Procs
<1>3. ASSUME NEW q \in Procs, DeleteSamples(q) \/ Sweep(q) \/ EndProcess(q)
      PROVE  proc'[p] = proc[p] \/ Derive(p)
  <2>1. CASE q # p
    BY <1>3, <2>1, ProcessesApart
  <2>2. CASE q = p
    <3>1. CASE DeleteRows(p) \/ EndProcess(p) \/ BeginSweep(p) \/ EndSweep(p) \/ SweepOrphan(p)
      BY <1>0, <3>1 DEF DeleteRows, EndProcess, BeginSweep, EndSweep, SweepOrphan, Goto, Idle, Progress
    <3>2. CASE RemoveObjects(p)
      BY <1>0, <3>2 DEF RemoveObjects, Idle, Progress
    <3>3. CASE SweepExpired(p)
      <4>1. ASSUME NEW s PROVE [Aimed(proc[p], {s}, "expired") EXCEPT !.queue = @ \ {s}].pc = "derive"
        BY <1>0 DEF Aimed, Progress
      <4>2. [proc[p] EXCEPT !.pc = "scan", !.queue = bins].pc = "scan"
        BY <1>0 DEF Progress
      <4>3. \/ \E s \in proc[p].queue :
                 proc'[p] = [Aimed(proc[p], {s}, "expired") EXCEPT !.queue = @ \ {s}]
            \/ proc'[p] = [proc[p] EXCEPT !.pc = "scan", !.queue = bins]
        BY <3>3, SweepFields, Zenon
      <4> QED
        BY <4>1, <4>2, <4>3
    <3>4. CASE SweepFile(p)
      <4>1. PICK s : proc' = [proc EXCEPT ![p].queue = @ \ {s}, ![p].todo = {s},
                                          ![p].pc = IF s \notin Held THEN "orphan" ELSE "scan"]
        BY <3>4, Zenon DEF SweepFile
      <4>2. proc'[p].pc \in {"orphan", "scan"}
        BY <1>0, <4>1 DEF Progress
      <4> QED
        BY <4>2
    <3> QED
      BY <1>3, <2>2, <3>1, <3>2, <3>3, <3>4 DEF DeleteSamples, Sweep
  <2> QED
    BY <2>1, <2>2
<1> QED
  BY <1>1, <1>2, <1>3 DEF StoreNext

LEMMA TombsGrow == ASSUME StoreNext PROVE UNCHANGED tombs \/ \E p \in Procs : DeleteRows(p)
<1>1. CASE Receive
  BY <1>1, Zenon DEF Receive, PostConsent, WithdrawConsent, WritePart, Refuse, DeleteSample, RenamePart,
    CommitSample, CancelJobs, DeleteEverything, RemoveDeliveries, RevokeDeliveries, CancelEveryJob,
    WithdrawEveryConsent, samples
<1>2. CASE Elapse
  BY <1>2, Zenon DEF Elapse, ConsentExpires, SampleExpires, samples
<1>3. ASSUME NEW p \in Procs, DeleteSamples(p) \/ Sweep(p) \/ EndProcess(p), ~DeleteRows(p) PROVE UNCHANGED tombs
  BY <1>3, Zenon DEF DeleteSamples, Derive, RemoveObjects, Sweep, BeginSweep, SweepExpired,
    SweepFile, SweepOrphan, EndSweep, EndProcess, samples
<1> QED
  BY <1>1, <1>2, <1>3 DEF StoreNext

\* Who removes the file of a delivery.
LEMMA FileGone ==
  ASSUME JobTypes, StoreNext, NEW j \in Jobs, jobs[j].file, ~jobs'[j].file
  PROVE  \/ \E p \in Procs : Derive(p) /\ j \in Derived(proc[p].todo)
         \/ RemoveDeliveries /\ jobs[j].row # "none"
<1>1. CASE UNCHANGED jobs
  BY <1>1
<1>2. CASE CancelJobs \/ CancelEveryJob
  <2>1. jobs'[j] = jobs[j] \/ jobs'[j] = [jobs[j] EXCEPT !.state = "cancelled"]
    BY <1>2 DEF CancelJobs, CancelEveryJob, Cancelled
  <2> QED
    BY <2>1 DEF JobTypes, Job
<1>3. CASE RevokeDeliveries \/ \E p \in Procs : DeleteRows(p)
  BY <1>3, RevokedJobs DEF RevokeDeliveries, DeleteRows
<1>4. CASE RemoveDeliveries
  BY <1>4, FilelessJobs DEF RemoveDeliveries
<1>5. ASSUME NEW p \in Procs, Derive(p) PROVE j \in Derived(proc[p].todo)
  BY <1>5, FilelessJobs DEF Derive
<1>6. ASSUME NEW p \in Procs, RemoveObjects(p) \/ Sweep(p) \/ EndProcess(p) PROVE UNCHANGED jobs
  BY <1>6, Zenon DEF RemoveObjects, Sweep, BeginSweep, SweepExpired, SweepFile, SweepOrphan, EndSweep, EndProcess
<1>7. CASE Elapse
  BY <1>1, <1>7, Zenon DEF Elapse, ConsentExpires, SampleExpires
<1>8. CASE /\ Receive
           /\ ~CancelJobs /\ ~CancelEveryJob /\ ~RevokeDeliveries /\ ~RemoveDeliveries
  <2>1. UNCHANGED jobs
    BY <1>8, Zenon DEF Receive, PostConsent, WithdrawConsent, WritePart, Refuse, DeleteSample, RenamePart,
      CommitSample, DeleteEverything, WithdrawEveryConsent
  <2> QED
    BY <1>1, <2>1
<1> QED
  BY <1>1, <1>2, <1>3, <1>4, <1>5, <1>6, <1>7, <1>8 DEF StoreNext, DeleteSamples

\* Without an admission there is never more to train on.
LEMMA TrainableShrinks ==
  ASSUME StoreInv, StoreNext, \A s \in Sessions : rows[s] = 0 => rows'[s] = 0
  PROVE  Trainable' \subseteq Trainable
<1> USE DEF Trainable, Active, Held
<1>1. CASE UNCHANGED <<consents, rows, stale>>
  BY <1>1
<1>2. ASSUME NEW c \in Grants, PostConsent(c) PROVE Trainable' \subseteq Trainable
  BY <1>2 DEF PostConsent, StoreInv, StoreTypes, AcceptedInv
<1>3. ASSUME NEW c \in Grants, WithdrawConsent(c) \/ ConsentExpires(c) PROVE Trainable' \subseteq Trainable
  <2>1. UNCHANGED <<rows, stale>> /\ \A d \in Grants : consents'[d] = "active" => consents[d] = "active"
    BY <1>3 DEF WithdrawConsent, ConsentExpires, Withdrawn, StoreInv, StoreTypes
  <2> QED
    BY <2>1 DEF StoreInv, StoreTypes
<1>4. CASE WithdrawEveryConsent
  <2>1. UNCHANGED <<rows, stale>> /\ \A d \in Grants : consents'[d] = "active" => consents[d] = "active"
    BY <1>4 DEF WithdrawEveryConsent, Withdrawn, StoreInv, StoreTypes
  <2> QED
    BY <2>1 DEF StoreInv, StoreTypes
<1>5. CASE CommitSample
  <2>1. PICK s \in Sessions : /\ proc["http"].todo = {s} /\ proc["http"].consent \in Grants /\ s \notin Held
    BY <1>5 DEF CommitSample, Continue, StoreInv, AdmissionInv, Admitting
  <2> QED
    BY <1>5, <2>1 DEF CommitSample, Grants
<1>6. ASSUME NEW p \in Procs, DeleteRows(p) PROVE Trainable' \subseteq Trainable
  BY <1>6 DEF DeleteRows
<1>7. ASSUME NEW s \in Sessions, SampleExpires(s) PROVE Trainable' \subseteq Trainable
  BY <1>7 DEF SampleExpires, samples
<1>8. ASSUME NEW s \in Sessions, Refuse(s) \/ DeleteSample(s) \/ \E c \in Grants : WritePart(s, c)
      PROVE  UNCHANGED <<consents, rows, stale>>
  BY <1>8, Zenon DEF Refuse, DeleteSample, WritePart, samples
<1>9. CASE \/ RenamePart \/ CancelJobs \/ DeleteEverything \/ RemoveDeliveries \/ RevokeDeliveries
           \/ CancelEveryJob
  BY <1>1, <1>9, Zenon DEF RenamePart, CancelJobs, DeleteEverything, RemoveDeliveries, RevokeDeliveries,
    CancelEveryJob, samples
<1>10. ASSUME NEW p \in Procs, Derive(p) \/ RemoveObjects(p) \/ Sweep(p) \/ EndProcess(p)
       PROVE  UNCHANGED <<consents, rows, stale>>
  BY <1>10, Zenon DEF Derive, RemoveObjects, Sweep, BeginSweep, SweepExpired, SweepFile, SweepOrphan,
    EndSweep, EndProcess, samples
<1> QED
  BY <1>1, <1>2, <1>3, <1>4, <1>5, <1>6, <1>7, <1>8, <1>9, <1>10
  DEF StoreNext, Receive, Elapse, DeleteSamples

LEMMA StoreKeepsLook ==
  ASSUME StoreInv, JobInv, LookInv, StoreNext, UNCHANGED trainerVars,
         overtaken' = overtaken \cup Overtaken
  PROVE  LookInv'
<1> SUFFICES ASSUME tr.pc \notin {"rest", "snapshot"}, tr.job \notin overtaken'
             PROVE  /\ Trainable' \subseteq tr.snapshot
                    /\ LastLookTaken => tr.snapshot \cap tombs' = {} /\ ~Deleting'
                    /\ TrAt("row") => jobs'[tr.job].file
  BY DEF LookInv, trainerVars, LastLookTaken, TrAt
<1>1. /\ \A s \in Sessions : rows[s] = 0 => rows'[s] = 0
      /\ LastLookTaken => ~\E p \in Procs : proc[p].pc = "derive" /\ proc'[p].pc = "rows"
      /\ tr.job \notin overtaken
  BY DEF Overtaken, TrAt
<1>2. /\ Trainable \subseteq tr.snapshot
      /\ LastLookTaken => tr.snapshot \cap tombs = {} /\ ~Deleting
      /\ TrAt("row") => jobs[tr.job].file
  BY <1>1 DEF LookInv
<1>3. Trainable' \subseteq Trainable
  BY <1>1, TrainableShrinks
<1>4. ASSUME LastLookTaken PROVE tr.snapshot \cap tombs' = {} /\ ~Deleting'
  <2>1. UNCHANGED tombs
    BY <1>2, <1>4, TombsGrow DEF DeleteRows, Continue, At, Deleting
  <2>2. ASSUME NEW p \in Procs, proc'[p].pc = "rows" PROVE FALSE
    <3>1. Derive(p)
      BY <1>2, <1>4, <2>2, RowsEntered DEF StoreInv, Deleting
    <3> QED
      BY <1>1, <1>4, <2>2, <3>1 DEF Derive, Continue, At
  <2> QED
    BY <1>2, <1>4, <2>1, <2>2 DEF Deleting
<1>5. ASSUME TrAt("row") PROVE jobs'[tr.job].file
  <2>1. tr.job \in Jobs /\ jobs[tr.job].row = "none" /\ jobs[tr.job].file /\ LastLookTaken
    BY <1>2, <1>5 DEF JobInv, TrAt, LastLookTaken
  <2>2. ASSUME NEW p \in Procs, Derive(p) PROVE FALSE
    <3>1. proc'[p].pc = "rows" /\ proc[p].pc = "derive"
      BY <2>2 DEF Derive, Continue, At, StoreInv, StoreTypes, Progress
    <3> QED
      BY <1>1, <2>1, <3>1
  <2> QED
    BY <2>1, <2>2, FileGone DEF JobInv
<1> QED
  BY <1>2, <1>3, <1>4, <1>5

\* How the training process goes on.
LEMMA WorkStages ==
  ASSUME JobTypes, Work
  PROVE  \/ tr'.pc \in {"rest", "snapshot"}
         \/ tr'.pc = "dataset" /\ tr'.snapshot = Trainable
         \/ /\ tr'.job = tr.job /\ tr'.snapshot = tr.snapshot /\ tr.pc \notin {"rest", "snapshot"}
            /\ \/ tr'.pc \in {"dataset", "read", "train", "quantize", "evaluate", "recheck"}
               \/ Recheck /\ tr'.pc = "build"
               \/ WriteArtifact /\ tr'.pc = "row"
               \/ LastLookTaken /\ tr'.pc \in {"delivery", "artifact", "finish"}
<1> DEFINE Early == {"dataset", "read", "train", "quantize", "evaluate", "recheck"}
<1>1. ASSUME NEW pc, Proceed(pc) PROVE tr'.pc = pc /\ tr'.job = tr.job /\ tr'.snapshot = tr.snapshot
  BY <1>1 DEF Proceed, JobTypes
<1>2. CASE Leave \/ EndTrainer
  BY <1>2 DEF Leave, EndTrainer, Resting
<1>3. CASE StartJob
  <2>1. PICK j : tr' = [Resting EXCEPT !.pc = "snapshot", !.job = j]
    BY <1>3, Zenon DEF StartJob
  <2>2. tr'.pc = "snapshot"
    BY <2>1 DEF Resting
  <2> QED
    BY <2>2
<1>4. CASE TakeSnapshot /\ ~Leave
  <2>1. tr' = [tr EXCEPT !.pc = "dataset", !.snapshot = Trainable, !.todo = Trainable]
    BY <1>4 DEF TakeSnapshot
  <2>2. tr'.pc = "dataset" /\ tr'.snapshot = Trainable
    BY <2>1 DEF JobTypes
  <2> QED
    BY <2>2
<1>5. ASSUME tr.pc \in {"dataset", "read"}, \E s : tr' = [tr EXCEPT !.todo = @ \ {s}]
      PROVE  tr'.job = tr.job /\ tr'.snapshot = tr.snapshot /\ tr.pc \in Early /\ tr'.pc \in Early
  BY <1>5 DEF JobTypes
<1>6. CASE AddSampleEdge
  BY <1>5, <1>6 DEF AddSampleEdge, TrAt
<1>7. CASE AddJobNode
  <2>1. tr' = [tr EXCEPT !.pc = "read", !.todo = tr.snapshot] /\ tr.pc = "dataset"
    BY <1>7 DEF AddJobNode, TrAt
  <2>2. tr'.pc = "read" /\ tr'.job = tr.job /\ tr'.snapshot = tr.snapshot
    BY <2>1 DEF JobTypes
  <2> QED
    BY <2>1, <2>2
<1>8. CASE ReadSample /\ ~Leave
  <2>1. tr.pc = "read" /\ (Proceed("train") \/ \E s : tr' = [tr EXCEPT !.todo = @ \ {s}])
    BY <1>8, Zenon DEF ReadSample, TrAt
  <2> QED
    BY <1>1, <1>5, <2>1
<1>9. ASSUME NEW from \in {"train", "quantize"}, NEW to \in {"quantize", "evaluate"}, Wait(from, to), ~Leave
      PROVE  tr'.job = tr.job /\ tr'.snapshot = tr.snapshot /\ tr.pc \in Early /\ tr'.pc \in Early
  <2>1. tr.pc = from /\ Proceed(to)
    BY <1>9, Zenon DEF Wait, TrAt
  <2> QED
    BY <1>1, <2>1
<1>10. CASE Evaluate /\ ~Leave
  <2>1. tr.pc = "evaluate" /\ Proceed("recheck")
    BY <1>10, Zenon DEF Evaluate, TrAt
  <2> QED
    BY <1>1, <2>1
<1>11. CASE Recheck /\ ~Leave
  <2>1. tr.pc = "recheck" /\ Proceed("build")
    BY <1>11, Zenon DEF Recheck, TrAt
  <2> QED
    BY <1>1, <1>11, <2>1
<1>12. CASE AddBuildNode \/ AddDeliveryNode \/ InsertDelivery
  <2>1. LastLookTaken /\ \E pc \in {"delivery", "artifact", "finish"} : Proceed(pc)
    BY <1>12, Zenon DEF AddBuildNode, AddDeliveryNode, InsertDelivery, LastLookTaken, TrAt
  <2>2. tr.pc \notin {"rest", "snapshot"}
    BY <2>1 DEF LastLookTaken
  <2> QED
    BY <1>1, <2>1, <2>2
<1>13. CASE WriteArtifact
  <2>1. tr.pc = "artifact" /\ Proceed("row")
    BY <1>13 DEF WriteArtifact, TrAt
  <2> QED
    BY <1>1, <1>13, <2>1
<1>14. CASE FinishJob
  BY <1>2, <1>14 DEF FinishJob
<1> QED
  BY <1>2, <1>3, <1>4, <1>6, <1>7, <1>8, <1>9, <1>10, <1>11, <1>12, <1>13, <1>14 DEF Work

\* The last look compares numbers; that nothing was admitted meanwhile makes it one of sets.
LEMMA LastLookCounts ==
  ASSUME JobInv, Recheck, tr'.pc = "build", Trainable \subseteq tr.snapshot
  PROVE  tr.snapshot = Trainable
<1>1. IsFiniteSet(tr.snapshot)
  BY DEF JobInv, Recheck, TrAt
<1>2. ~(Cardinality(Trainable) < Cardinality(tr.snapshot))
  BY DEF Recheck, Leave, Resting
<1>3. Trainable # tr.snapshot => Cardinality(Trainable) < Cardinality(tr.snapshot)
  <2>1. /\ Trainable \in SUBSET tr.snapshot /\ IsFiniteSet(Trainable)
        /\ Cardinality(Trainable) <= Cardinality(tr.snapshot)
        /\ Cardinality(tr.snapshot) = Cardinality(Trainable) => tr.snapshot = Trainable
    BY <1>1, FS_Subset
  <2>2. Cardinality(Trainable) \in Nat /\ Cardinality(tr.snapshot) \in Nat
    BY <1>1, <2>1, FS_CardinalityType
  <2> QED
    BY <2>1, <2>2
<1> QED
  BY <1>2, <1>3

LEMMA WorkKeepsLook ==
  ASSUME StoreInv, JobInv, LookInv, Work, overtaken' = overtaken \cup Overtaken
  PROVE  LookInv'
<1> SUFFICES ASSUME tr'.pc \notin {"rest", "snapshot"}, tr'.job \notin overtaken'
             PROVE  /\ Trainable' \subseteq tr'.snapshot
                    /\ LastLookTaken' => tr'.snapshot \cap tombs' = {} /\ ~Deleting'
                    /\ TrAt("row")' => jobs'[tr'.job].file
  BY DEF LookInv
<1>1. UNCHANGED <<Trainable, Held, tombs, Deleting>>
  BY WorkLeavesSamples DEF notJobs, samples, Trainable, Held, Active, Deleting
<1>2. CASE tr'.pc = "dataset" /\ tr'.snapshot = Trainable
  BY <1>1, <1>2 DEF LastLookTaken, TrAt
<1>3. CASE tr'.job = tr.job /\ tr'.snapshot = tr.snapshot /\ tr.pc \notin {"rest", "snapshot"}
  <2>1. Trainable \subseteq tr.snapshot
    BY <1>3 DEF LookInv
  <2>2. CASE tr'.pc \in {"dataset", "read", "train", "quantize", "evaluate", "recheck"}
    BY <1>1, <1>3, <2>1, <2>2 DEF LastLookTaken, TrAt
  <2>3. CASE Recheck /\ tr'.pc = "build"
    <3>1. ~Deleting
      BY <1>3, <2>3 DEF Overtaken, Recheck
    <3>2. tr.snapshot \cap tombs = {}
      BY <2>1, <2>3, LastLookCounts DEF Trainable, StoreInv, AcceptedInv
    <3> QED
      BY <1>1, <1>3, <2>1, <2>3, <3>1, <3>2 DEF TrAt
  <2>4. CASE WriteArtifact /\ tr'.pc = "row"
    <3>1. jobs'[tr.job].file
      BY <1>3, <2>4 DEF WriteArtifact, JobInv, JobTypes, Job, TrAt
    <3>2. LastLookTaken
      BY <2>4 DEF WriteArtifact, LastLookTaken, TrAt
    <3> QED
      BY <1>1, <1>3, <2>1, <3>1, <3>2 DEF LookInv
  <2>5. CASE LastLookTaken /\ tr'.pc \in {"delivery", "artifact", "finish"}
    BY <1>1, <1>3, <2>1, <2>5 DEF LookInv, TrAt
  <2> QED
    BY <2>2, <2>3, <2>4, <2>5, <1>3, <1>1, WorkStages DEF JobInv, TrAt
<1> QED
  BY <1>2, <1>3, WorkStages DEF JobInv

\* A delivery outlives a step of the store only if that deleted none of its samples, and
\* its file only as long as it will be revoked.
LEMMA StoreKeepsModels ==
  ASSUME StoreInv, JobInv, ModelsInv, StoreNext, overtaken \subseteq overtaken' PROVE ModelsInv'
<1> SUFFICES ASSUME NEW j \in Jobs, j \notin overtaken', jobs'[j].row = "live"
             PROVE  /\ jobs'[j].dataset \cap tombs' = {}
                    /\ \A p \in Procs : At(p, "rows")' /\ jobs'[j].dataset \cap proc'[p].todo # {}
                                          => j \in proc'[p].found
                    /\ \/ jobs'[j].file
                       \/ killed' \cap Procs # {}
                       \/ At("http", "revokeAll")'
                       \/ \E p \in Procs : At(p, "rows")' /\ j \in proc'[p].found
  BY DEF ModelsInv
<1> USE DEF At
<1>1. Lessened(j)
  BY StoreLessens DEF JobInv
<1>2. /\ jobs[j].row = "live" /\ jobs'[j].dataset = jobs[j].dataset
      /\ jobs[j].dataset \cap tombs = {}
      /\ \A p \in Procs : proc[p].pc = "rows" /\ jobs[j].dataset \cap proc[p].todo # {}
                            => j \in proc[p].found
      /\ \/ jobs[j].file
         \/ killed \cap Procs # {}
         \/ proc["http"].pc = "revokeAll"
         \/ \E p \in Procs : proc[p].pc = "rows" /\ j \in proc[p].found
  BY <1>1 DEF ModelsInv, Lessened
<1>3. jobs[j].chain = 3
  BY <1>2 DEF JobInv
<1>4. ASSUME NEW p \in Procs, DeleteRows(p)
      PROVE  jobs[j].dataset \cap proc[p].todo = {} /\ j \notin proc[p].found
  <2>1. j \notin proc[p].found
    BY <1>4, RevokedJobs DEF DeleteRows, JobInv
  <2> QED
    BY <1>2, <1>4, <2>1 DEF DeleteRows, Continue
<1>5. ASSUME NEW p \in Procs, Derive(p)
      PROVE  /\ proc'[p].pc = "rows" /\ proc'[p].todo = proc[p].todo
             /\ proc'[p].found = Derived(proc[p].todo)
  BY <1>5 DEF Derive, StoreInv, StoreTypes, Progress
<1>6. jobs'[j].dataset \cap tombs' = {}
  BY <1>2, <1>4, TombsGrow DEF DeleteRows
<1>7. ASSUME NEW p \in Procs, proc'[p].pc = "rows", jobs'[j].dataset \cap proc'[p].todo # {}
      PROVE  j \in proc'[p].found
  <2>1. CASE proc'[p] = proc[p]
    BY <1>2, <1>7, <2>1
  <2>2. CASE Derive(p)
    BY <1>2, <1>3, <1>5, <1>7, <2>2 DEF Derived
  <2> QED
    BY <1>7, <2>1, <2>2, RowsEntered DEF StoreInv
<1>8. CASE jobs[j].file
  <2>1. CASE jobs'[j].file
    BY <2>1, <1>6, <1>7
  <2>2. ASSUME NEW p \in Procs, Derive(p), j \in Derived(proc[p].todo)
        PROVE  \E q \in Procs : proc'[q].pc = "rows" /\ j \in proc'[q].found
    BY <1>5, <2>2
  <2>3. CASE RemoveDeliveries
    <3>1. proc'["http"].pc = "revokeAll"
      BY <2>3 DEF RemoveDeliveries, Goto, StoreInv, StoreTypes, Procs, Progress
    <3> QED
      BY <3>1, <1>6, <1>7
  <2> QED
    BY <1>6, <1>7, <1>8, <2>1, <2>2, <2>3, FileGone DEF JobInv
<1>9. CASE killed \cap Procs # {}
  BY <1>6, <1>7, <1>9, StoreKillsMore
<1>10. CASE proc["http"].pc = "revokeAll"
  <2>1. CASE RevokeDeliveries
    BY <2>1, RevokedJobs DEF RevokeDeliveries, JobInv
  <2>2. CASE EndProcess("http")
    BY <1>6, <1>7, <2>2 DEF EndProcess, Procs
  <2> QED
    BY <1>6, <1>7, <1>10, <2>1, <2>2, RevokeAllLeft DEF StoreInv
<1>11. ASSUME NEW p \in Procs, proc[p].pc = "rows", j \in proc[p].found
       PROVE  killed' \cap Procs # {} \/ \E q \in Procs : proc'[q].pc = "rows" /\ j \in proc'[q].found
  <2>1. CASE EndProcess(p)
    BY <2>1 DEF EndProcess
  <2> QED
    BY <1>4, <1>11, <2>1, RowsLeft DEF StoreInv
<1> QED
  BY <1>2, <1>6, <1>7, <1>8, <1>9, <1>10, <1>11

\* A delivery is made of what the last look saw.
LEMMA WorkKeepsModels ==
  ASSUME StoreInv, JobInv, LookInv, ModelsInv, Work, overtaken \subseteq overtaken' PROVE ModelsInv'
<1> DEFINE k == tr.job
           Sound(j) == jobs[j].row = "live" =>
             /\ jobs[j].dataset \cap tombs = {}
             /\ \A p \in Procs : At(p, "rows") /\ jobs[j].dataset \cap proc[p].todo # {}
                                   => j \in proc[p].found
             /\ \/ jobs[j].file
                \/ killed \cap Procs # {}
                \/ At("http", "revokeAll")
                \/ \E p \in Procs : At(p, "rows") /\ j \in proc[p].found
<1>0. UNCHANGED <<tombs, proc>> /\ killed \subseteq killed'
  <2>1. UNCHANGED killed \/ EndTrainer
    BY Zenon DEF Work, StartJob, TakeSnapshot, AddSampleEdge, AddJobNode, ReadSample, Wait, Evaluate, Recheck,
      AddBuildNode, AddDeliveryNode, WriteArtifact, InsertDelivery, FinishJob, Writes, Reads
  <2> QED
    BY <2>1, WorkLeavesSamples DEF notJobs, samples, EndTrainer
<1>1. ASSUME NEW j \in Jobs \ overtaken', \/ jobs'[j].row # "live"
                                          \/ Alike(j) \/ jobs'[j] = jobs[j]
      PROVE  Sound(j)'
  BY <1>0, <1>1 DEF ModelsInv, Alike, At
<1>2. CASE \A j \in Jobs : jobs'[j].row # "live" \/ Alike(j) \/ jobs'[j] = jobs[j]
  BY <1>1, <1>2 DEF ModelsInv
<1>3. ASSUME NEW state \in {"kept", "cancelled", "delivered"}, jobs' = Finished(state), ~TrAt("rest") PROVE ModelsInv'
  BY <1>2, <1>3, FinishedJobs DEF JobInv
<1>4. CASE StartJob
  <2>1. PICK j \in Jobs : jobs[j] = NoJob /\ jobs' = [jobs EXCEPT ![j].state = "running"]
    BY <1>4, Zenon DEF StartJob
  <2>2. jobs'[j].row = "none" /\ \A i \in Jobs \ {j} : jobs'[i] = jobs[i]
    BY <2>1 DEF NoJob, JobInv, JobTypes
  <2> QED
    BY <1>2, <2>2
<1>5. CASE AddSampleEdge \/ AddJobNode \/ AddBuildNode \/ AddDeliveryNode \/ WriteArtifact
  <2>1. k \in Jobs /\ jobs[k] \in Job /\ jobs[k].row = "none" /\ jobs \in [Jobs -> Job]
    BY <1>5 DEF AddSampleEdge, AddJobNode, AddBuildNode, AddDeliveryNode, WriteArtifact, JobInv, JobTypes, TrAt
  <2>2. \/ \E s : jobs' = [jobs EXCEPT ![k].dataset = @ \cup {s}]
        \/ \E n : jobs' = [jobs EXCEPT ![k].chain = n]
        \/ jobs' = [jobs EXCEPT ![k].file = TRUE]
    BY <1>5, Zenon DEF AddSampleEdge, AddJobNode, AddBuildNode, AddDeliveryNode, WriteArtifact
  <2>3. jobs'[k].row = "none"
    <3>1. \/ \E s : jobs'[k] = [jobs[k] EXCEPT !.dataset = @ \cup {s}]
          \/ \E n : jobs'[k] = [jobs[k] EXCEPT !.chain = n]
          \/ jobs'[k] = [jobs[k] EXCEPT !.file = TRUE]
      BY <2>1, <2>2
    <3> QED
      BY <2>1, <3>1 DEF Job
  <2>4. \A i \in Jobs \ {k} : jobs'[i] = jobs[i]
    BY <2>1, <2>2
  <2> QED
    BY <1>2, <2>3, <2>4
<1>6. CASE InsertDelivery
  <2>1. k \in Jobs /\ jobs[k] \in Job /\ jobs \in [Jobs -> Job] /\ jobs[k].dataset \subseteq tr.snapshot
        /\ tr.pc = "row"
    BY <1>6 DEF InsertDelivery, JobInv, JobTypes, TrAt
  <2>2. jobs' = [jobs EXCEPT ![k].row = "live"]
    BY <1>6 DEF InsertDelivery
  <2>3. /\ jobs'[k].dataset = jobs[k].dataset /\ jobs'[k].file = jobs[k].file
        /\ \A i \in Jobs \ {k} : jobs'[i] = jobs[i]
    BY <2>1, <2>2 DEF Job
  <2>4. k \notin overtaken' => tr.snapshot \cap tombs = {} /\ ~Deleting /\ jobs[k].file
    BY <2>1 DEF LookInv, LastLookTaken, TrAt
  <2>5. ASSUME NEW j \in Jobs \ overtaken', j = k PROVE Sound(j)'
    <3>1. jobs'[j].dataset \cap tombs' = {} /\ jobs'[j].file
      BY <1>0, <2>1, <2>3, <2>4, <2>5
    <3>2. \A p \in Procs : ~At(p, "rows")'
      BY <1>0, <2>4, <2>5 DEF Deleting, At
    <3> QED
      BY <3>1, <3>2
  <2>6. ASSUME NEW j \in Jobs \ overtaken' PROVE Sound(j)'
    <3>1. CASE j = k
      BY <2>5, <3>1
    <3>2. CASE j # k
      BY <1>1, <2>3, <3>2
    <3> QED
      BY <3>1, <3>2
  <2> QED
    BY <2>6 DEF ModelsInv
<1>7. CASE TakeSnapshot \/ Evaluate \/ Recheck \/ FinishJob
  <2>1. ~TrAt("rest")
    BY <1>7 DEF TakeSnapshot, Evaluate, Recheck, FinishJob, TrAt
  <2>2. UNCHANGED jobs \/ \E state \in {"kept", "cancelled", "delivered"} : jobs' = Finished(state)
    BY <1>7, Zenon DEF TakeSnapshot, Evaluate, Recheck, FinishJob, Reads
  <2> QED
    BY <1>2, <1>3, <2>1, <2>2
<1>8. CASE ReadSample \/ Wait("train", "quantize") \/ Wait("quantize", "evaluate")
  <2>1. TrAt("read") \/ TrAt("train") \/ TrAt("quantize")
    BY <1>8, Zenon DEF ReadSample, Wait
  <2>2. UNCHANGED jobs \/ jobs' = Finished("kept")
    BY <1>8, Zenon DEF ReadSample, Wait, Reads
  <2> QED
    BY <1>2, <1>3, <2>1, <2>2 DEF TrAt
<1>9. CASE EndTrainer
  BY <1>2, <1>9 DEF EndTrainer
<1> QED
  BY <1>4, <1>5, <1>6, <1>7, <1>8, <1>9 DEF Work

LEMMA ModelsStart == Init => LookInv /\ ModelsInv
BY DEF Init, StoreInit, LookInv, ModelsInv, Resting, NoJob

LEMMA ModelsStep ==
  StoreInv /\ JobInv /\ LookInv /\ ModelsInv /\ [Next]_vars => LookInv' /\ ModelsInv'
<1> SUFFICES ASSUME StoreInv, JobInv, LookInv, ModelsInv, [Next]_vars PROVE LookInv' /\ ModelsInv'
  OBVIOUS
<1>1. CASE StoreNext /\ UNCHANGED trainerVars /\ overtaken' = overtaken \cup Overtaken
  BY <1>1, StoreKeepsLook, StoreKeepsModels
<1>2. CASE Work /\ overtaken' = overtaken \cup Overtaken
  BY <1>2, WorkKeepsLook, WorkKeepsModels
<1>3. CASE UNCHANGED vars
  BY <1>3 DEF vars, storeVars, samples, trainerVars, LookInv, ModelsInv, Trainable, Held, Active, LastLookTaken,
              Deleting, TrAt, At
<1> QED
  BY <1>1, <1>2, <1>3 DEF Next

\* No model that is offered was trained on a sample that has been deleted, however the
\* deletion met the job, except for the two ways the code leaves open; and what is
\* offered is there to be fetched, unless a deletion was cut short.
THEOREM DeletionsReachModels == Spec => []ModelsFollowDeletions
<1>1. Init => StoreInv /\ JobInv /\ LookInv /\ ModelsInv
  BY StoreStarts, JobsStart, ModelsStart DEF Init
<1>2. StoreInv /\ JobInv /\ LookInv /\ ModelsInv /\ [Next]_vars
        => StoreInv' /\ JobInv' /\ LookInv' /\ ModelsInv'
  BY StoreInvStep, JobStep, ModelsStep
<1>3. ModelsInv => ModelsFollowDeletions
  BY DEF ModelsInv, ModelsFollowDeletions, Quiet, At, Procs
<1> QED
  BY <1>1, <1>2, <1>3, PTL DEF Spec
=============================================================================
