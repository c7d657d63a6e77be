---------------------------- MODULE SampleStore -----------------------------
(***************************************************************************)
(* The training service's own state, for one tenant: the database and the  *)
(* files beside it, the request handlers, which hold the store's mutex one *)
(* at a time ("http"), and the retention sweep, which runs under the same  *)
(* mutex or, as `dictation-server sweep', in a process of its own ("cli"). *)
(*                                                                         *)
(* A commit, or the removal of the files one loop goes through, is a step: *)
(* the other process acts, and either of them may end, between any two.    *)
(* A file is written and renamed in two steps.  Samples are named by their *)
(* session, as in SampleService; a retry that finds its receipt changes    *)
(* nothing and is left out.  Training adds the training process.           *)
(***************************************************************************)
EXTENDS Naturals, FiniteSets

CONSTANTS Sessions,
          MaxGrants,   \* bound: consents
          MaxJobs,     \* bound: training jobs
          MaxSamples,  \* tenants.max_samples
          MaxEvents    \* bound: requests, sweeps, expiries and crashes, together

ASSUME StoreAssumption == {MaxGrants, MaxJobs, MaxSamples, MaxEvents} \subseteq Nat

VARIABLES
  consents,  \* consents: unknown, active, expired or withdrawn
  rows,      \* samples: the consent a sample was received under, 0 for no row
  receipts,  \* receipts: none, accepted or refused
  tombs,     \* tombstones
  jobs,      \* training_jobs, edges and deliveries: a record for each job
  bins,      \* object files <sample>.bin
  parts,     \* and their <sample>.part
  stale,     \* samples past their retention
  proc,      \* the two processes
  killed,    \* processes that ended in the middle of their work
  events     \* how much of MaxEvents is used up

samples  == <<consents, rows, receipts, tombs>>
objects  == <<bins, parts>>
storeVars == <<samples, objects, jobs, stale, proc, killed, events>>

Grants == 1..MaxGrants
Jobs   == 1..MaxJobs
Procs  == {"http", "cli"}

\* dataset: the samples with an edge to the job's dataset node.  chain: how many
\* of the edges dataset -> job -> build -> delivery there are.  file and row: the
\* delivery's artifact and its row.
Job == [state : {"none", "running", "kept", "cancelled", "delivered"},
        dataset : SUBSET Sessions, chain : 0..3,
        file : BOOLEAN, row : {"none", "live", "revoked"}]
NoJob == [state |-> "none", dataset |-> {}, chain |-> 0, file |-> FALSE, row |-> "none"]

Idle == [pc |-> "idle", consent |-> 0, todo |-> {}, found |-> {}, queue |-> {},
         then |-> "idle"]

Held == {s \in Sessions : rows[s] # 0}

\* consent_active, and trainable_samples.
Active(c) == consents[c] = "active"
Trainable == {s \in Held \ stale : Active(rows[s])}

StoreInit ==
  /\ consents = [c \in Grants |-> "unknown"]
  /\ rows = [s \in Sessions |-> 0] /\ receipts = [s \in Sessions |-> "none"]
  /\ tombs = {} /\ bins = {} /\ parts = {} /\ stale = {}
  /\ jobs = [j \in Jobs |-> NoJob]
  /\ proc = [p \in Procs |-> Idle] /\ killed = {} /\ events = 0

-----------------------------------------------------------------------------
At(p, pc) == proc[p].pc = pc
Goto(p, pc) == proc' = [proc EXCEPT ![p].pc = pc]

\* The database's write lock, which admit_sample holds from its first insertion on.
MayWrite(p) == p = "http" \/ ~At("http", "commit")

Event == events < MaxEvents /\ events' = events + 1
Begin(p) == At(p, "idle") /\ Event /\ UNCHANGED killed
Continue(p, pc) == At(p, pc) /\ UNCHANGED <<killed, events>>

\* post_consent: record_consent changes nothing on conflict.
PostConsent(c) ==
  /\ Begin("http")
  /\ consents' = [consents EXCEPT ![c] = IF @ = "unknown" THEN "active" ELSE @]
  /\ UNCHANGED <<rows, receipts, tombs, jobs, objects, stale, proc>>

-----------------------------------------------------------------------------
(* admit and admit_sample                                                   *)

\* Whatever is wrong with a package is a refusal, recorded like a receipt.
Refuse(s) ==
  /\ Begin("http") /\ receipts[s] = "none"
  /\ receipts' = [receipts EXCEPT ![s] = "refused"]
  /\ UNCHANGED <<consents, rows, tombs, jobs, objects, stale, proc>>

Admissible_Mut(s, c) == /\ receipts[s] = "none" /\ Active(c)
                        /\ s \notin Held
                        /\ Cardinality(Held) < MaxSamples
Admissible(s, c) == /\ receipts[s] = "none" /\ Active(c)
                    /\ s \notin tombs /\ s \notin Held
                    /\ Cardinality(Held) < MaxSamples

WritePart(s, c) ==
  /\ Begin("http") /\ Admissible(s, c)
  /\ parts' = parts \cup {s}
  /\ proc' = [proc EXCEPT !["http"] = [Idle EXCEPT !.pc = "rename", !.consent = c,
                                                   !.todo = {s}]]
  /\ UNCHANGED <<samples, jobs, bins, stale>>

RenamePart_Mut ==
  /\ Continue("http", "rename")
  /\ parts' = parts \ proc["http"].todo
  /\ Goto("http", "commit")
  /\ UNCHANGED <<samples, jobs, bins, stale>>
RenamePart ==
  /\ Continue("http", "rename")
  /\ parts' = parts \ proc["http"].todo
  /\ bins' = bins \cup proc["http"].todo
  /\ Goto("http", "commit")
  /\ UNCHANGED <<samples, jobs, stale>>

CommitSample ==
  /\ Continue("http", "commit")
  /\ LET new == proc["http"].todo
     IN  /\ rows' = [s \in Sessions |-> IF s \in new THEN proc["http"].consent ELSE rows[s]]
         /\ receipts' = [s \in Sessions |-> IF s \in new THEN "accepted" ELSE receipts[s]]
  /\ proc' = [proc EXCEPT !["http"] = Idle]
  /\ UNCHANGED <<consents, tombs, jobs, objects, stale>>

-----------------------------------------------------------------------------
(* delete_samples, from wherever it is called: the lookup of what derives   *)
(* from the samples and the removal of those deliveries' files, the         *)
(* transaction, the removal of the samples' files.                          *)

\* descendants: the deliveries all of whose edges are there.
Derived(from) == {j \in Jobs : jobs[j].chain = 3 /\ jobs[j].dataset \cap from # {}}

Delete(p, from, then) ==
  [proc EXCEPT ![p].pc = IF from = {} THEN then ELSE "derive",
               ![p].todo = from, ![p].then = then]

WithoutFiles(of) == [j \in Jobs |-> IF j \in of THEN [jobs[j] EXCEPT !.file = FALSE] ELSE jobs[j]]
Revoked(of) == [j \in Jobs |-> IF j \in of /\ jobs[j].row = "live"
                               THEN [jobs[j] EXCEPT !.row = "revoked"] ELSE jobs[j]]

Derive(p) ==
  /\ Continue(p, "derive")
  /\ jobs' = WithoutFiles(Derived(proc[p].todo))
  /\ proc' = [proc EXCEPT ![p].pc = "rows", ![p].found = Derived(proc[p].todo)]
  /\ UNCHANGED <<samples, objects, stale>>

DeleteRows_Mut(p) ==
  /\ Continue(p, "rows") /\ MayWrite(p)
  /\ rows' = [s \in Sessions |-> IF s \in proc[p].todo THEN 0 ELSE rows[s]]
  /\ tombs' = tombs \cup proc[p].todo
  /\ Goto(p, "objects")
  /\ UNCHANGED <<consents, receipts, jobs, objects, stale>>
DeleteRows(p) ==
  /\ Continue(p, "rows") /\ MayWrite(p)
  /\ rows' = [s \in Sessions |-> IF s \in proc[p].todo THEN 0 ELSE rows[s]]
  /\ tombs' = tombs \cup proc[p].todo
  /\ jobs' = Revoked(proc[p].found)
  /\ Goto(p, "objects")
  /\ UNCHANGED <<consents, receipts, objects, stale>>

RemoveObjects(p) ==
  /\ Continue(p, "objects")
  /\ bins' = bins \ proc[p].todo
  /\ proc' = [proc EXCEPT ![p] = [Idle EXCEPT !.pc = proc[p].then, !.queue = proc[p].queue]]
  /\ UNCHANGED <<samples, jobs, parts, stale>>

-----------------------------------------------------------------------------
(* withdraw_consent and post_deletion                                       *)

Cancelled == [j \in Jobs |-> IF jobs[j].state = "running"
                             THEN [jobs[j] EXCEPT !.state = "cancelled"] ELSE jobs[j]]
Withdrawn(c) == IF consents[c] = "unknown" THEN "unknown" ELSE "withdrawn"

WithdrawConsent(c) ==
  /\ Begin("http")
  /\ consents' = [consents EXCEPT ![c] = Withdrawn(c)]
  /\ proc' = [proc EXCEPT !["http"] = [Idle EXCEPT !.pc = "cancel", !.consent = c]]
  /\ UNCHANGED <<rows, receipts, tombs, jobs, objects, stale>>

CancelJobs ==
  /\ Continue("http", "cancel")
  /\ jobs' = Cancelled
  /\ proc' = Delete("http", {s \in Sessions : rows[s] = proc["http"].consent}, "idle")
  /\ UNCHANGED <<samples, objects, stale>>

\* DeletionScope::Sample, and Receipt, which names a sample that was accepted.
DeleteSample(s) ==
  /\ Begin("http")
  /\ proc' = Delete("http", {s}, "idle")
  /\ UNCHANGED <<samples, jobs, objects, stale>>

\* delete_everything: the samples, the files of every delivery, their rows, the
\* running jobs, the consents.
DeleteEverything ==
  /\ Begin("http")
  /\ proc' = Delete("http", Held, "deliveries")
  /\ UNCHANGED <<samples, jobs, objects, stale>>

RemoveDeliveries ==
  /\ Continue("http", "deliveries")
  /\ jobs' = WithoutFiles({j \in Jobs : jobs[j].row # "none"})
  /\ Goto("http", "revokeAll")
  /\ UNCHANGED <<samples, objects, stale>>

RevokeDeliveries ==
  /\ Continue("http", "revokeAll")
  /\ jobs' = Revoked(Jobs)
  /\ Goto("http", "cancelAll")
  /\ UNCHANGED <<samples, objects, stale>>

CancelEveryJob ==
  /\ Continue("http", "cancelAll")
  /\ jobs' = Cancelled
  /\ Goto("http", "withdrawAll")
  /\ UNCHANGED <<samples, objects, stale>>

WithdrawEveryConsent ==
  /\ Continue("http", "withdrawAll")
  /\ consents' = [c \in Grants |-> Withdrawn(c)]
  /\ proc' = [proc EXCEPT !["http"] = Idle]
  /\ UNCHANGED <<rows, receipts, tombs, jobs, objects, stale>>

-----------------------------------------------------------------------------
(* sweep                                                                    *)

BeginSweep(p) ==
  /\ Begin(p)
  /\ proc' = [proc EXCEPT ![p].pc = "expired", ![p].queue = Held \cap stale]
  /\ UNCHANGED <<samples, jobs, objects, stale>>

\* Expired samples are deleted one by one; then the object files are listed.
SweepExpired(p) ==
  /\ Continue(p, "expired")
  /\ \/ \E s \in proc[p].queue :
          proc' = [Delete(p, {s}, "expired") EXCEPT ![p].queue = @ \ {s}]
     \/ /\ proc[p].queue = {}
        /\ proc' = [proc EXCEPT ![p].pc = "scan", ![p].queue = bins]
  /\ UNCHANGED <<samples, jobs, objects, stale>>

\* An object file whose sample has no row is to be removed.
SweepFile(p) ==
  /\ Continue(p, "scan")
  /\ \E s \in proc[p].queue :
       proc' = [proc EXCEPT ![p].queue = @ \ {s}, ![p].todo = {s},
                            ![p].pc = IF s \notin Held THEN "orphan" ELSE "scan"]
  /\ UNCHANGED <<samples, jobs, objects, stale>>

\* A file that is gone by now ends the sweep with an error.
SweepOrphan(p) ==
  /\ Continue(p, "orphan")
  /\ bins' = bins \ proc[p].todo
  /\ IF proc[p].todo \subseteq bins THEN Goto(p, "scan") ELSE proc' = [proc EXCEPT ![p] = Idle]
  /\ UNCHANGED <<samples, jobs, parts, stale>>

EndSweep(p) ==
  /\ Continue(p, "scan") /\ proc[p].queue = {}
  /\ proc' = [proc EXCEPT ![p] = Idle]
  /\ UNCHANGED <<samples, jobs, objects, stale>>

-----------------------------------------------------------------------------
(* Time and failure *)

ConsentExpires(c) ==
  /\ Event /\ Active(c) /\ UNCHANGED killed
  /\ consents' = [consents EXCEPT ![c] = "expired"]
  /\ UNCHANGED <<rows, receipts, tombs, jobs, objects, stale, proc>>

SampleExpires(s) ==
  /\ Event /\ s \in Held \ stale /\ UNCHANGED killed
  /\ stale' = stale \cup {s}
  /\ UNCHANGED <<samples, jobs, objects, proc>>

\* A process ends; what it had not committed is rolled back.
EndProcess(p) ==
  /\ Event /\ ~At(p, "idle")
  /\ killed' = killed \cup {p}
  /\ proc' = [proc EXCEPT ![p] = Idle]
  /\ UNCHANGED <<samples, jobs, objects, stale>>

-----------------------------------------------------------------------------
Receive == \/ \E c \in Grants : PostConsent(c) \/ WithdrawConsent(c)
           \/ \E s \in Sessions, c \in Grants : WritePart(s, c)
           \/ \E s \in Sessions : Refuse(s) \/ DeleteSample(s)
           \/ RenamePart \/ CommitSample \/ CancelJobs \/ DeleteEverything
           \/ RemoveDeliveries \/ RevokeDeliveries \/ CancelEveryJob \/ WithdrawEveryConsent

DeleteSamples(p) == Derive(p) \/ DeleteRows(p) \/ RemoveObjects(p)

Sweep(p) == \/ BeginSweep(p) \/ SweepExpired(p) \/ SweepFile(p) \/ SweepOrphan(p) \/ EndSweep(p)

Elapse == \/ \E c \in Grants : ConsentExpires(c)
          \/ \E s \in Sessions : SampleExpires(s)

StoreNext == Receive \/ Elapse \/ \E p \in Procs : DeleteSamples(p) \/ Sweep(p) \/ EndProcess(p)
=============================================================================
