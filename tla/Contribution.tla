---------------------------- MODULE Contribution ----------------------------
(***************************************************************************)
(* Contribution of dictation sessions for training: consent, the encrypted *)
(* session and queue stores, the background thread that filters sessions   *)
(* into packages and transfers them, the user's commands, and the training *)
(* service behind a network that loses requests and responses.             *)
(*                                                                         *)
(*   ctl   the controller thread: a session is dictated, delivered, and    *)
(*         enqueued (controller.rs, training_copy.rs, enqueue_session)     *)
(*   bg    the background thread: cleanup, process_next_job, transfer      *)
(*         (background.rs; training.rs and upload.rs of dictation-engine)  *)
(*   ui    the main thread, one command at a time (commands.rs)            *)
(*                                                                         *)
(* A statement that commits to a store is a step, as the process may end   *)
(* between any two; a scope and its payload count as one, since a scope    *)
(* without payload is never loaded, and so does what do_not_contribute     *)
(* does under one lock.                                                    *)
(*                                                                         *)
(* On the desktop (Exclusive) each store sits behind a mutex: the          *)
(* background thread holds both over a whole job, and that of the queue    *)
(* over its network calls.  dictation-engine itself is written against a   *)
(* queue that others change at any time, and promises that withdrawal wins *)
(* then too (upload.rs, its tests): that is ~Exclusive.                    *)
(*                                                                         *)
(* A session, its job, its package and its sample share one name.  Uploads *)
(* are configured and their target is open.  As in Recording, a name that  *)
(* ends in _Mut is a mutated form of the next definition.                  *)
(***************************************************************************)
EXTENDS JobTable, FiniteSets, SampleService

CONSTANTS Nobody,       \* no session
          MaxGrants,    \* bound: consents the user grants
          MaxAttempts,  \* RetrySettings.max_attempts
          DailyCap,     \* VolumeCaps.max_packages_per_day
          Exclusive,    \* the stores are behind the desktop's mutexes
          MaxCrashes,   \* bound: times the process ends
          MaxEvents     \* bound: commands, crashes and passages of time, together

ASSUME ContributionAssumption ==
  /\ Nobody \notin Sessions
  /\ {MaxGrants, MaxAttempts, DailyCap, MaxCrashes, MaxEvents} \subseteq Nat
  /\ Exclusive \in BOOLEAN

VARIABLES
  consents,   \* queue store: ConsentStatus of each grant
  jobs,       \* queue store: the job of each session
  raw,        \* sessions store: sessions with a raw-session scope
  package,    \* queue store: jobs with a package scope
  receipts,   \* queue store: what was recorded of the server's receipt
  deletions,  \* queue store: deletion requests the server has not confirmed
  volume,     \* queue store: packages counted for today
  lock,       \* the thread holding the queue store's mutex
  bg, ui, ctl,\* the three threads
  optedOut,   \* Shared.opted_out_sessions (memory only)
  server,     \* the training service
  age,        \* how long ago a session started
  began,      \* the number of grants made when it started
  acked,      \* how many jobs were acknowledged today
  crashes,
  events      \* how much of MaxEvents is used up

persisted == <<consents, jobs, raw, package, receipts, deletions, volume>>
world     == <<server, age, began, acked, crashes, events>>
vars      == <<persisted, lock, bg, ui, ctl, optedOut, world>>

-----------------------------------------------------------------------------
NotBegun == MaxGrants + 1
Everything == "everything"

Job == [state : JobState \cup {"none"}, consent : 0..MaxGrants,
        attempts : 0..MaxAttempts, deferred : BOOLEAN]
NoJob == [state |-> "none", consent |-> 0, attempts |-> 0, deferred |-> FALSE]

Processing == {"claim", "analyze", "analyzed", "build", "built", "package", "promote",
               "dropRaw", "reject", "rejectRaw", "rejectPackage"}

In(states) == {s \in Sessions : jobs[s].state \in states}

\* transition_job is a guarded update: it fails on a job in any other state.
May(s, target) == jobs[s].state \in JobState /\ target \in Successors(jobs[s].state)
Moved(s, target) == [jobs EXCEPT ![s].state = target]

QueueFree == lock = "free"
SessionsFree == Exclusive => ctl.pc \notin {"locked", "insert"} /\ bg.pc \notin Processing
Hold(thread) == lock' = IF Exclusive THEN thread ELSE "free"
Unlock == lock' = "free"

\* The preemption flag: set by StartCapture, cleared when the session's
\* resources are released, which is after its training copy was enqueued.
Preempted == ctl.pc # "idle"

RestingBg  == [pc |-> "rest", job |-> Nobody, answer |-> "none", todo |-> {}, some |-> FALSE]
RestingUi  == [pc |-> "idle", consent |-> 0, jobs |-> {}]
RestingCtl == [pc |-> "idle", session |-> Nobody, optedOut |-> FALSE]

Init ==
  /\ consents = << >> /\ jobs = [s \in Sessions |-> NoJob]
  /\ raw = {} /\ package = {} /\ receipts = [s \in Sessions |-> "none"]
  /\ deletions = {} /\ volume = 0 /\ lock = "free"
  /\ bg = RestingBg /\ ui = RestingUi /\ ctl = RestingCtl /\ optedOut = {}
  /\ server = NoService(MaxGrants)
  /\ age = [s \in Sessions |-> "fresh"] /\ began = [s \in Sessions |-> NotBegun]
  /\ acked = 0 /\ crashes = 0 /\ events = 0

-----------------------------------------------------------------------------
(* The controller thread *)

StartDictation(s) ==
  /\ ctl.pc = "idle" /\ began[s] = NotBegun
  /\ began' = [began EXCEPT ![s] = Len(consents)]
  /\ ctl' = [ctl EXCEPT !.pc = "dictating", !.session = s]
  /\ UNCHANGED <<persisted, lock, bg, ui, optedOut, server, age, acked, crashes, events>>

\* The session ends with text, which the result panel may show from now on, or
\* with nothing to contribute.
EndDictation ==
  /\ ctl.pc = "dictating"
  /\ ctl' \in {RestingCtl, [ctl EXCEPT !.pc = "delivered"]}
  /\ UNCHANGED <<persisted, lock, bg, ui, optedOut, world>>

\* maybe_enqueue reads the opted-out list before it waits for the stores.
ReadOptOut ==
  /\ ctl.pc = "delivered"
  /\ ctl' = [ctl EXCEPT !.pc = "enqueue", !.optedOut = ctl.session \in optedOut]
  /\ UNCHANGED <<persisted, lock, bg, ui, optedOut, world>>

\* Both stores are locked, one after the other.
LockSessions ==
  /\ ctl.pc = "enqueue" /\ SessionsFree
  /\ ctl' = [ctl EXCEPT !.pc = "locked"]
  /\ UNCHANGED <<persisted, lock, bg, ui, optedOut, world>>

\* enqueue_session: the raw copy first, then the job.
StoreSession ==
  /\ ctl.pc = "locked" /\ QueueFree
  /\ IF ConsentFor(consents, began[ctl.session], ctl.optedOut) = 0
     THEN ctl' = RestingCtl /\ UNCHANGED <<raw, lock>>
     ELSE /\ raw' = raw \cup {ctl.session}
          /\ ctl' = [ctl EXCEPT !.pc = "insert"]
          /\ Hold("controller")
  /\ UNCHANGED <<consents, jobs, package, receipts, deletions, volume, bg, ui, optedOut, world>>

InsertJob ==
  /\ ctl.pc = "insert"
  /\ jobs' = [jobs EXCEPT ![ctl.session] =
                [NoJob EXCEPT !.state = "LocalPending", !.consent = Len(consents)]]
  /\ ctl' = RestingCtl /\ Unlock
  /\ UNCHANGED <<consents, raw, package, receipts, deletions, volume, bg, ui, optedOut, world>>

-----------------------------------------------------------------------------
(* The background thread: run and cleanup.                                  *)

At(pc) == bg.pc = pc
Goto(pc) == bg' = [bg EXCEPT !.pc = pc]
notBg == <<ui, ctl, optedOut, world>>

Wake ==
  /\ At("rest") /\ SessionsFree
  /\ raw' = {s \in raw : age[s] = "fresh"}
  /\ Goto("cleanScopes")
  /\ UNCHANGED <<consents, jobs, package, receipts, deletions, volume, lock, notBg>>

CleanScopes ==
  /\ At("cleanScopes") /\ QueueFree
  /\ package' = {s \in package : age[s] # "week"}
  /\ Goto("expire")
  /\ UNCHANGED <<consents, jobs, raw, receipts, deletions, volume, lock, notBg>>

ExpireJobs ==
  /\ At("expire") /\ QueueFree
  /\ jobs' = [s \in Sessions |->
                IF age[s] # "fresh" /\ jobs[s].state \in Cancellable
                THEN [jobs[s] EXCEPT !.state = "Deleted"] ELSE jobs[s]]
  /\ Goto(IF Preempted THEN "rest" ELSE "process")
  /\ UNCHANGED <<consents, raw, package, receipts, deletions, volume, lock, notBg>>

-----------------------------------------------------------------------------
(* process_jobs and process_next_job                                        *)

\* Nothing is pending, dictation has started, or the privacy worker is missing.
StopProcessing ==
  /\ At("process")
  /\ Goto("transfer")
  /\ UNCHANGED <<persisted, lock, notBg>>

PickJob ==
  /\ At("process") /\ SessionsFree /\ QueueFree /\ ~Preempted
  /\ \E s \in In({"LocalPending"}) :
       bg' = [bg EXCEPT !.job = s, !.answer = "none",
                        !.pc = IF Permits(consents, jobs[s].consent) THEN "claim" ELSE "reject"]
  /\ Hold("background")
  /\ UNCHANGED <<persisted, notBg>>

\* A step that moves the job on, or leaves process_next_job with the conflict.
Advance(target, pc) ==
  \/ /\ May(bg.job, target)
     /\ jobs' = Moved(bg.job, target)
     /\ Goto(pc)
     /\ IF pc = "process" THEN Unlock ELSE UNCHANGED lock
  \/ /\ ~May(bg.job, target)
     /\ Goto("process") /\ Unlock
     /\ UNCHANGED jobs

notJobs == <<consents, raw, package, receipts, deletions, volume, notBg>>

ClaimJob == /\ At("claim")
            /\ Advance("Analyzing", IF bg.job \in raw THEN "analyze" ELSE "reject")
            /\ UNCHANGED notJobs

\* The classifier answers, or gives up because dictation has started.
Classify(from, to) ==
  /\ At(from)
  /\ \E answer \in {"clean", "sensitive", "preempted"} :
       /\ answer = "preempted" => Preempted
       /\ bg' = [bg EXCEPT !.pc = to, !.answer = IF @ \in {"none", "clean"} THEN answer ELSE @]
  /\ UNCHANGED <<persisted, lock, notBg>>

Analyze == Classify("analyze", "analyzed")

AfterAnalysis_Mut == /\ At("analyzed")
                     /\ IF Preempted THEN Goto("process") /\ Unlock /\ UNCHANGED jobs
                                     ELSE Advance("Building", "build")
                     /\ UNCHANGED notJobs
AfterAnalysis == /\ At("analyzed")
                 /\ IF Preempted THEN Advance("LocalPending", "process")
                                 ELSE Advance("Building", "build")
                 /\ UNCHANGED notJobs

\* build_dataset, with its second look at the retained text.
Build == Classify("build", "built")

AfterBuild ==
  /\ At("built")
  /\ IF Preempted THEN Advance("LocalPending", "process")
     ELSE /\ Goto(IF bg.answer = "clean" /\ Permits(consents, jobs[bg.job].consent)
                  THEN "package" ELSE "reject")
          /\ UNCHANGED <<jobs, lock>>
  /\ UNCHANGED notJobs

WritePackage ==
  /\ At("package")
  /\ package' = package \cup {bg.job}
  /\ Goto("promote")
  /\ UNCHANGED <<consents, jobs, raw, receipts, deletions, volume, lock, notBg>>

\* "Withdrawal won the race: leave nothing upload-ready behind."
Promote_Mut ==
  /\ At("promote")
  /\ jobs' = IF May(bg.job, "Eligible") THEN Moved(bg.job, "Eligible") ELSE jobs
  /\ Goto("dropRaw")
  /\ UNCHANGED <<lock, notJobs>>
Promote ==
  /\ At("promote")
  /\ IF May(bg.job, "Eligible")
     THEN /\ jobs' = Moved(bg.job, "Eligible")
          /\ Goto("dropRaw")
          /\ UNCHANGED package
     ELSE /\ package' = package \ {bg.job}
          /\ Goto("dropRaw")
          /\ UNCHANGED jobs
  /\ UNCHANGED <<consents, raw, receipts, deletions, volume, lock, notBg>>

DropRaw ==
  /\ At("dropRaw")
  /\ raw' = raw \ {bg.job}
  /\ Goto("process") /\ Unlock
  /\ UNCHANGED <<consents, jobs, package, receipts, deletions, volume, notBg>>

\* reject: the verdict, then the raw copy, then the package.
Reject ==
  /\ At("reject")
  /\ jobs' = IF May(bg.job, "Rejected") THEN Moved(bg.job, "Rejected") ELSE jobs
  /\ Goto("rejectRaw")
  /\ UNCHANGED <<lock, notJobs>>

RejectRaw ==
  /\ At("rejectRaw")
  /\ raw' = raw \ {bg.job}
  /\ Goto("rejectPackage")
  /\ UNCHANGED <<consents, jobs, package, receipts, deletions, volume, lock, notBg>>

RejectPackage ==
  /\ At("rejectPackage")
  /\ package' = package \ {bg.job}
  /\ Goto("process") /\ Unlock
  /\ UNCHANGED <<consents, jobs, raw, receipts, deletions, volume, notBg>>

-----------------------------------------------------------------------------
(* transfer, upload_ready and upload_job                                    *)

\* The current consent is registered anew in every cycle, if the request gets
\* through.  A job that was put off is ready again at some later time.
BeginTransfer ==
  /\ At("transfer") /\ QueueFree
  /\ Hold("background")
  /\ \/ UNCHANGED server
     \/ Current(consents) > 0 /\ server' = Register(server, Current(consents))
  /\ \E ready \in SUBSET In({"Eligible"}) :
       /\ \A s \in In({"Eligible"}) : ~jobs[s].deferred => s \in ready
       /\ bg' = [bg EXCEPT !.pc = "upload", !.todo = ready, !.some = ready # {}]
  /\ UNCHANGED <<persisted, ui, ctl, optedOut, age, began, acked, crashes, events>>

\* The checks before the transfer of the next job.
NextUpload ==
  /\ At("upload")
  /\ \E s \in bg.todo :
       LET next(pc) == bg' = [bg EXCEPT !.todo = @ \ {s}, !.job = s, !.pc = pc]
       IN  CASE ~Permits(consents, jobs[s].consent) ->
                  next("cancel") /\ UNCHANGED jobs
             [] Permits(consents, jobs[s].consent) /\ volume >= DailyCap ->
                  IF jobs[s].state = "Eligible"
                  THEN next("upload") /\ jobs' = [jobs EXCEPT ![s].deferred = TRUE]
                  ELSE next("relock") /\ UNCHANGED jobs
             [] OTHER ->
                  next(IF s \in package THEN "send" ELSE "finish") /\ UNCHANGED jobs
  /\ UNCHANGED <<lock, notJobs>>

\* cancel and finish_rejected; both go on to delete the package.
CancelUpload ==
  /\ At("cancel")
  /\ jobs' = IF May(bg.job, "Deleted") THEN Moved(bg.job, "Deleted") ELSE jobs
  /\ Goto("dropPackage")
  /\ UNCHANGED <<lock, notJobs>>

FinishRejected_Mut == At("finish") /\ Goto("dropPackage") /\ UNCHANGED <<jobs, lock, notJobs>>
FinishRejected ==
  /\ At("finish")
  /\ jobs' = IF May(bg.job, "Rejected") THEN Moved(bg.job, "Rejected") ELSE jobs
  /\ Goto("dropPackage")
  /\ UNCHANGED <<lock, notJobs>>

DropPackage ==
  /\ At("dropPackage")
  /\ package' = package \ {bg.job}
  /\ Goto("upload")
  /\ UNCHANGED <<consents, jobs, raw, receipts, deletions, volume, lock, notBg>>

StartUpload ==
  /\ At("send")
  /\ IF May(bg.job, "Uploading")
     THEN /\ jobs' = [Moved(bg.job, "Uploading") EXCEPT ![bg.job].attempts = @ + 1]
          /\ Goto("inFlight")
     ELSE Goto("relock") /\ UNCHANGED jobs
  /\ UNCHANGED <<lock, notJobs>>

\* The server answers, or its answer is lost, or the request never got there;
\* "permanent" also stands for revoked credentials.
Transmit ==
  /\ At("inFlight")
  /\ \/ /\ server' \in Admit(server, bg.job, jobs[bg.job].consent)
        /\ \E answer \in {server'.receipts[bg.job], "retriable"} :
             bg' = [bg EXCEPT !.pc = "answered", !.answer = answer]
     \/ /\ \E answer \in {"retriable", "permanent"} :
             bg' = [bg EXCEPT !.pc = "answered", !.answer = answer]
        /\ UNCHANGED server
  /\ UNCHANGED <<persisted, lock, ui, ctl, optedOut, age, began, acked, crashes, events>>

Acknowledge ==
  /\ At("answered") /\ bg.answer = "accepted"
  /\ IF May(bg.job, "Acknowledged")
     THEN /\ jobs' = Moved(bg.job, "Acknowledged")
          /\ acked' = acked + 1
          /\ Goto("record")
     ELSE Goto("late") /\ UNCHANGED <<jobs, acked>>
  /\ UNCHANGED <<consents, raw, package, receipts, deletions, volume, lock,
                 ui, ctl, optedOut, server, age, began, crashes, events>>

RecordReceipt ==
  /\ At("record")
  /\ receipts' = [receipts EXCEPT ![bg.job] = IF @ = "none" THEN "accepted" ELSE @]
  /\ Goto("count")
  /\ UNCHANGED <<consents, jobs, raw, package, deletions, volume, lock, notBg>>

CountVolume_Mut == At("count") /\ Goto("dropPackage") /\ UNCHANGED <<persisted, lock, notBg>>
CountVolume ==
  /\ At("count")
  /\ volume' = volume + 1
  /\ Goto("dropPackage")
  /\ UNCHANGED <<consents, jobs, raw, package, receipts, deletions, lock, notBg>>

\* "A receipt for a job that is no longer uploading: never re-eligible."
LateReceipt_Mut ==
  /\ At("late")
  /\ receipts' = [receipts EXCEPT ![bg.job] = IF @ = "none" THEN "late" ELSE @]
  /\ Goto("upload")
  /\ UNCHANGED <<consents, jobs, raw, package, deletions, volume, lock, notBg>>
LateReceipt ==
  /\ At("late")
  /\ receipts' = [receipts EXCEPT ![bg.job] = IF @ = "none" THEN "late" ELSE @]
  /\ deletions' = deletions \cup {bg.job}
  /\ Goto("upload")
  /\ UNCHANGED <<consents, jobs, raw, package, volume, lock, notBg>>

RefusedUpload ==
  /\ At("answered")
  /\ \/ bg.answer \in {"refused", "permanent"}
     \/ bg.answer = "retriable" /\ ~MayRetry(jobs[bg.job].attempts, MaxAttempts)
  /\ Goto("finish")
  /\ UNCHANGED <<persisted, lock, notBg>>

RetryLater_Mut ==
  /\ At("answered")
  /\ bg.answer = "retriable" /\ MayRetry(jobs[bg.job].attempts, MaxAttempts)
  /\ jobs' = [Moved(bg.job, "Eligible") EXCEPT ![bg.job].deferred = TRUE]
  /\ Goto("upload")
  /\ UNCHANGED <<lock, notJobs>>
RetryLater ==
  /\ At("answered")
  /\ bg.answer = "retriable" /\ MayRetry(jobs[bg.job].attempts, MaxAttempts)
  /\ jobs' = IF May(bg.job, "Eligible")
             THEN [Moved(bg.job, "Eligible") EXCEPT ![bg.job].deferred = TRUE] ELSE jobs
  /\ Goto("upload")
  /\ UNCHANGED <<lock, notJobs>>

\* The guard on the queue is dropped before the status is published, which is
\* done only when there was something to upload.
EndUploads ==
  /\ At("upload") /\ bg.todo = {}
  /\ IF bg.some THEN Unlock ELSE UNCHANGED lock
  /\ Goto("relock")
  /\ UNCHANGED <<persisted, notBg>>

\* transfer then locks the queue again for the deletion requests.
LockForDeletions ==
  /\ At("relock") /\ QueueFree
  /\ Hold("background")
  /\ bg' = [bg EXCEPT !.pc = "deletions", !.todo = deletions]
  /\ UNCHANGED <<persisted, notBg>>

SendDeletion ==
  /\ At("deletions")
  /\ \E scope \in bg.todo :
       /\ bg' = [bg EXCEPT !.todo = @ \ {scope}]
       /\ \/ UNCHANGED <<server, deletions>>
          \/ /\ server' = IF scope = Everything THEN DeleteEverything(server)
                                                ELSE DeleteReceipt(server, scope)
             /\ deletions' \in {deletions, deletions \ {scope}}
  /\ UNCHANGED <<consents, jobs, raw, package, receipts, volume, lock,
                 ui, ctl, optedOut, age, began, acked, crashes, events>>

EndCycle ==
  /\ At("deletions") /\ bg.todo = {}
  /\ Unlock
  /\ bg' = RestingBg
  /\ UNCHANGED <<persisted, notBg>>

-----------------------------------------------------------------------------
(* The user's commands *)

UiAt(pc) == ui.pc = pc
notUi == <<bg, ctl, optedOut, age, began, acked, crashes, lock>>

Event == events < MaxEvents /\ events' = events + 1
Begin == UiAt("idle") /\ Event
Continue(pc) == UiAt(pc) /\ UNCHANGED events

\* grant_consent: every earlier grant is revoked with the insertion.
Grant ==
  /\ Begin /\ QueueFree /\ Len(consents) < MaxGrants
  /\ consents' = Append([c \in 1..Len(consents) |-> "revoked"], "active")
  /\ ui' = [ui EXCEPT !.pc = "register"]
  /\ UNCHANGED <<jobs, raw, package, receipts, deletions, volume, server, notUi>>

RegisterGrant ==
  /\ Continue("register")
  /\ server' \in {server, Register(server, Len(consents))}
  /\ ui' = RestingUi
  /\ UNCHANGED <<persisted, notUi>>

SetPaused(paused) ==
  /\ Begin /\ QueueFree /\ Current(consents) > 0
  /\ consents[Current(consents)] = IF paused THEN "active" ELSE "paused"
  /\ consents' = [consents EXCEPT ![Current(consents)] = IF paused THEN "paused" ELSE "active"]
  /\ UNCHANGED <<jobs, raw, package, receipts, deletions, volume, ui, server, notUi>>

\* withdraw_consent: read the consent, revoke it, cancel the jobs, drop their
\* raw copies, tell the server, and fall back to a deletion request.
BeginWithdraw ==
  /\ Begin /\ QueueFree
  /\ ui' = [ui EXCEPT !.consent = Current(consents),
                      !.pc = IF Current(consents) > 0 THEN "revoke" ELSE "cancelJobs"]
  /\ UNCHANGED <<persisted, server, notUi>>

Revoke ==
  /\ Continue("revoke") /\ QueueFree
  /\ consents' = [consents EXCEPT ![ui.consent] = "revoked"]
  /\ ui' = [ui EXCEPT !.pc = "cancelJobs"]
  /\ UNCHANGED <<jobs, raw, package, receipts, deletions, volume, server, notUi>>

\* delete_training_data starts here, and never notifies the server directly.
BeginDeletion ==
  /\ Begin
  /\ ui' = [ui EXCEPT !.pc = "cancelJobs"]
  /\ UNCHANGED <<persisted, server, notUi>>

CancelAllJobs ==
  /\ Continue("cancelJobs") /\ QueueFree
  /\ jobs' = [s \in Sessions |-> IF s \in In(Cancellable)
                                 THEN [jobs[s] EXCEPT !.state = "Deleted"] ELSE jobs[s]]
  /\ package' = package \ In(Cancellable)
  /\ ui' = [ui EXCEPT !.pc = "dropRaw", !.jobs = In(Cancellable)]
  /\ UNCHANGED <<consents, raw, receipts, deletions, volume, server, notUi>>

DropCancelledRaw_Mut ==
  /\ Continue("dropRaw")
  /\ ui' = [ui EXCEPT !.pc = IF ui.consent > 0 THEN "notify" ELSE "request"]
  /\ UNCHANGED <<persisted, server, notUi>>
DropCancelledRaw ==
  /\ Continue("dropRaw") /\ SessionsFree
  /\ raw' = raw \ ui.jobs
  /\ ui' = [ui EXCEPT !.pc = IF ui.consent > 0 THEN "notify" ELSE "request"]
  /\ UNCHANGED <<consents, jobs, package, receipts, deletions, volume, server, notUi>>

NotifyServer_Mut ==
  /\ Continue("notify")
  /\ server' \in {server, Withdraw(server, ui.consent,
                                   {s \in Sessions : jobs[s].consent = ui.consent})}
  /\ ui' = RestingUi
  /\ UNCHANGED <<persisted, notUi>>
NotifyServer ==
  /\ Continue("notify")
  /\ \/ /\ server' = Withdraw(server, ui.consent,
                              {s \in Sessions : jobs[s].consent = ui.consent})
        /\ ui' \in {RestingUi, [ui EXCEPT !.pc = "request"]}
     \/ /\ ui' = [ui EXCEPT !.pc = "request"]
        /\ UNCHANGED server
  /\ UNCHANGED <<persisted, notUi>>

RequestDeletion ==
  /\ Continue("request") /\ QueueFree
  /\ deletions' = deletions \cup {Everything}
  /\ ui' = RestingUi
  /\ UNCHANGED <<consents, jobs, raw, package, receipts, volume, server, notUi>>

\* do_not_contribute, from the result panel: note the session, take its job out
\* of the queue unless it is uploading, drop its raw copy.
OptOut(s) ==
  /\ Begin /\ began[s] # NotBegun
  /\ ~(ctl.session = s /\ ctl.pc = "dictating")
  /\ optedOut' = optedOut \cup {s}
  /\ ui' = [ui EXCEPT !.pc = "optOutQueue", !.jobs = {s}]
  /\ UNCHANGED <<persisted, server, bg, ctl, age, began, acked, crashes, lock>>

OptOutQueue ==
  /\ Continue("optOutQueue") /\ QueueFree
  /\ LET out == ui.jobs \cap In(Cancellable \ {"Uploading"})
     IN  /\ jobs' = [s \in Sessions |-> IF s \in out THEN [jobs[s] EXCEPT !.state = "Deleted"]
                                                     ELSE jobs[s]]
         /\ package' = package \ out
  /\ ui' = [ui EXCEPT !.pc = "optOutRaw"]
  /\ UNCHANGED <<consents, raw, receipts, deletions, volume, server, notUi>>

OptOutRaw ==
  /\ Continue("optOutRaw") /\ SessionsFree
  /\ raw' = raw \ ui.jobs
  /\ ui' = RestingUi
  /\ UNCHANGED <<consents, jobs, package, receipts, deletions, volume, server, notUi>>

-----------------------------------------------------------------------------
(* Time and failure *)

notTime == <<jobs, raw, package, receipts, deletions, lock, bg, ui, ctl, optedOut,
             server, began, crashes>>

ConsentExpires ==
  /\ Event
  /\ Current(consents) > 0 /\ consents[Current(consents)] # "expired"
  /\ consents' = [consents EXCEPT ![Current(consents)] = "expired"]
  /\ UNCHANGED <<volume, age, acked, notTime>>

\* A day after it started a session's raw copy and job expire, a week after it
\* was built its package does; a package is never built that late.
Grow(s) ==
  /\ Event
  /\ began[s] # NotBegun /\ age[s] # "week"
  /\ age[s] = "day" => jobs[s].state \notin {"LocalPending", "Analyzing", "Building"}
  /\ age' = [age EXCEPT ![s] = IF @ = "fresh" THEN "day" ELSE "week"]
  /\ UNCHANGED <<consents, volume, acked, notTime>>

Midnight ==
  /\ Event /\ acked > 0
  /\ acked' = 0 /\ volume' = 0
  /\ UNCHANGED <<consents, age, notTime>>

\* The process ends and is started again: the stores keep what was committed.
Crash ==
  /\ Event /\ crashes < MaxCrashes
  /\ crashes' = crashes + 1
  /\ bg' = RestingBg /\ ui' = RestingUi /\ ctl' = RestingCtl
  /\ lock' = "free" /\ optedOut' = {}
  /\ UNCHANGED <<persisted, server, age, began, acked>>

-----------------------------------------------------------------------------
Controller == \/ \E s \in Sessions : StartDictation(s)
              \/ EndDictation \/ ReadOptOut \/ LockSessions \/ StoreSession \/ InsertJob

Cleanup == Wake \/ CleanScopes \/ ExpireJobs

Process == \/ StopProcessing \/ PickJob \/ ClaimJob \/ Analyze \/ AfterAnalysis \/ Build
           \/ AfterBuild \/ WritePackage \/ Promote \/ DropRaw
           \/ Reject \/ RejectRaw \/ RejectPackage

Transfer == \/ BeginTransfer \/ NextUpload \/ CancelUpload \/ FinishRejected \/ DropPackage
            \/ StartUpload \/ Transmit \/ Acknowledge \/ RecordReceipt \/ CountVolume
            \/ LateReceipt \/ RefusedUpload \/ RetryLater \/ EndUploads
            \/ LockForDeletions \/ SendDeletion \/ EndCycle

Background == Cleanup \/ Process \/ Transfer

Command == \/ Grant \/ RegisterGrant \/ \E paused \in BOOLEAN : SetPaused(paused)
           \/ BeginWithdraw \/ Revoke \/ BeginDeletion \/ CancelAllJobs \/ DropCancelledRaw
           \/ NotifyServer \/ RequestDeletion
           \/ (\E s \in Sessions : OptOut(s)) \/ OptOutQueue \/ OptOutRaw

Environment == ConsentExpires \/ Midnight \/ Crash \/ \E s \in Sessions : Grow(s)

Next == Controller \/ Background \/ Command \/ Environment

Spec == Init /\ [][Next]_vars
-----------------------------------------------------------------------------
(* Properties *)

TypeOK ==
  /\ consents \in Seq(ConsentStatus) /\ Len(consents) \in 0..MaxGrants
  /\ jobs \in [Sessions -> Job]
  /\ raw \in SUBSET Sessions /\ package \in SUBSET Sessions
  /\ receipts \in [Sessions -> {"none", "accepted", "late"}]
  /\ deletions \in SUBSET (Sessions \cup {Everything})
  /\ volume \in Nat /\ acked \in Nat /\ crashes \in 0..MaxCrashes /\ events \in 0..MaxEvents
  /\ lock \in {"free", "background", "controller"}
  /\ bg.job \in Sessions \cup {Nobody} /\ bg.todo \in SUBSET (Sessions \cup {Everything})
  /\ ui.consent \in 0..MaxGrants /\ ui.jobs \in SUBSET Sessions
  /\ ctl.session \in Sessions \cup {Nobody} /\ optedOut \in SUBSET Sessions
  /\ server \in Service(MaxGrants)
  /\ age \in [Sessions -> {"fresh", "day", "week"}]
  /\ began \in [Sessions -> 0..NotBegun]

AllRest == bg.pc = "rest" /\ ui.pc = "idle" /\ ctl.pc = "idle"

\* recheck, "before anything is written or sent": whatever the user did between
\* dictation and transfer, the server accepts a sample only while the user is
\* neither paused nor withdrawn, and only of a session that began under the
\* consent it is sent with (which can at most have run out on the way).
SentUnderConsent ==
  [][\A s \in Sessions :
       server.receipts[s] # "accepted" /\ server'.receipts[s] = "accepted"
         => LET c == jobs[s].consent
            IN  /\ c = Current(consents) /\ consents[c] \in {"active", "expired"}
                /\ began[s] \in c..MaxGrants]_vars

\* withdraw_consent, "starts deletion of what the server received": once the
\* command is over, nothing received under the consent withdrawn is left with
\* the server, or the request to delete it is stored, whichever messages were
\* lost, and although uploads whose answer was lost are not known to the client.
WithdrawnErased ==
  consents # << >> /\ Current(consents) = 0 /\ ui.pc = "idle" /\ crashes = 0
    => \/ Everything \in deletions
       \/ \A s \in Sessions : s \in server.held => jobs[s].consent # Len(consents)

\* "A crash cannot promote partial output to upload-ready": a job that may be
\* uploaded has its package (until the package expires).
EligibleHasPackage ==
  \A s \in In({"Eligible", "Uploading"}) : age[s] # "week" => s \in package

\* VolumeCaps: no more packages are acknowledged in a day than the cap allows,
\* but for one each time the process ended before it counted one.
CapRespected == acked <= DailyCap + crashes

\* Every way through process_next_job and upload_job gives the job back: between
\* crashes, a job marked as being worked on is the one in the thread's hands.
WorkInHand ==
  crashes = 0 => \A s \in In({"Analyzing", "Building", "Uploading"}) :
                   bg.job = s /\ bg.pc \notin {"rest", "process", "transfer", "upload"}

\* Raw copies and packages go with the decision on the job, however the user's
\* commands and the background thread met; only a crash or the job's expiry
\* leaves them to the daily and weekly cleanup.
NothingLeftBehind ==
  AllRest /\ crashes = 0 =>
    \A s \in In(Terminal) : age[s] = "fresh" => s \notin raw /\ s \notin package

\* "Withdrawal wins": a job the user cancelled is never revived, even when the
\* cancellation met it in the middle of an analysis or a transfer.
CancelledForGood ==
  [][\A s \in Sessions : jobs[s].state = "Deleted" => jobs'[s].state = "Deleted"]_vars

\* late_receipt, "never re-eligible": a sample the server accepted for a job that
\* was cancelled meanwhile is gone, or its deletion is requested.
LateReceiptDeleted ==
  \A s \in Sessions :
    receipts[s] = "late" /\ s \in server.held => deletions \cap {s, Everything} # {}

-----------------------------------------------------------------------------
(* What the code's documents say, and what it does not do.                  *)

\* "Never for sessions the user marked": no session is enqueued once the command
\* that marks it is over.
OptOutHonoured ==
  [][\A s \in optedOut : ui.pc = "idle" /\ jobs[s] = NoJob => jobs'[s] = NoJob]_vars

\* "Dictation started; the job returns to the queue unchanged": a job is not
\* given up for a classification that dictation cut short.
PreemptionKeepsJob ==
  [][bg.pc = "reject" /\ bg.answer = "preempted" /\ Permits(consents, jobs[bg.job].consent)
       => jobs'[bg.job].state # "Rejected"]_vars

\* "Unsent ones are retried next cycle": a stored request to delete everything is
\* taken up by the background thread, again and again until it is confirmed.
DeletionRetried ==
  Everything \in deletions ~> \/ Everything \notin deletions
                              \/ bg.pc = "deletions" /\ Everything \in bg.todo

(* Every thread goes on if it can, and gets the mutex if it keeps asking.   *)
(* Only the user may stop; dictation sessions end.                          *)
Working == EndDictation \/ ReadOptOut \/ LockSessions \/ StoreSession \/ InsertJob
Commanding == Command /\ ui.pc # "idle"
FairSpec == Spec /\ SF_vars(Background) /\ SF_vars(Working) /\ SF_vars(Commanding)
=============================================================================
