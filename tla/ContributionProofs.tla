-------------------------- MODULE ContributionProofs --------------------------
(***************************************************************************)
(* Contribution, for any sessions and any number of grants, attempts,      *)
(* crashes and events, on the desktop and in the engine alike: cancelled   *)
(* jobs stay cancelled, the daily cap holds, a late receipt leads to a     *)
(* deletion, every job is given back, none is up for upload without its    *)
(* package, no transfer is tried too often, and nothing stays behind of    *)
(* one that is over.  On the desktop, whose mutexes the argument rests on: *)
(* nothing is sent without consent, and a withdrawal reaches all of it.    *)
(***************************************************************************)
EXTENDS Contribution, TLAPS

USE ContributionAssumption

JobLike == [state : JobState \cup {"none"}, consent : Nat, attempts : Nat, deferred : BOOLEAN]

BgShape == bg = [pc |-> bg.pc, job |-> bg.job, answer |-> bg.answer, todo |-> bg.todo, some |-> bg.some]
CtlShape == ctl = [pc |-> ctl.pc, session |-> ctl.session, optedOut |-> ctl.optedOut]

\* A session is begun once, and its job is inserted by the controller's hand on it
\* alone: the state "none" ends there, and every other state by the table.
BegunOnce ==
  /\ \A s \in Sessions : began[s] = NotBegun => jobs[s].state = "none"
  /\ ctl.pc # "idle" => /\ ctl.session \in Sessions
                        /\ began[ctl.session] # NotBegun /\ jobs[ctl.session].state = "none"

JobsInv ==
  /\ consents \in Seq(ConsentStatus) /\ Len(consents) <= MaxGrants
  /\ jobs \in [Sessions -> JobLike] /\ DOMAIN began = Sessions
  /\ BgShape /\ CtlShape /\ BegunOnce

\* Each job stays where it is or moves on in the table of JobState::may_transition.
FollowsTable ==
  \A s \in Sessions : \/ jobs'[s].state = jobs[s].state
                      \/ jobs[s].state \in JobState /\ jobs'[s].state \in Successors(jobs[s].state)

-----------------------------------------------------------------------------
LEMMA SuccessorsAreStates == \A from \in JobState : Successors(from) \subseteq JobState
BY DEF Successors, JobState

LEMMA CancellableEnds == \A from \in Cancellable : from \in JobState /\ "Deleted" \in Successors(from)
BY DEF Cancellable, Terminal, Successors, JobState

\* A guarded transition, with whatever else it notes of the job.
LEMMA MoveFollowsTable ==
  ASSUME JobsInv, NEW j, NEW target, May(j, target), NEW next, next \in JobLike, next.state = target,
         jobs' = [jobs EXCEPT ![j] = next]
  PROVE  jobs' \in [Sessions -> JobLike] /\ FollowsTable
BY DEF JobsInv, May, FollowsTable

LEMMA MoveIsMove ==
  ASSUME JobsInv, NEW j, NEW target, May(j, target), jobs' = Moved(j, target)
  PROVE  jobs' \in [Sessions -> JobLike] /\ FollowsTable
<1>1. CASE j \in Sessions
  <2> DEFINE next == [jobs[j] EXCEPT !.state = target]
  <2>1. next \in JobLike /\ next.state = target
    BY <1>1, SuccessorsAreStates DEF JobsInv, JobLike, May
  <2>2. jobs' = [jobs EXCEPT ![j] = next]
    BY DEF Moved
  <2> HIDE DEF next
  <2> QED
    BY <2>1, <2>2, MoveFollowsTable
<1>2. CASE j \notin Sessions
  BY <1>2 DEF Moved, JobsInv, FollowsTable
<1> QED
  BY <1>1, <1>2

\* What a job was, it is or becomes by the table, and "none" stays: nothing is
\* begun or inserted by it.  A job that was filtered does not go back to be filtered.
Filtered == Terminal \cup {"Eligible", "Uploading"}
StaysDecided == \A s \in Sessions :
                  /\ jobs[s].state = "Deleted" => jobs'[s].state = "Deleted"
                  /\ jobs[s].state \in Filtered => jobs'[s].state \in Filtered

LEMMA TableKeepsDecided ==
  ASSUME JobsInv, FollowsTable
  PROVE  StaysDecided /\ \A s \in Sessions : jobs[s].state = "none" => jobs'[s].state = "none"
<1>1. Successors("Deleted") = {} /\ \A from \in Filtered : Successors(from) \subseteq Filtered
  BY DEF Successors, Filtered, Terminal
<1>2. "none" \notin JobState /\ "none" \notin Filtered
  BY DEF JobState, Filtered, Terminal
<1> QED
  BY <1>1, <1>2 DEF FollowsTable, StaysDecided

LEMMA TableKeepsJobsInv ==
  ASSUME JobsInv, FollowsTable, jobs' \in [Sessions -> JobLike], BgShape', UNCHANGED <<consents, ctl, began>>
  PROVE  JobsInv' /\ StaysDecided
BY TableKeepsDecided DEF JobsInv, BegunOnce, CtlShape

LEMMA StillJobs ==
  ASSUME JobsInv, UNCHANGED jobs, BgShape', UNCHANGED <<consents, ctl, began>>
  PROVE  JobsInv' /\ StaysDecided
BY DEF JobsInv, BegunOnce, CtlShape, StaysDecided

-----------------------------------------------------------------------------
LEMMA NewJobIsJob ==
  ASSUME NEW n \in Nat
  PROVE  [NoJob EXCEPT !.state = "LocalPending", !.consent = n] \in JobLike
BY DEF NoJob, JobLike, JobState

LEMMA ControllerJobs == ASSUME JobsInv, Controller PROVE JobsInv' /\ StaysDecided
<1>1. ASSUME NEW s \in Sessions, StartDictation(s) PROVE JobsInv' /\ StaysDecided
  <2>1. /\ ctl' = [ctl EXCEPT !.pc = "dictating", !.session = s]
        /\ began' = [began EXCEPT ![s] = Len(consents)] /\ began[s] = NotBegun
        /\ UNCHANGED <<consents, jobs, bg>>
    BY <1>1 DEF StartDictation, persisted
  <2>2. Len(consents) \in Nat /\ Len(consents) # NotBegun
    BY DEF JobsInv, NotBegun
  <2>3. /\ ctl'.session = s /\ CtlShape' /\ began'[s] # NotBegun
        /\ \A u \in Sessions : began'[u] = NotBegun => began[u] = NotBegun
    BY <2>1, <2>2 DEF JobsInv, CtlShape
  <2> QED
    BY <2>1, <2>2, <2>3 DEF JobsInv, BegunOnce, BgShape, StaysDecided
<1>2. CASE EndDictation
  BY <1>2 DEF EndDictation, persisted, world, RestingCtl, JobsInv, BegunOnce, BgShape, CtlShape, StaysDecided
<1>3. CASE ReadOptOut
  BY <1>3 DEF ReadOptOut, persisted, world, JobsInv, BegunOnce, BgShape, CtlShape, StaysDecided
<1>4. CASE LockSessions
  BY <1>4 DEF LockSessions, persisted, world, JobsInv, BegunOnce, BgShape, CtlShape, StaysDecided
<1>5. CASE StoreSession
  BY <1>5 DEF StoreSession, world, RestingCtl, JobsInv, BegunOnce, BgShape, CtlShape, StaysDecided
<1>6. CASE InsertJob
  <2> DEFINE inserted == [NoJob EXCEPT !.state = "LocalPending", !.consent = Len(consents)]
  <2>1. /\ jobs' = [jobs EXCEPT ![ctl.session] = inserted] /\ ctl.pc = "insert"
        /\ ctl' = RestingCtl /\ UNCHANGED <<consents, began, bg>>
    BY <1>6 DEF InsertJob, world
  <2>2. inserted \in JobLike
    <3>1. Len(consents) \in Nat
      BY DEF JobsInv
    <3> QED
      BY <3>1, NewJobIsJob
  <2> HIDE DEF inserted
  <2>3. /\ ctl.session \in Sessions /\ jobs[ctl.session].state = "none"
        /\ began[ctl.session] # NotBegun
    BY <2>1 DEF JobsInv, BegunOnce
  <2>4. ctl'.pc = "idle" /\ CtlShape'
    BY <2>1 DEF RestingCtl, CtlShape
  <2>5. jobs' \in [Sessions -> JobLike] /\ \A s \in Sessions \ {ctl.session} : jobs'[s] = jobs[s]
    BY <2>1, <2>2, <2>3 DEF JobsInv
  <2>6. "none" \notin Filtered \cup {"Deleted"}
    BY DEF Filtered, Terminal
  <2> QED
    BY <2>1, <2>3, <2>4, <2>5, <2>6 DEF JobsInv, BegunOnce, BgShape, StaysDecided
<1> QED
  BY <1>1, <1>2, <1>3, <1>4, <1>5, <1>6 DEF Controller

\* Goto and what it is built into keep the shape of the thread's state.
LEMMA GotoShape == ASSUME BgShape, NEW pc, Goto(pc) PROVE BgShape' /\ bg'.pc = pc /\ bg'.job = bg.job
BY DEF BgShape, Goto

LEMMA AdvanceJobs ==
  ASSUME JobsInv, NEW target, NEW pc, Advance(target, pc), UNCHANGED <<consents, ctl, began>>
  PROVE  JobsInv' /\ StaysDecided
<1>1. BgShape'
  BY GotoShape DEF Advance, JobsInv
<1>2. CASE May(bg.job, target) /\ jobs' = Moved(bg.job, target)
  BY <1>1, <1>2, MoveIsMove, TableKeepsJobsInv
<1>3. CASE UNCHANGED jobs
  BY <1>1, <1>3, StillJobs
<1> QED
  BY <1>2, <1>3 DEF Advance

LEMMA ProcessJobs == ASSUME JobsInv, Cleanup \/ Process PROVE JobsInv' /\ StaysDecided
<1> USE DEF JobsInv
<1>1. CASE Wake \/ CleanScopes \/ StopProcessing \/ WritePackage \/ DropRaw \/ RejectRaw \/ RejectPackage
  BY <1>1, GotoShape, StillJobs DEF Wake, CleanScopes, StopProcessing, WritePackage, DropRaw, RejectRaw,
       RejectPackage, notBg, persisted, world
<1>2. CASE ExpireJobs
  <2>1. jobs' = [s \in Sessions |->
                   IF age[s] # "fresh" /\ jobs[s].state \in Cancellable
                   THEN [jobs[s] EXCEPT !.state = "Deleted"] ELSE jobs[s]]
    BY <1>2 DEF ExpireJobs
  <2>2. jobs' \in [Sessions -> JobLike] /\ FollowsTable
    BY <2>1, CancellableEnds DEF JobLike, FollowsTable, JobState
  <2>3. BgShape' /\ UNCHANGED <<consents, ctl, began>>
    BY <1>2, GotoShape DEF ExpireJobs, notBg, world
  <2> QED
    BY <2>2, <2>3, TableKeepsJobsInv
<1>3. CASE PickJob \/ Analyze \/ Build
  BY <1>3, StillJobs DEF PickJob, Analyze, Build, Classify, BgShape, notBg, persisted, world
<1>4. CASE ClaimJob \/ AfterAnalysis
  BY <1>4, AdvanceJobs DEF ClaimJob, AfterAnalysis, notJobs, notBg, world
<1>5. CASE AfterBuild
  <2>1. UNCHANGED <<consents, ctl, began>>
    BY <1>5 DEF AfterBuild, notJobs, notBg, world
  <2>2. CASE Preempted
    BY <1>5, <2>1, <2>2, AdvanceJobs DEF AfterBuild
  <2>3. CASE ~Preempted
    BY <1>5, <2>1, <2>3, GotoShape, StillJobs DEF AfterBuild
  <2> QED
    BY <2>2, <2>3
<1>6. CASE Promote
  <2>1. BgShape' /\ UNCHANGED <<consents, ctl, began>>
    BY <1>6, GotoShape DEF Promote, notBg, world
  <2>2. CASE May(bg.job, "Eligible")
    BY <1>6, <2>1, <2>2, MoveIsMove, TableKeepsJobsInv DEF Promote
  <2>3. CASE ~May(bg.job, "Eligible")
    BY <1>6, <2>1, <2>3, StillJobs DEF Promote
  <2> QED
    BY <2>2, <2>3
<1>7. CASE Reject
  <2>1. BgShape' /\ UNCHANGED <<consents, ctl, began>>
    BY <1>7, GotoShape DEF Reject, notJobs, notBg, world
  <2>2. CASE May(bg.job, "Rejected")
    BY <1>7, <2>1, <2>2, MoveIsMove, TableKeepsJobsInv DEF Reject
  <2>3. CASE ~May(bg.job, "Rejected")
    BY <1>7, <2>1, <2>3, StillJobs DEF Reject
  <2> QED
    BY <2>2, <2>3
<1> QED
  BY <1>1, <1>2, <1>3, <1>4, <1>5, <1>6, <1>7 DEF Cleanup, Process

LEMMA CountedJob ==
  ASSUME NEW j \in JobLike, NEW target \in JobState
  PROVE  /\ [[j EXCEPT !.state = target] EXCEPT !.attempts = @ + 1] \in JobLike
         /\ [[j EXCEPT !.state = target] EXCEPT !.attempts = @ + 1].state = target
         /\ [[j EXCEPT !.state = target] EXCEPT !.deferred = TRUE] \in JobLike
         /\ [[j EXCEPT !.state = target] EXCEPT !.deferred = TRUE].state = target
<1> DEFINE m == [j EXCEPT !.state = target]
<1>1. m \in JobLike /\ m.state = target
  BY DEF JobLike
<1> HIDE DEF m
<1>2. \A k \in Nat : [m EXCEPT !.attempts = k] \in JobLike /\ [m EXCEPT !.attempts = k].state = m.state
  BY <1>1 DEF JobLike
<1>3. m.attempts + 1 \in Nat
  BY <1>1 DEF JobLike
<1>4. [m EXCEPT !.deferred = TRUE] \in JobLike /\ [m EXCEPT !.deferred = TRUE].state = m.state
  BY <1>1 DEF JobLike
<1> QED
  BY <1>1, <1>2, <1>3, <1>4, Zenon DEF m

\* A job put off, or handed to the server once more, and moved or not.
LEMMA TransferJobs == ASSUME JobsInv, Transfer PROVE JobsInv' /\ StaysDecided
<1> USE DEF JobsInv
<1>1. CASE \/ DropPackage \/ RecordReceipt \/ CountVolume \/ LateReceipt \/ RefusedUpload \/ EndUploads
  BY <1>1, GotoShape, StillJobs DEF DropPackage, RecordReceipt, CountVolume, LateReceipt, RefusedUpload,
       EndUploads, notBg, persisted, world
<1>2. CASE BeginTransfer \/ Transmit \/ LockForDeletions
  BY <1>2, StillJobs DEF BeginTransfer, Transmit, LockForDeletions, BgShape, notBg, persisted, world
<1>3. CASE SendDeletion \/ EndCycle
  BY <1>3, StillJobs DEF SendDeletion, EndCycle, RestingBg, BgShape, notBg, persisted, world
<1>4. CASE NextUpload
  <2>1. PICK s \in bg.todo, pc \in {"cancel", "upload", "relock", "send", "finish"} :
          /\ bg' = [bg EXCEPT !.todo = @ \ {s}, !.job = s, !.pc = pc]
          /\ \/ UNCHANGED jobs
             \/ jobs[s].state = "Eligible" /\ jobs' = [jobs EXCEPT ![s].deferred = TRUE]
    BY <1>4 DEF NextUpload
  <2>2. BgShape' /\ UNCHANGED <<consents, ctl, began>>
    BY <1>4, <2>1 DEF NextUpload, BgShape, notJobs, notBg, world
  <2>3. CASE UNCHANGED jobs
    BY <2>2, <2>3, StillJobs
  <2>4. CASE jobs' = [jobs EXCEPT ![s].deferred = TRUE]
    <3>1. jobs' \in [Sessions -> JobLike] /\ FollowsTable
      BY <2>4 DEF JobLike, FollowsTable
    <3> QED
      BY <2>2, <3>1, TableKeepsJobsInv
  <2> QED
    BY <2>1, <2>3, <2>4
<1>5. CASE CancelUpload \/ FinishRejected
  <2>1. /\ BgShape' /\ UNCHANGED <<consents, ctl, began>>
        /\ \/ UNCHANGED jobs
           \/ \E target \in {"Deleted", "Rejected"} : May(bg.job, target) /\ jobs' = Moved(bg.job, target)
    BY <1>5, GotoShape DEF CancelUpload, FinishRejected, notJobs, notBg, world
  <2> QED
    BY <2>1, StillJobs, MoveIsMove, TableKeepsJobsInv
<1>6. CASE StartUpload \/ RetryLater
  <2>1. /\ BgShape' /\ UNCHANGED <<consents, ctl, began>>
        /\ \/ UNCHANGED jobs
           \/ /\ May(bg.job, "Uploading")
              /\ jobs' = [Moved(bg.job, "Uploading") EXCEPT ![bg.job].attempts = @ + 1]
           \/ /\ May(bg.job, "Eligible")
              /\ jobs' = [Moved(bg.job, "Eligible") EXCEPT ![bg.job].deferred = TRUE]
    BY <1>6, GotoShape DEF StartUpload, RetryLater, notJobs, notBg, world
  <2>2. CASE UNCHANGED jobs
    BY <2>1, <2>2, StillJobs
  <2>3. ASSUME NEW target \in {"Uploading", "Eligible"}, May(bg.job, target),
               \/ jobs' = [Moved(bg.job, target) EXCEPT ![bg.job].attempts = @ + 1]
               \/ jobs' = [Moved(bg.job, target) EXCEPT ![bg.job].deferred = TRUE]
        PROVE  jobs' \in [Sessions -> JobLike] /\ FollowsTable
    <3>1. CASE bg.job \in Sessions
      <4> DEFINE sent == [[jobs[bg.job] EXCEPT !.state = target] EXCEPT !.attempts = @ + 1]
                 later == [[jobs[bg.job] EXCEPT !.state = target] EXCEPT !.deferred = TRUE]
      <4>1. /\ sent \in JobLike /\ later \in JobLike
            /\ sent.state = target /\ later.state = target
        <5>1. jobs[bg.job] \in JobLike /\ target \in JobState
          BY <3>1 DEF JobState
        <5> QED
          BY <5>1, CountedJob
      <4>2. jobs' = [jobs EXCEPT ![bg.job] = sent] \/ jobs' = [jobs EXCEPT ![bg.job] = later]
        BY <2>3, <3>1 DEF Moved
      <4> HIDE DEF sent, later
      <4> QED
        BY <2>3, <4>1, <4>2, MoveFollowsTable
    <3>2. CASE bg.job \notin Sessions
      BY <2>3, <3>2 DEF Moved, FollowsTable
    <3> QED
      BY <3>1, <3>2
  <2> QED
    BY <2>1, <2>2, <2>3, TableKeepsJobsInv
<1>7. CASE Acknowledge
  <2>1. BgShape' /\ UNCHANGED <<consents, ctl, began>>
    BY <1>7, GotoShape DEF Acknowledge
  <2>2. CASE May(bg.job, "Acknowledged")
    BY <1>7, <2>1, <2>2, MoveIsMove, TableKeepsJobsInv DEF Acknowledge
  <2>3. CASE ~May(bg.job, "Acknowledged")
    BY <1>7, <2>1, <2>3, StillJobs DEF Acknowledge
  <2> QED
    BY <2>2, <2>3
<1> QED
  BY <1>1, <1>2, <1>3, <1>4, <1>5, <1>6, <1>7 DEF Transfer

LEMMA StatusChanges ==
  ASSUME consents \in Seq(ConsentStatus), NEW c, NEW status \in ConsentStatus,
         consents' = [consents EXCEPT ![c] = status]
  PROVE  consents' \in Seq(ConsentStatus) /\ Len(consents') = Len(consents)
<1>1. consents \in [1..Len(consents) -> ConsentStatus] /\ Len(consents) \in Nat
  OBVIOUS
<1>2. consents' \in [1..Len(consents) -> ConsentStatus]
  BY <1>1
<1> QED
  BY <1>1, <1>2

\* What the user cancels moves by the table.
LEMMA CancellingFollowsTable ==
  ASSUME JobsInv, NEW out \in SUBSET In(Cancellable),
         jobs' = [s \in Sessions |-> IF s \in out THEN [jobs[s] EXCEPT !.state = "Deleted"] ELSE jobs[s]]
  PROVE  jobs' \in [Sessions -> JobLike] /\ FollowsTable
<1>1. ASSUME NEW s \in Sessions
      PROVE  [jobs[s] EXCEPT !.state = "Deleted"] \in JobLike
             /\ [jobs[s] EXCEPT !.state = "Deleted"].state = "Deleted"
  BY DEF JobsInv, JobLike, JobState
<1>2. jobs' \in [Sessions -> JobLike]
  BY <1>1 DEF JobsInv
<1>3. FollowsTable
  BY <1>1, CancellableEnds DEF FollowsTable, In
<1> QED
  BY <1>2, <1>3

LEMMA CommandJobs == ASSUME JobsInv, Command PROVE JobsInv' /\ StaysDecided
<1> USE DEF JobsInv
<1>1. UNCHANGED <<bg, ctl, began>> /\ BgShape'
  BY DEF Command, Grant, RegisterGrant, SetPaused, BeginWithdraw, Revoke, BeginDeletion, CancelAllJobs,
         DropCancelledRaw, NotifyServer, RequestDeletion, OptOut, OptOutQueue, OptOutRaw, notUi, BgShape
<1>2. CASE RegisterGrant \/ BeginWithdraw \/ BeginDeletion \/ DropCancelledRaw \/ NotifyServer
           \/ RequestDeletion \/ (\E s \in Sessions : OptOut(s)) \/ OptOutRaw
  BY <1>1, <1>2, StillJobs DEF RegisterGrant, BeginWithdraw, BeginDeletion, DropCancelledRaw,
       NotifyServer, RequestDeletion, OptOut, OptOutRaw, persisted
<1>3. CASE Grant
  <2>1. /\ consents' = Append([c \in 1..Len(consents) |-> "revoked"], "active")
        /\ Len(consents) < MaxGrants /\ UNCHANGED jobs
    BY <1>3 DEF Grant
  <2>2. consents' \in Seq(ConsentStatus) /\ Len(consents') = Len(consents) + 1
    <3> DEFINE old == [c \in 1..Len(consents) |-> "revoked"]
    <3>1. old \in Seq(ConsentStatus) /\ Len(old) = Len(consents)
      BY DEF ConsentStatus
    <3>2. "active" \in ConsentStatus
      BY DEF ConsentStatus
    <3> HIDE DEF old
    <3>3. \A x : x \in ConsentStatus =>
             Append(old, x) \in Seq(ConsentStatus) /\ Len(Append(old, x)) = Len(old) + 1
      BY <3>1
    <3> QED
      BY <2>1, <3>1, <3>2, <3>3 DEF old
  <2>3. Len(consents') <= MaxGrants
    BY <2>1, <2>2
  <2> QED
    BY <1>1, <2>1, <2>2, <2>3 DEF BegunOnce, CtlShape, StaysDecided
<1>4. CASE Revoke \/ \E paused \in BOOLEAN : SetPaused(paused)
  <2>1. /\ \E c, status : status \in ConsentStatus /\ consents' = [consents EXCEPT ![c] = status]
        /\ UNCHANGED jobs
    BY <1>4 DEF Revoke, SetPaused, ConsentStatus
  <2>2. consents' \in Seq(ConsentStatus) /\ Len(consents') = Len(consents)
    BY <2>1, StatusChanges
  <2> QED
    BY <1>1, <2>1, <2>2 DEF BegunOnce, CtlShape, StaysDecided
<1>5. CASE CancelAllJobs \/ OptOutQueue
  <2>1. /\ UNCHANGED consents
        /\ \E out \in SUBSET In(Cancellable) :
             jobs' = [s \in Sessions |-> IF s \in out THEN [jobs[s] EXCEPT !.state = "Deleted"]
                                                      ELSE jobs[s]]
    BY <1>5 DEF CancelAllJobs, OptOutQueue, In
  <2>2. jobs' \in [Sessions -> JobLike] /\ FollowsTable
    BY <2>1, CancellingFollowsTable
  <2> QED
    BY <1>1, <2>1, <2>2, TableKeepsJobsInv
<1> QED
  BY <1>2, <1>3, <1>4, <1>5 DEF Command

LEMMA EnvironmentJobs == ASSUME JobsInv, Environment PROVE JobsInv' /\ StaysDecided
<1>1. CASE ConsentExpires
  <2>1. /\ consents' = [consents EXCEPT ![Current(consents)] = "expired"]
        /\ UNCHANGED <<jobs, bg, ctl, began>>
    BY <1>1 DEF ConsentExpires, notTime
  <2>2. consents' \in Seq(ConsentStatus) /\ Len(consents') = Len(consents)
    BY <2>1, StatusChanges DEF JobsInv, ConsentStatus
  <2> QED
    BY <2>1, <2>2 DEF JobsInv, BegunOnce, BgShape, CtlShape, StaysDecided
<1>2. CASE Midnight \/ \E s \in Sessions : Grow(s)
  BY <1>2, StillJobs DEF Midnight, Grow, notTime, JobsInv, BgShape
<1>3. CASE Crash
  <2>1. UNCHANGED <<consents, jobs, began>> /\ bg' = RestingBg /\ ctl' = RestingCtl
    BY <1>3 DEF Crash, persisted
  <2>2. BgShape' /\ CtlShape' /\ ctl'.pc = "idle"
    BY <2>1 DEF RestingBg, RestingCtl, BgShape, CtlShape
  <2> QED
    BY <2>1, <2>2 DEF JobsInv, BegunOnce, StaysDecided
<1> QED
  BY <1>1, <1>2, <1>3 DEF Environment

LEMMA JobsStart == Init => JobsInv
<1> SUFFICES ASSUME Init PROVE JobsInv
  OBVIOUS
<1>1. NoJob \in JobLike
  BY DEF NoJob, JobLike
<1>2. consents \in Seq(ConsentStatus) /\ Len(consents) = 0
  BY DEF Init
<1> QED
  BY <1>1, <1>2 DEF Init, JobsInv, BegunOnce, BgShape, CtlShape, RestingBg, RestingCtl, NoJob

LEMMA JobSteps == JobsInv /\ [Next]_vars => JobsInv' /\ StaysDecided
<1> SUFFICES ASSUME JobsInv, [Next]_vars PROVE JobsInv' /\ StaysDecided
  OBVIOUS
<1>1. CASE UNCHANGED vars
  BY <1>1, StillJobs DEF vars, persisted, world, JobsInv, BgShape
<1> QED
  BY <1>1, ControllerJobs, ProcessJobs, TransferJobs, CommandJobs, EnvironmentJobs DEF Next, Background

\* Withdrawal wins: whatever analysis or transfer a cancellation meets, transition_job
\* never brings the job back.
THEOREM WithdrawalWins == Spec => CancelledForGood
<1>1. JobsInv /\ [Next]_vars => [\A s \in Sessions : jobs[s].state = "Deleted" => jobs'[s].state = "Deleted"]_vars
  BY JobSteps DEF StaysDecided
<1> QED
  BY JobsStart, JobSteps, <1>1, PTL DEF Spec, CancelledForGood

-----------------------------------------------------------------------------
(* The daily cap *)

Sending == {"send", "inFlight", "answered", "record", "count"}

\* The cap is looked at before a transfer and counted after it, under one lock: a
\* package in between has room, and only an acknowledgement that is not counted yet
\* or whose count a crash lost is missing from the volume.
CapInv ==
  /\ BgShape /\ volume \in Nat /\ acked \in Nat /\ crashes \in Nat
  /\ volume <= DailyCap
  /\ bg.pc \in Sending => volume < DailyCap
  /\ acked <= volume + crashes + (IF bg.pc \in {"record", "count"} THEN 1 ELSE 0)

LEMMA CapFrame ==
  ASSUME CapInv, UNCHANGED <<volume, acked, crashes>>, BgShape',
         bg'.pc \in {"record", "count"} <=> bg.pc \in {"record", "count"},
         bg'.pc \in Sending => bg.pc \in Sending
  PROVE  CapInv'
BY DEF CapInv

\* The background thread at work on something else than a transfer.
LEMMA QuietCap ==
  ASSUME CapInv, UNCHANGED <<volume, acked, crashes>>, NEW pc, Goto(pc),
         pc \notin Sending, bg.pc \notin {"record", "count"}
  PROVE  CapInv'
<1>1. BgShape' /\ bg'.pc = pc
  BY GotoShape DEF CapInv
<1> QED
  BY <1>1, CapFrame DEF Sending

LEMMA ProcessCap == ASSUME CapInv, Cleanup \/ Process PROVE CapInv'
<1>1. UNCHANGED <<volume, acked, crashes>>
  BY DEF Cleanup, Process, Wake, CleanScopes, ExpireJobs, StopProcessing, PickJob, ClaimJob, Analyze,
         AfterAnalysis, Build, AfterBuild, WritePackage, Promote, DropRaw, Reject, RejectRaw,
         RejectPackage, Classify, notJobs, notBg, persisted, world
<1>2. CASE Cleanup \/ StopProcessing \/ WritePackage \/ Promote \/ DropRaw \/ Reject \/ RejectRaw
           \/ RejectPackage
  BY <1>1, <1>2, QuietCap DEF Cleanup, Wake, CleanScopes, ExpireJobs, StopProcessing, WritePackage,
       Promote, DropRaw, Reject, RejectRaw, RejectPackage, At, Sending
<1>3. CASE ClaimJob \/ AfterAnalysis \/ AfterBuild
  BY <1>1, <1>3, QuietCap DEF ClaimJob, AfterAnalysis, AfterBuild, Advance, At, Sending
<1>4. CASE PickJob \/ Analyze \/ Build
  <2>1. /\ BgShape' /\ bg'.pc \in {"claim", "reject", "analyzed", "built"}
        /\ bg.pc \in {"process", "analyze", "build"}
    BY <1>4 DEF PickJob, Analyze, Build, Classify, At, CapInv, BgShape
  <2> QED
    BY <1>1, <2>1, CapFrame DEF Sending
<1> QED
  BY <1>2, <1>3, <1>4 DEF Process

LEMMA TransferCap == ASSUME CapInv, Transfer PROVE CapInv'
<1>1. CASE \/ CancelUpload \/ FinishRejected \/ DropPackage \/ LateReceipt \/ RefusedUpload
           \/ RetryLater \/ EndUploads
  BY <1>1, QuietCap DEF CancelUpload, FinishRejected, DropPackage, LateReceipt, RefusedUpload,
       RetryLater, EndUploads, At, Sending, notJobs, notBg, persisted, world
<1>2. CASE BeginTransfer \/ LockForDeletions \/ SendDeletion \/ EndCycle
  <2>1. UNCHANGED <<volume, acked, crashes>>
    BY <1>2 DEF BeginTransfer, LockForDeletions, SendDeletion, EndCycle, notBg, persisted, world
  <2>2. bg.pc \in {"transfer", "relock", "deletions"}
    BY <1>2 DEF BeginTransfer, LockForDeletions, SendDeletion, EndCycle, At
  <2>3. BgShape' /\ bg'.pc \in {"upload", "deletions", "rest"}
    <3>1. CASE BeginTransfer \/ LockForDeletions
      BY <3>1 DEF BeginTransfer, LockForDeletions, CapInv, BgShape
    <3>2. CASE SendDeletion
      BY <3>2 DEF SendDeletion, At, CapInv, BgShape
    <3>3. CASE EndCycle
      BY <3>3 DEF EndCycle, RestingBg, BgShape
    <3> QED
      BY <1>2, <3>1, <3>2, <3>3
  <2> QED
    BY <2>1, <2>2, <2>3, CapFrame DEF Sending
<1>3. CASE NextUpload
  <2>1. PICK s \in bg.todo, pc \in {"cancel", "upload", "relock", "send", "finish"} :
          /\ bg' = [bg EXCEPT !.todo = @ \ {s}, !.job = s, !.pc = pc]
          /\ pc = "send" => ~(volume >= DailyCap)
    BY <1>3 DEF NextUpload
  <2>2. /\ BgShape' /\ bg'.pc = pc /\ bg.pc = "upload" /\ UNCHANGED <<volume, acked, crashes>>
    BY <1>3, <2>1 DEF NextUpload, At, BgShape, CapInv, notJobs, notBg, world
  <2> QED
    BY <2>1, <2>2 DEF CapInv, Sending
<1>4. CASE StartUpload \/ Transmit
  <2>1. /\ UNCHANGED <<volume, acked, crashes>> /\ BgShape'
        /\ bg'.pc \in {"inFlight", "relock", "answered"} /\ bg.pc \in {"send", "inFlight"}
    BY <1>4, GotoShape DEF StartUpload, Transmit, At, BgShape, CapInv, notJobs, notBg, persisted, world
  <2> QED
    BY <2>1, CapFrame DEF Sending
<1>5. CASE Acknowledge
  <2>1. /\ BgShape' /\ bg.pc = "answered" /\ UNCHANGED <<volume, crashes>>
        /\ \/ bg'.pc = "record" /\ acked' = acked + 1
           \/ bg'.pc = "late" /\ acked' = acked
    BY <1>5, GotoShape DEF Acknowledge, At, CapInv
  <2> QED
    BY <2>1 DEF CapInv, Sending
<1>6. CASE RecordReceipt
  <2>1. /\ BgShape' /\ bg.pc = "record" /\ bg'.pc = "count" /\ UNCHANGED <<volume, acked, crashes>>
    BY <1>6, GotoShape DEF RecordReceipt, At, CapInv, notBg, world
  <2> QED
    BY <2>1, CapFrame DEF Sending
<1>7. CASE CountVolume
  <2>1. /\ BgShape' /\ bg.pc = "count" /\ bg'.pc = "dropPackage" /\ volume' = volume + 1
        /\ UNCHANGED <<acked, crashes>>
    BY <1>7, GotoShape DEF CountVolume, At, CapInv, notBg, world
  <2> QED
    BY <2>1 DEF CapInv, Sending
<1> QED
  BY <1>1, <1>2, <1>3, <1>4, <1>5, <1>6, <1>7 DEF Transfer

LEMMA OthersCap == ASSUME CapInv, Controller \/ Command \/ Environment PROVE CapInv'
<1>1. CASE Controller \/ Command
  <2>1. UNCHANGED <<bg, volume, acked, crashes>>
    BY <1>1 DEF Controller, StartDictation, EndDictation, ReadOptOut, LockSessions, StoreSession, InsertJob,
         Command, Grant, RegisterGrant, SetPaused, BeginWithdraw, Revoke, BeginDeletion, CancelAllJobs,
         DropCancelledRaw, NotifyServer, RequestDeletion, OptOut, OptOutQueue, OptOutRaw, notUi,
         persisted, world
  <2> QED
    BY <2>1, CapFrame DEF CapInv, BgShape
<1>2. CASE ConsentExpires \/ \E s \in Sessions : Grow(s)
  BY <1>2, CapFrame DEF ConsentExpires, Grow, notTime, CapInv, BgShape
<1>3. CASE Midnight
  BY <1>3 DEF Midnight, notTime, CapInv, BgShape
<1>4. CASE Crash
  <2>1. BgShape' /\ bg'.pc = "rest" /\ crashes' = crashes + 1 /\ UNCHANGED <<volume, acked>>
    BY <1>4 DEF Crash, RestingBg, BgShape, persisted
  <2> QED
    BY <2>1 DEF CapInv, Sending
<1> QED
  BY <1>1, <1>2, <1>3, <1>4 DEF Environment

\* VolumeCaps.max_packages_per_day: no more packages are acknowledged in a day than
\* the cap says, plus one for each crash, however uploads are retried and put off.
THEOREM CapHolds == Spec => []CapRespected
<1>1. Init => CapInv
  BY DEF Init, CapInv, BgShape, RestingBg, Sending
<1>2. CapInv /\ [Next]_vars => CapInv'
  <2> SUFFICES ASSUME CapInv, [Next]_vars PROVE CapInv'
    OBVIOUS
  <2>1. CASE UNCHANGED vars
    BY <2>1, CapFrame DEF vars, persisted, world, CapInv, BgShape
  <2> QED
    BY <2>1, ProcessCap, TransferCap, OthersCap DEF Next, Background
<1>3. CapInv => CapRespected
  BY DEF CapInv, CapRespected, Sending
<1> QED
  BY <1>1, <1>2, <1>3, PTL DEF Spec

-----------------------------------------------------------------------------
(* Late receipts *)

ServerShape(sv) ==
  DOMAIN sv = {"consents", "held", "buried", "receipts"} /\ DOMAIN sv.receipts = Sessions

\* An operation of the service takes no acceptance back, and holds a sample more
\* only with an acceptance that was not there before.
Serves(before, after) ==
  /\ ServerShape(after)
  /\ \A s \in Sessions :
       /\ before.receipts[s] = "accepted" => after.receipts[s] = "accepted"
       /\ s \in after.held => \/ s \in before.held
                              \/ before.receipts[s] # "accepted" /\ after.receipts[s] = "accepted"

\* What is held was accepted; so was a package whose answer is known and one whose
\* receipt came late.  Acceptance is for good, so a sample deleted by its late receipt
\* is not accepted a second time.
ReceiptInv ==
  /\ BgShape /\ ServerShape(server) /\ DOMAIN receipts = Sessions
  /\ \A s \in Sessions : s \in server.held => server.receipts[s] = "accepted"
  /\ \A s \in Sessions :
       bg.job = s /\ (bg.pc = "late" \/ (bg.pc = "answered" /\ bg.answer = "accepted")) =>
         server.receipts[s] = "accepted"
  /\ \A s \in Sessions : receipts[s] = "late" => server.receipts[s] = "accepted"
  /\ LateReceiptDeleted

LEMMA ServiceServes ==
  ASSUME NEW sv, ServerShape(sv), NEW c, NEW s, NEW samples
  PROVE  /\ Serves(sv, Register(sv, c)) /\ Serves(sv, Withdraw(sv, c, samples))
         /\ Serves(sv, DeleteReceipt(sv, s)) /\ Serves(sv, DeleteEverything(sv))
         /\ \A after \in Admit(sv, s, c) : Serves(sv, after)
<1>1. Serves(sv, Register(sv, c))
  BY DEF ServerShape, Serves, Register
<1>2. ASSUME NEW r, ServerShape(r), r.receipts = sv.receipts, r.held = sv.held, NEW gone
      PROVE  Serves(sv, Remove(r, gone))
  <2>1. /\ DOMAIN Remove(r, gone) = DOMAIN r /\ Remove(r, gone).held = r.held \ gone
        /\ Remove(r, gone).receipts = r.receipts
    BY <1>2 DEF ServerShape, Remove
  <2> HIDE DEF Remove
  <2> QED
    BY <1>2, <2>1 DEF ServerShape, Serves
<1>3. Serves(sv, Withdraw(sv, c, samples))
  BY <1>2 DEF ServerShape, Withdraw
<1>4. Serves(sv, DeleteReceipt(sv, s))
  BY <1>2 DEF ServerShape, Serves, DeleteReceipt
<1>5. Serves(sv, DeleteEverything(sv))
  BY <1>2 DEF ServerShape, DeleteEverything
<1>6. Serves(sv, Refuse(sv, s))
  BY DEF ServerShape, Serves, Refuse
<1>7. ASSUME Admissible(sv, s, c)
      PROVE  Serves(sv, [sv EXCEPT !.held = @ \cup {s}, !.receipts[s] = "accepted"])
  <2> DEFINE after == [sv EXCEPT !.held = @ \cup {s}, !.receipts[s] = "accepted"]
  <2>1. /\ DOMAIN after = DOMAIN sv /\ after.held = sv.held \cup {s}
        /\ after.receipts = [sv.receipts EXCEPT ![s] = "accepted"]
    BY DEF ServerShape
  <2>2. sv.receipts[s] = "none"
    BY <1>7 DEF Admissible
  <2> HIDE DEF after
  <2>3. Serves(sv, after)
    BY <2>1, <2>2 DEF ServerShape, Serves
  <2> QED
    BY <2>3 DEF after
<1> QED
  BY <1>1, <1>3, <1>4, <1>5, <1>6, <1>7 DEF Admit

\* What the thread knows of an answer is about the server as it is afterwards.
Informed ==
  \A s \in Sessions :
    bg.job = s /\ (bg.pc = "late" \/ (bg.pc = "answered" /\ bg.answer = "accepted")) =>
      server.receipts[s] = "accepted"

\* The service has done something, and nothing was recorded or confirmed.
LEMMA ServesReceipts ==
  ASSUME ReceiptInv, Serves(server, server'), UNCHANGED receipts, deletions \subseteq deletions',
         BgShape', Informed'
  PROVE  ReceiptInv'
<1>1. /\ ServerShape(server') /\ DOMAIN receipts' = Sessions
      /\ \A s \in Sessions : s \in server'.held => server'.receipts[s] = "accepted"
      /\ \A s \in Sessions : receipts'[s] = "late" => server'.receipts[s] = "accepted"
  BY DEF ReceiptInv, Serves
<1>2. LateReceiptDeleted'
  BY DEF ReceiptInv, Serves, LateReceiptDeleted
<1> QED
  BY <1>1, <1>2 DEF ReceiptInv, Informed

LEMMA SelfServes == ASSUME ReceiptInv PROVE Serves(server, server)
BY DEF ReceiptInv, Serves

\* The thread or another one has moved, away from the answer it had.
LEMMA QuietReceipts ==
  ASSUME ReceiptInv, UNCHANGED <<server, receipts, deletions>>, BgShape',
         UNCHANGED bg \/ bg'.pc \notin {"answered", "late"}
  PROVE  ReceiptInv'
<1>1. Informed'
  BY DEF ReceiptInv, Informed
<1>2. Serves(server, server')
  BY SelfServes
<1> QED
  BY <1>1, <1>2, ServesReceipts

LEMMA ProcessReceipts == ASSUME ReceiptInv, Cleanup \/ Process PROVE ReceiptInv'
<1>1. UNCHANGED <<server, receipts, deletions>>
  BY DEF Cleanup, Process, Wake, CleanScopes, ExpireJobs, StopProcessing, PickJob, ClaimJob, Analyze,
         AfterAnalysis, Build, AfterBuild, WritePackage, Promote, DropRaw, Reject, RejectRaw,
         RejectPackage, Classify, notJobs, notBg, persisted, world
<1>2. BgShape' /\ bg'.pc \notin {"answered", "late"}
  <2>1. CASE PickJob \/ Analyze \/ Build
    BY <2>1 DEF PickJob, Analyze, Build, Classify, ReceiptInv, BgShape
  <2>2. CASE ClaimJob \/ AfterAnalysis \/ AfterBuild
    BY <2>2, GotoShape DEF ClaimJob, AfterAnalysis, AfterBuild, Advance, ReceiptInv
  <2>3. CASE Cleanup \/ StopProcessing \/ WritePackage \/ Promote \/ DropRaw \/ Reject \/ RejectRaw
             \/ RejectPackage
    BY <2>3, GotoShape DEF Cleanup, Wake, CleanScopes, ExpireJobs, StopProcessing, WritePackage,
         Promote, DropRaw, Reject, RejectRaw, RejectPackage, ReceiptInv
  <2> QED
    BY <2>1, <2>2, <2>3 DEF Process
<1> QED
  BY <1>1, <1>2, QuietReceipts

\* The server's answers and the receipts made of them.
LEMMA AnswerReceipts ==
  ASSUME ReceiptInv, Transmit \/ Acknowledge \/ RecordReceipt \/ LateReceipt
  PROVE  ReceiptInv'
<1>1. CASE Transmit
  <2>1. Serves(server, server')
    BY <1>1, ServiceServes, SelfServes DEF Transmit, ReceiptInv
  <2>2. UNCHANGED <<receipts, deletions>>
    BY <1>1 DEF Transmit, persisted
  <2>3. /\ BgShape' /\ bg'.pc = "answered"
        /\ bg'.answer = "accepted" => server'.receipts[bg.job] = "accepted"
        /\ bg'.job = bg.job
    BY <1>1 DEF Transmit, ReceiptInv, BgShape
  <2>4. Informed'
    BY <2>3 DEF Informed
  <2> QED
    BY <2>1, <2>2, <2>3, <2>4, ServesReceipts
<1>2. CASE Acknowledge
  <2>1. UNCHANGED <<server, receipts, deletions>> /\ bg.pc = "answered" /\ bg.answer = "accepted"
    BY <1>2 DEF Acknowledge, At
  <2>2. BgShape' /\ bg'.job = bg.job
    BY <1>2, GotoShape DEF Acknowledge, ReceiptInv
  <2>3. Informed'
    BY <2>1, <2>2 DEF Informed, ReceiptInv
  <2>4. Serves(server, server')
    BY <2>1, SelfServes
  <2> QED
    BY <2>1, <2>2, <2>3, <2>4, ServesReceipts
<1>3. CASE RecordReceipt
  <2>1. /\ UNCHANGED <<server, deletions>> /\ BgShape' /\ bg'.pc = "count"
        /\ receipts' = [receipts EXCEPT ![bg.job] = IF @ = "none" THEN "accepted" ELSE @]
    BY <1>3, GotoShape DEF RecordReceipt, ReceiptInv, notBg, world
  <2>2. DOMAIN receipts' = Sessions /\ \A s \in Sessions : receipts'[s] = "late" => receipts[s] = "late"
    BY <2>1 DEF ReceiptInv
  <2> QED
    BY <2>1, <2>2 DEF ReceiptInv, LateReceiptDeleted
<1>4. CASE LateReceipt
  <2>1. /\ UNCHANGED server /\ BgShape' /\ bg'.pc = "upload" /\ bg.pc = "late"
        /\ receipts' = [receipts EXCEPT ![bg.job] = IF @ = "none" THEN "late" ELSE @]
        /\ deletions' = deletions \cup {bg.job}
    BY <1>4, GotoShape DEF LateReceipt, At, ReceiptInv, notBg, world
  <2>2. /\ DOMAIN receipts' = Sessions
        /\ \A s \in Sessions : receipts'[s] = "late" => receipts[s] = "late" \/ s = bg.job
    BY <2>1 DEF ReceiptInv
  <2>3. \A s \in Sessions : s = bg.job => server.receipts[s] = "accepted"
    BY <2>1 DEF ReceiptInv
  <2>4. LateReceiptDeleted'
    BY <2>1, <2>2 DEF ReceiptInv, LateReceiptDeleted
  <2>5. \A s \in Sessions : receipts'[s] = "late" => server'.receipts[s] = "accepted"
    BY <2>1, <2>2, <2>3 DEF ReceiptInv
  <2> QED
    BY <2>1, <2>2, <2>4, <2>5 DEF ReceiptInv
<1> QED
  BY <1>1, <1>2, <1>3, <1>4

\* A request is confirmed only when what it is about is gone.
LEMMA DeletionReceipts == ASSUME ReceiptInv, SendDeletion PROVE ReceiptInv'
<1>1. PICK scope \in bg.todo :
        /\ bg' = [bg EXCEPT !.todo = @ \ {scope}]
        /\ \/ UNCHANGED <<server, deletions>>
           \/ /\ server' = IF scope = Everything THEN DeleteEverything(server)
                                                 ELSE DeleteReceipt(server, scope)
              /\ deletions' \in {deletions, deletions \ {scope}}
  BY DEF SendDeletion
<1>2. BgShape' /\ bg'.pc = "deletions" /\ UNCHANGED receipts
  BY <1>1 DEF SendDeletion, At, ReceiptInv, BgShape
<1>3. Informed'
  BY <1>2 DEF Informed
<1>4. Serves(server, server')
  BY <1>1, ServiceServes, SelfServes DEF ReceiptInv
<1>5. CASE deletions \subseteq deletions'
  BY <1>2, <1>3, <1>4, <1>5, ServesReceipts
<1>6. CASE deletions' = deletions \ {scope}
  <2>1. CASE server' = server /\ deletions' = deletions
    BY <1>2, <1>3, <1>4, <2>1, ServesReceipts
  <2>2. CASE server' = (IF scope = Everything THEN DeleteEverything(server) ELSE DeleteReceipt(server, scope))
    <3>1. ASSUME NEW s \in Sessions, receipts[s] = "late", s \in server'.held
          PROVE  deletions' \cap {s, Everything} # {}
      <4>1. s \in server.held /\ server.receipts[s] = "accepted"
        BY <1>4, <3>1 DEF Serves, ReceiptInv
      <4>2. scope # Everything
        BY <2>2, <3>1 DEF DeleteEverything, Remove, ReceiptInv, ServerShape
      <4>3. scope # s
        BY <2>2, <3>1, <4>1, <4>2 DEF DeleteReceipt, Remove, ReceiptInv, ServerShape
      <4> QED
        BY <1>6, <3>1, <4>1, <4>2, <4>3 DEF ReceiptInv, LateReceiptDeleted
    <3>2. LateReceiptDeleted'
      BY <1>2, <3>1 DEF LateReceiptDeleted
    <3> QED
      BY <1>2, <1>3, <1>4, <3>2 DEF ReceiptInv, Serves
  <2> QED
    BY <1>1, <2>1, <2>2
<1> QED
  BY <1>1, <1>5, <1>6

LEMMA TransferReceipts == ASSUME ReceiptInv, Transfer PROVE ReceiptInv'
<1>1. CASE \/ CancelUpload \/ FinishRejected \/ DropPackage \/ CountVolume \/ RefusedUpload \/ RetryLater
           \/ EndUploads \/ StartUpload
  <2>1. UNCHANGED <<server, receipts, deletions>>
    BY <1>1 DEF CancelUpload, FinishRejected, DropPackage, CountVolume, RefusedUpload, RetryLater,
         EndUploads, StartUpload, notJobs, notBg, persisted, world
  <2>2. BgShape' /\ bg'.pc \notin {"answered", "late"}
    BY <1>1, GotoShape DEF CancelUpload, FinishRejected, DropPackage, CountVolume, RefusedUpload,
         RetryLater, EndUploads, StartUpload, ReceiptInv
  <2> QED
    BY <2>1, <2>2, QuietReceipts
<1>2. CASE BeginTransfer
  <2>1. Serves(server, server') /\ UNCHANGED <<receipts, deletions>>
    BY <1>2, ServiceServes, SelfServes DEF BeginTransfer, ReceiptInv, persisted
  <2>2. BgShape' /\ bg'.pc = "upload"
    BY <1>2 DEF BeginTransfer, ReceiptInv, BgShape
  <2> QED
    BY <2>1, <2>2, ServesReceipts DEF Informed
<1>3. CASE NextUpload
  <2>1. PICK s \in bg.todo, pc \in {"cancel", "upload", "relock", "send", "finish"} :
          bg' = [bg EXCEPT !.todo = @ \ {s}, !.job = s, !.pc = pc]
    BY <1>3 DEF NextUpload
  <2>2. BgShape' /\ bg'.pc = pc
    BY <2>1 DEF ReceiptInv, BgShape
  <2>3. UNCHANGED <<server, receipts, deletions>>
    BY <1>3 DEF NextUpload, notJobs, notBg, world
  <2> QED
    BY <2>2, <2>3, QuietReceipts
<1>4. CASE LockForDeletions \/ EndCycle
  <2>1. BgShape' /\ bg'.pc \in {"deletions", "rest"}
    <3>1. CASE LockForDeletions
      BY <3>1 DEF LockForDeletions, ReceiptInv, BgShape
    <3>2. CASE EndCycle
      BY <3>2 DEF EndCycle, RestingBg, BgShape
    <3> QED
      BY <1>4, <3>1, <3>2
  <2> QED
    BY <1>4, <2>1, QuietReceipts DEF LockForDeletions, EndCycle, notBg, persisted, world
<1> QED
  BY <1>1, <1>2, <1>3, <1>4, AnswerReceipts, DeletionReceipts DEF Transfer

LEMMA OthersReceipts == ASSUME ReceiptInv, Controller \/ Command \/ Environment PROVE ReceiptInv'
<1>1. CASE RegisterGrant \/ NotifyServer
  <2>1. Serves(server, server')
    <3>1. ServerShape(server)
      BY DEF ReceiptInv
    <3>2. CASE UNCHANGED server
      BY <3>2, SelfServes
    <3>3. CASE \/ server' = Register(server, Len(consents))
               \/ server' = Withdraw(server, ui.consent, {s \in Sessions : jobs[s].consent = ui.consent})
      BY <3>1, <3>3, ServiceServes
    <3> QED
      BY <1>1, <3>2, <3>3 DEF RegisterGrant, NotifyServer
  <2>2. UNCHANGED <<bg, receipts, deletions>>
    BY <1>1 DEF RegisterGrant, NotifyServer, notUi, persisted
  <2>3. BgShape'
    BY <2>2 DEF ReceiptInv, BgShape
  <2>4. Informed'
    BY <2>1, <2>2 DEF Informed, ReceiptInv, Serves
  <2> QED
    BY <2>1, <2>2, <2>3, <2>4, ServesReceipts
<1>2. CASE RequestDeletion
  <2>1. UNCHANGED <<bg, server, receipts>> /\ deletions \subseteq deletions'
    BY <1>2 DEF RequestDeletion, notUi
  <2> QED
    BY <2>1, ServesReceipts, SelfServes DEF ReceiptInv, BgShape, Informed
<1>3. CASE Crash
  <2>1. BgShape' /\ bg'.pc = "rest" /\ UNCHANGED <<server, receipts, deletions>>
    BY <1>3 DEF Crash, RestingBg, BgShape, persisted
  <2> QED
    BY <2>1, QuietReceipts
<1>4. CASE \/ Controller \/ ConsentExpires \/ Midnight \/ (\E s \in Sessions : Grow(s))
           \/ Command /\ ~(RegisterGrant \/ NotifyServer \/ RequestDeletion)
  <2>1. UNCHANGED <<bg, server, receipts, deletions>>
    BY <1>4 DEF Controller, StartDictation, EndDictation, ReadOptOut, LockSessions, StoreSession, InsertJob,
         ConsentExpires, Midnight, Grow, notTime, Command, Grant, SetPaused, BeginWithdraw, Revoke,
         BeginDeletion, CancelAllJobs, DropCancelledRaw, OptOut, OptOutQueue, OptOutRaw, notUi,
         persisted, world
  <2>2. BgShape'
    BY <2>1 DEF ReceiptInv, BgShape
  <2> QED
    BY <2>1, <2>2, QuietReceipts
<1> QED
  BY <1>1, <1>2, <1>3, <1>4 DEF Command, Environment

LEMMA ReceiptSteps == ReceiptInv /\ [Next]_vars => ReceiptInv'
<1> SUFFICES ASSUME ReceiptInv, [Next]_vars PROVE ReceiptInv'
  OBVIOUS
<1>1. CASE UNCHANGED vars
  BY <1>1, QuietReceipts DEF vars, persisted, world, ReceiptInv, BgShape
<1> QED
  BY <1>1, ProcessReceipts, TransferReceipts, OthersReceipts DEF Next, Background

\* late_receipt: a package the service accepted after its job was given up is deleted
\* there or its deletion is requested, and no retry brings it back.
THEOREM LateReceiptsEnd == Spec => []LateReceiptDeleted
<1>1. Init => ReceiptInv
  <2> SUFFICES ASSUME Init PROVE ReceiptInv
    OBVIOUS
  <2>1. ServerShape(server) /\ server.held = {}
    BY DEF Init, NoService, ServerShape
  <2> QED
    BY <2>1 DEF Init, ReceiptInv, BgShape, RestingBg, LateReceiptDeleted
<1>2. ReceiptInv => LateReceiptDeleted
  BY DEF ReceiptInv
<1> QED
  BY <1>1, <1>2, ReceiptSteps, PTL DEF Spec

-----------------------------------------------------------------------------
(* Jobs in hand, and their packages *)

InWork   == {"Analyzing", "Building", "Uploading"}
Ready    == {"Eligible", "Uploading"}
Settling == {"rejectRaw", "rejectPackage", "record", "count", "dropPackage"}
Settled  == Terminal \cup {"none", "LocalPending"}
Attempt  == {"claim", "analyze", "analyzed", "build", "built", "package", "promote"}

\* What the job in hand may be marked as, by the place in process_next_job and
\* upload_job; elsewhere no job is in work.
Expected(pc) ==
  CASE pc \in {"analyze", "analyzed"}                   -> {"Analyzing"}
    [] pc \in {"build", "built", "package", "promote"}  -> {"Building"}
    [] pc = "reject"                                    -> {"Analyzing", "Building"}
    [] pc \in {"inFlight", "answered", "finish"}        -> {"Uploading"}
    [] OTHER                                            -> {}

\* The package is there before the job is promoted, and goes only when the job's fate
\* is settled.  A job is worked on before it is ready, and sent after it was built.
JobInHand(s) ==
  /\ bg.pc = "promote" /\ jobs[s].state = "Building" => s \in package
  /\ bg.pc \in Attempt => jobs[s].state \notin Ready
  /\ bg.pc \in {"inFlight", "answered"} => jobs[s].state # "Building"
  /\ bg.pc \in Settling => jobs[s].state \in Settled

HandInv ==
  /\ JobsInv /\ crashes \in Nat /\ age \in [Sessions -> {"fresh", "day", "week"}]
  /\ \A s \in Sessions : crashes = 0 /\ jobs[s].state \in InWork
                           => s = bg.job /\ jobs[s].state \in Expected(bg.pc)
  /\ \A s \in Sessions : jobs[s].state \in Ready /\ age[s] # "week" => s \in package
  /\ \A s \in Sessions : s = bg.job => JobInHand(s)

\* A step of the thread at work on its job, judged by what it makes of that job alone.
LEMMA HandStep ==
  ASSUME HandInv, JobsInv', UNCHANGED <<crashes, age>>, bg'.job = bg.job,
         \A s \in Sessions : s # bg.job =>
           jobs'[s].state = jobs[s].state /\ (s \in package => s \in package'),
         \A s \in Sessions : s = bg.job =>
           /\ crashes = 0 /\ jobs'[s].state \in InWork => jobs'[s].state \in Expected(bg'.pc)
           /\ jobs'[s].state \in Ready /\ age[s] # "week" => s \in package'
           /\ JobInHand(s)'
  PROVE  HandInv'
BY DEF HandInv

\* The state of each job after the job in hand was moved, and counted or put off.
LEMMA MovedStates ==
  ASSUME JobsInv, NEW j, NEW t \in JobState,
         \/ jobs' = Moved(j, t)
         \/ jobs' = [Moved(j, t) EXCEPT ![j].attempts = @ + 1]
         \/ jobs' = [Moved(j, t) EXCEPT ![j].deferred = TRUE]
  PROVE  \A s \in Sessions : jobs'[s].state = IF s = j THEN t ELSE jobs[s].state
<1>1. jobs \in [Sessions -> JobLike]
  BY DEF JobsInv
<1>2. CASE jobs' = Moved(j, t)
  BY <1>1, <1>2 DEF Moved, JobLike
<1>3. CASE /\ j \in Sessions
           /\ \/ jobs' = [Moved(j, t) EXCEPT ![j].attempts = @ + 1]
              \/ jobs' = [Moved(j, t) EXCEPT ![j].deferred = TRUE]
  <2> DEFINE sent == [[jobs[j] EXCEPT !.state = t] EXCEPT !.attempts = @ + 1]
             later == [[jobs[j] EXCEPT !.state = t] EXCEPT !.deferred = TRUE]
  <2>1. sent.state = t /\ later.state = t
    BY <1>1, <1>3, CountedJob
  <2>2. jobs' = [jobs EXCEPT ![j] = sent] \/ jobs' = [jobs EXCEPT ![j] = later]
    BY <1>1, <1>3 DEF Moved
  <2> HIDE DEF sent, later
  <2> QED
    BY <1>1, <2>1, <2>2
<1>4. CASE j \notin Sessions
  BY <1>1, <1>4 DEF Moved
<1> QED
  BY <1>2, <1>3, <1>4

\* Whether a job may be moved, read off its state.
LEMMA MayBy ==
  ASSUME JobsInv, NEW s \in Sessions
  PROVE  /\ May(s, "Analyzing") => jobs[s].state = "LocalPending"
         /\ May(s, "Building") <=> jobs[s].state = "Analyzing"
         /\ May(s, "LocalPending") <=> jobs[s].state \in {"Analyzing", "Building"}
         /\ May(s, "Eligible") <=> jobs[s].state \in {"Building", "Uploading"}
         /\ May(s, "Uploading") => jobs[s].state = "Eligible"
         /\ May(s, "Acknowledged") <=> jobs[s].state = "Uploading"
         /\ ~May(s, "Rejected") => jobs[s].state \in Terminal \cup {"none"}
         /\ ~May(s, "Deleted") => jobs[s].state \in {"Deleted", "none"}
<1>1. jobs[s].state \in JobState \cup {"none"}
  BY DEF JobsInv, JobLike
<1> QED
  BY <1>1 DEF May, Successors, JobState, Terminal

LEMMA CleanupHand == ASSUME HandInv, JobsInv', Cleanup PROVE HandInv'
<1> USE DEF HandInv, JobsInv
<1>1. CASE Wake
  <2>1. BgShape' /\ bg'.pc = "cleanScopes" /\ bg.pc = "rest" /\ bg'.job = bg.job
    BY <1>1, GotoShape DEF Wake, At
  <2> QED
    BY <1>1, <2>1, HandStep DEF Wake, notBg, world, Expected, JobInHand, Settling, Attempt
<1>2. CASE CleanScopes
  <2>1. BgShape' /\ bg'.pc = "expire" /\ bg.pc = "cleanScopes" /\ bg'.job = bg.job
    BY <1>2, GotoShape DEF CleanScopes, At
  <2>2. /\ UNCHANGED <<jobs, age, crashes>>
        /\ \A s \in Sessions : s \in package /\ age[s] # "week" => s \in package'
    BY <1>2 DEF CleanScopes, notBg, world
  <2> QED
    BY <2>1, <2>2 DEF Expected, JobInHand, Settling, Attempt
<1>3. CASE ExpireJobs
  <2>1. BgShape' /\ bg'.pc \in {"rest", "process"} /\ bg.pc = "expire"
    BY <1>3, GotoShape DEF ExpireJobs, At
  <2>2. /\ UNCHANGED <<package, age, crashes>>
        /\ \A s \in Sessions : jobs'[s].state \in {jobs[s].state, "Deleted"}
    BY <1>3 DEF ExpireJobs, notBg, world, JobLike
  <2> QED
    BY <2>1, <2>2 DEF Expected, JobInHand, Settling, Attempt, InWork, Ready
<1> QED
  BY <1>1, <1>2, <1>3 DEF Cleanup

\* The thread looks for its next job, with none in work.
LEMMA ChooseHand ==
  ASSUME HandInv, JobsInv', UNCHANGED <<package, age, crashes>>, Expected(bg.pc) = {},
         \A s \in Sessions : jobs'[s].state = jobs[s].state,
         bg'.pc \notin Settling \cup {"promote", "inFlight", "answered"},
         \A s \in Sessions : s = bg'.job /\ bg'.pc \in Attempt => jobs[s].state \notin Ready
  PROVE  HandInv'
BY DEF HandInv, JobInHand

LEMMA ProcessHand == ASSUME HandInv, JobsInv', Process PROVE HandInv'
<1> USE DEF HandInv, JobsInv
<1>1. UNCHANGED <<age, crashes>>
  BY DEF Process, StopProcessing, PickJob, ClaimJob, Analyze, AfterAnalysis, Build, AfterBuild, WritePackage,
         Promote, DropRaw, Reject, RejectRaw, RejectPackage, Classify, notJobs, notBg, persisted, world
<1>2. CASE StopProcessing
  <2>1. BgShape' /\ bg'.pc = "transfer" /\ bg.pc = "process" /\ UNCHANGED <<jobs, package>>
    BY <1>2, GotoShape DEF StopProcessing, At, persisted
  <2> QED
    BY <1>1, <2>1, ChooseHand DEF Expected, Settling, Attempt
<1>3. CASE PickJob
  <2>1. PICK s \in In({"LocalPending"}) :
          bg' = [bg EXCEPT !.job = s, !.answer = "none",
                           !.pc = IF Permits(consents, jobs[s].consent) THEN "claim" ELSE "reject"]
    BY <1>3 DEF PickJob
  <2>2. /\ bg'.pc \in {"claim", "reject"} /\ bg.pc = "process" /\ UNCHANGED <<jobs, package>>
        /\ bg'.job = s /\ jobs[s].state \notin Ready
    BY <1>3, <2>1 DEF PickJob, At, persisted, BgShape, In, Ready
  <2> QED
    BY <1>1, <2>2, ChooseHand DEF Expected, Settling, Attempt
<1>4. CASE ClaimJob
  <2>1. /\ BgShape' /\ bg'.job = bg.job /\ bg.pc = "claim" /\ UNCHANGED package
        /\ \/ /\ jobs' = Moved(bg.job, "Analyzing") /\ bg'.pc \in {"analyze", "reject"}
           \/ bg'.pc = "process" /\ UNCHANGED jobs
    BY <1>4, GotoShape DEF ClaimJob, Advance, At, notJobs
  <2>2. CASE jobs' = Moved(bg.job, "Analyzing") /\ bg'.pc \in {"analyze", "reject"}
    <3>1. \A s \in Sessions : jobs'[s].state = IF s = bg.job THEN "Analyzing" ELSE jobs[s].state
      BY <2>2, MovedStates DEF JobState
    <3> QED
      BY <1>1, <2>1, <2>2, <3>1, HandStep DEF Expected, JobInHand, Settling, Attempt, Ready
  <2>3. CASE bg'.pc = "process" /\ UNCHANGED jobs
    BY <1>1, <2>1, <2>3, ChooseHand DEF Expected, Settling, Attempt
  <2> QED
    BY <2>1, <2>2, <2>3
<1>5. CASE Analyze \/ Build
  <2>1. /\ BgShape' /\ bg'.job = bg.job /\ UNCHANGED <<jobs, package>>
        /\ \/ bg.pc = "analyze" /\ bg'.pc = "analyzed"
           \/ bg.pc = "build" /\ bg'.pc = "built"
    BY <1>5 DEF Analyze, Build, Classify, At, BgShape, persisted
  <2> QED
    BY <1>1, <2>1, HandStep DEF Expected, JobInHand, Settling, Attempt
<1>6. CASE AfterAnalysis \/ AfterBuild
  <2>1. /\ BgShape' /\ bg'.job = bg.job /\ UNCHANGED package
        /\ \/ bg.pc = "analyzed" /\ jobs' = Moved(bg.job, "Building") /\ bg'.pc = "build"
           \/ bg.pc = "analyzed" /\ ~May(bg.job, "Building") /\ UNCHANGED jobs /\ bg'.pc = "process"
           \/ bg.pc \in {"analyzed", "built"} /\ jobs' = Moved(bg.job, "LocalPending") /\ bg'.pc = "process"
           \/ /\ bg.pc \in {"analyzed", "built"} /\ ~May(bg.job, "LocalPending") /\ UNCHANGED jobs
              /\ bg'.pc = "process"
           \/ bg.pc = "built" /\ bg'.pc \in {"package", "reject"} /\ UNCHANGED jobs
    BY <1>6, GotoShape DEF AfterAnalysis, AfterBuild, Advance, At, notJobs
  <2>2. ASSUME NEW t \in {"Building", "LocalPending"}, jobs' = Moved(bg.job, t)
        PROVE  \A s \in Sessions : jobs'[s].state = IF s = bg.job THEN t ELSE jobs[s].state
    BY <2>2, MovedStates DEF JobState
  <2>3. \A s \in Sessions : s = bg.job =>
          /\ ~May(bg.job, "Building") => jobs[s].state # "Analyzing"
          /\ ~May(bg.job, "LocalPending") => jobs[s].state \notin {"Analyzing", "Building"}
    BY MayBy
  <2>4. CASE bg.pc = "analyzed" /\ jobs' = Moved(bg.job, "Building") /\ bg'.pc = "build"
    <3>1. \A s \in Sessions : jobs'[s].state = IF s = bg.job THEN "Building" ELSE jobs[s].state
      BY <2>2, <2>4
    <3> QED
      BY <1>1, <2>1, <2>4, <3>1, HandStep DEF Expected, JobInHand, Settling, Attempt, InWork, Ready
  <2>5. CASE bg.pc \in {"analyzed", "built"} /\ jobs' = Moved(bg.job, "LocalPending") /\ bg'.pc = "process"
    <3>1. \A s \in Sessions : jobs'[s].state = IF s = bg.job THEN "LocalPending" ELSE jobs[s].state
      BY <2>2, <2>5
    <3> QED
      BY <1>1, <2>1, <2>5, <3>1, HandStep DEF Expected, JobInHand, Settling, Attempt, InWork, Ready
  <2>6. CASE /\ bg'.pc = "process" /\ UNCHANGED jobs
             /\ \/ bg.pc = "analyzed" /\ ~May(bg.job, "Building")
                \/ bg.pc \in {"analyzed", "built"} /\ ~May(bg.job, "LocalPending")
    <3>1. \A s \in Sessions : s = bg.job /\ crashes = 0 => jobs[s].state \notin InWork
      BY <2>1, <2>3, <2>6 DEF Expected
    <3> QED
      BY <1>1, <2>1, <2>6, <3>1, HandStep DEF Expected, JobInHand, Settling, Attempt
  <2>7. CASE bg.pc = "built" /\ bg'.pc \in {"package", "reject"} /\ UNCHANGED jobs
    BY <1>1, <2>1, <2>7, HandStep DEF Expected, JobInHand, Settling, Attempt
  <2> QED
    BY <2>1, <2>4, <2>5, <2>6, <2>7
<1>7. CASE WritePackage
  <2>1. /\ BgShape' /\ bg'.job = bg.job /\ bg.pc = "package" /\ bg'.pc = "promote" /\ UNCHANGED jobs
        /\ package' = package \cup {bg.job}
    BY <1>7, GotoShape DEF WritePackage, At
  <2> QED
    BY <1>1, <2>1, HandStep DEF Expected, JobInHand, Settling, Attempt
<1>8. CASE Promote
  <2>1. /\ BgShape' /\ bg'.job = bg.job /\ bg.pc = "promote" /\ bg'.pc = "dropRaw"
        /\ \/ /\ May(bg.job, "Eligible") /\ jobs' = Moved(bg.job, "Eligible") /\ UNCHANGED package
           \/ /\ ~May(bg.job, "Eligible") /\ package' = package \ {bg.job} /\ UNCHANGED jobs
    BY <1>8, GotoShape DEF Promote, At
  <2>2. CASE May(bg.job, "Eligible") /\ jobs' = Moved(bg.job, "Eligible") /\ UNCHANGED package
    <3>1. \A s \in Sessions : jobs'[s].state = IF s = bg.job THEN "Eligible" ELSE jobs[s].state
      BY <2>2, MovedStates DEF JobState
    <3>2. \A s \in Sessions : s = bg.job => jobs[s].state \in {"Building", "Uploading"}
      BY <2>2, MayBy
    <3> QED
      BY <1>1, <2>1, <2>2, <3>1, <3>2, HandStep DEF Expected, JobInHand, Settling, Attempt, InWork, Ready
  <2>3. CASE ~May(bg.job, "Eligible") /\ package' = package \ {bg.job} /\ UNCHANGED jobs
    <3>1. \A s \in Sessions : s = bg.job => jobs[s].state \notin {"Building", "Uploading"}
      BY <2>3, MayBy
    <3>2. \A s \in Sessions : s = bg.job => jobs[s].state \notin Ready
      BY <2>1 DEF JobInHand, Attempt
    <3> QED
      BY <1>1, <2>1, <2>3, <3>1, <3>2, HandStep DEF Expected, JobInHand, Settling, Attempt, InWork, Ready
  <2> QED
    BY <2>1, <2>2, <2>3
<1>9. CASE DropRaw
  <2>1. /\ BgShape' /\ bg'.job = bg.job /\ bg.pc = "dropRaw" /\ bg'.pc = "process"
        /\ UNCHANGED <<jobs, package>>
    BY <1>9, GotoShape DEF DropRaw, At
  <2> QED
    BY <1>1, <2>1, ChooseHand DEF Expected, Settling, Attempt
<1>10. CASE Reject
  <2>1. /\ BgShape' /\ bg'.job = bg.job /\ bg.pc = "reject" /\ bg'.pc = "rejectRaw" /\ UNCHANGED package
        /\ \/ jobs' = Moved(bg.job, "Rejected")
           \/ ~May(bg.job, "Rejected") /\ UNCHANGED jobs
    BY <1>10, GotoShape DEF Reject, At, notJobs
  <2>2. CASE jobs' = Moved(bg.job, "Rejected")
    <3>1. \A s \in Sessions : jobs'[s].state = IF s = bg.job THEN "Rejected" ELSE jobs[s].state
      BY <2>2, MovedStates DEF JobState
    <3> QED
      BY <1>1, <2>1, <3>1, HandStep DEF Expected, JobInHand, Settling, Settled, Terminal, Attempt, InWork, Ready
  <2>3. CASE ~May(bg.job, "Rejected") /\ UNCHANGED jobs
    <3>1. \A s \in Sessions : s = bg.job => jobs[s].state \in Terminal \cup {"none"}
      BY <2>3, MayBy
    <3> QED
      BY <1>1, <2>1, <2>3, <3>1, HandStep DEF Expected, JobInHand, Settling, Settled, Terminal, Attempt, InWork, Ready
  <2> QED
    BY <2>1, <2>2, <2>3
<1>11. CASE RejectRaw
  <2>1. /\ BgShape' /\ bg'.job = bg.job /\ bg.pc = "rejectRaw" /\ bg'.pc = "rejectPackage"
        /\ UNCHANGED <<jobs, package>>
    BY <1>11, GotoShape DEF RejectRaw, At
  <2> QED
    BY <1>1, <2>1, HandStep DEF Expected, JobInHand, Settling, Attempt
<1>12. CASE RejectPackage
  <2>1. /\ BgShape' /\ bg'.job = bg.job /\ bg.pc = "rejectPackage" /\ bg'.pc = "process"
        /\ UNCHANGED jobs /\ package' = package \ {bg.job}
    BY <1>12, GotoShape DEF RejectPackage, At
  <2> QED
    BY <1>1, <2>1, HandStep DEF Expected, JobInHand, Settling, Settled, Terminal, Attempt, InWork, Ready
<1> QED
  BY <1>2, <1>3, <1>4, <1>5, <1>6, <1>7, <1>8, <1>9, <1>10, <1>11, <1>12 DEF Process

\* The next job is taken up, and perhaps put off, but not moved.
LEMMA NextUploadHand == ASSUME HandInv, JobsInv', NextUpload PROVE HandInv'
<1> USE DEF HandInv, JobsInv
<1>1. PICK s \in bg.todo, pc \in {"cancel", "upload", "relock", "send", "finish"} :
        /\ bg' = [bg EXCEPT !.todo = @ \ {s}, !.job = s, !.pc = pc]
        /\ \/ UNCHANGED jobs
           \/ jobs' = [jobs EXCEPT ![s].deferred = TRUE]
  BY DEF NextUpload
<1>2. /\ UNCHANGED <<package, age, crashes>> /\ bg.pc = "upload"
      /\ bg'.pc \in {"cancel", "upload", "relock", "send", "finish"}
  BY <1>1 DEF NextUpload, notJobs, notBg, world, At, BgShape
<1>3. \A u \in Sessions : jobs'[u].state = jobs[u].state
  <2>1. CASE UNCHANGED jobs
    BY <2>1
  <2>2. CASE jobs' = [jobs EXCEPT ![s].deferred = TRUE]
    <3>1. ASSUME s \in Sessions PROVE [jobs[s] EXCEPT !.deferred = TRUE].state = jobs[s].state
      BY <3>1 DEF JobLike
    <3> DEFINE later == [jobs[s] EXCEPT !.deferred = TRUE]
    <3>2. jobs' = [jobs EXCEPT ![s] = later]
      BY <2>2
    <3> HIDE DEF later
    <3> QED
      BY <3>1, <3>2 DEF later
  <2> QED
    BY <1>1, <2>1, <2>2
<1>4. Expected(bg.pc) = {} /\ bg'.pc \notin Settling \cup Attempt \cup {"inFlight", "answered"}
  BY <1>2 DEF Expected, Settling, Attempt
<1> QED
  BY <1>2, <1>3, <1>4, ChooseHand DEF Attempt

\* Steps that leave every job and package alone.
LEMMA IdleHand ==
  ASSUME HandInv, JobsInv',
         BeginTransfer \/ LockForDeletions \/ EndUploads \/ SendDeletion \/ EndCycle
  PROVE  HandInv'
<1> USE DEF HandInv, JobsInv
<1>1. UNCHANGED <<jobs, package, age, crashes>>
  BY DEF BeginTransfer, LockForDeletions, EndUploads, SendDeletion, EndCycle, persisted, notBg, world
<1>2. /\ bg.pc \in {"transfer", "relock", "upload", "deletions"}
      /\ bg'.pc \in {"upload", "deletions", "relock", "rest"}
  <2>1. CASE BeginTransfer \/ LockForDeletions
    BY <2>1 DEF BeginTransfer, LockForDeletions, At, BgShape
  <2>2. CASE EndUploads \/ EndCycle
    BY <2>2, GotoShape DEF EndUploads, EndCycle, At, RestingBg
  <2>3. CASE SendDeletion
    <3>1. PICK scope \in bg.todo : bg' = [bg EXCEPT !.todo = @ \ {scope}]
      BY <2>3 DEF SendDeletion
    <3> QED
      BY <2>3, <3>1 DEF SendDeletion, At, BgShape
  <2> QED
    BY <2>1, <2>2, <2>3
<1>3. Expected(bg.pc) = {} /\ bg'.pc \notin Settling \cup Attempt \cup {"inFlight", "answered"}
  BY <1>2 DEF Expected, Settling, Attempt
<1> QED
  BY <1>1, <1>3, ChooseHand DEF Attempt

LEMMA TransferHand == ASSUME HandInv, JobsInv', Transfer PROVE HandInv'
<1> USE DEF HandInv, JobsInv
<1>1. UNCHANGED <<age, crashes>>
  BY DEF Transfer, BeginTransfer, NextUpload, CancelUpload, FinishRejected, DropPackage, StartUpload, Transmit,
         Acknowledge, RecordReceipt, CountVolume, LateReceipt, RefusedUpload, RetryLater, EndUploads,
         LockForDeletions, SendDeletion, EndCycle, notJobs, notBg, persisted, world
<1>2. CASE NextUpload
  BY <1>2, NextUploadHand
<1>3. CASE BeginTransfer \/ LockForDeletions \/ EndUploads \/ SendDeletion \/ EndCycle
  BY <1>3, IdleHand
<1>4. CASE CancelUpload \/ FinishRejected
  <2>1. /\ BgShape' /\ bg'.job = bg.job /\ bg'.pc = "dropPackage" /\ UNCHANGED package
        /\ \/ jobs' = Moved(bg.job, "Deleted")
           \/ jobs' = Moved(bg.job, "Rejected")
           \/ UNCHANGED jobs /\ (~May(bg.job, "Deleted") \/ ~May(bg.job, "Rejected"))
    BY <1>4, GotoShape DEF CancelUpload, FinishRejected, notJobs
  <2>2. CASE UNCHANGED jobs /\ (~May(bg.job, "Deleted") \/ ~May(bg.job, "Rejected"))
    <3>1. \A s \in Sessions : s = bg.job => jobs[s].state \in Terminal \cup {"none"}
      BY <2>2, MayBy DEF Terminal
    <3> QED
      BY <1>1, <2>1, <2>2, <3>1, HandStep DEF JobInHand, Settling, Settled, Terminal, Attempt, InWork, Ready
  <2>3. ASSUME NEW t \in {"Deleted", "Rejected"}, jobs' = Moved(bg.job, t) PROVE HandInv'
    <3>1. \A s \in Sessions : jobs'[s].state = IF s = bg.job THEN t ELSE jobs[s].state
      <4>1. JobsInv /\ t \in JobState
        BY <2>3 DEF JobState
      <4> HIDE DEF HandInv, JobsInv
      <4> QED
        BY <2>3, <4>1, MovedStates
    <3> QED
      BY <1>1, <2>1, <3>1, HandStep DEF JobInHand, Settling, Settled, Terminal, Attempt, InWork, Ready
  <2> QED
    BY <2>1, <2>2, <2>3
<1>5. CASE DropPackage
  <2>1. /\ BgShape' /\ bg'.job = bg.job /\ bg.pc = "dropPackage" /\ bg'.pc = "upload"
        /\ UNCHANGED jobs /\ package' = package \ {bg.job}
    BY <1>5, GotoShape DEF DropPackage, At
  <2> QED
    BY <1>1, <2>1, HandStep DEF Expected, JobInHand, Settling, Settled, Terminal, Attempt, InWork, Ready
<1>6. CASE StartUpload
  <2>1. /\ BgShape' /\ bg'.job = bg.job /\ bg.pc = "send" /\ UNCHANGED package
        /\ \/ /\ May(bg.job, "Uploading") /\ bg'.pc = "inFlight"
              /\ jobs' = [Moved(bg.job, "Uploading") EXCEPT ![bg.job].attempts = @ + 1]
           \/ bg'.pc = "relock" /\ UNCHANGED jobs
    BY <1>6, GotoShape DEF StartUpload, At, notJobs
  <2>2. CASE bg'.pc = "relock" /\ UNCHANGED jobs
    BY <1>1, <2>1, <2>2, HandStep DEF Expected, JobInHand, Settling, Attempt
  <2>3. CASE /\ May(bg.job, "Uploading") /\ bg'.pc = "inFlight"
             /\ jobs' = [Moved(bg.job, "Uploading") EXCEPT ![bg.job].attempts = @ + 1]
    <3>1. \A s \in Sessions : jobs'[s].state = IF s = bg.job THEN "Uploading" ELSE jobs[s].state
      BY <2>3, MovedStates DEF JobState
    <3>2. \A s \in Sessions : s = bg.job => jobs[s].state = "Eligible"
      BY <2>3, MayBy
    <3> QED
      BY <1>1, <2>1, <2>3, <3>1, <3>2, HandStep DEF Expected, JobInHand, Settling, Attempt, InWork, Ready
  <2> QED
    BY <2>1, <2>2, <2>3
<1>7. CASE Transmit \/ RefusedUpload
  <2>1. /\ bg'.job = bg.job /\ UNCHANGED <<jobs, package>>
        /\ \/ bg.pc = "inFlight" /\ bg'.pc = "answered"
           \/ bg.pc = "answered" /\ bg'.pc = "finish"
    BY <1>7, GotoShape DEF Transmit, RefusedUpload, At, BgShape, persisted
  <2> QED
    BY <1>1, <2>1, HandStep DEF Expected, JobInHand, Settling, Attempt
<1>8. CASE Acknowledge
  <2>1. /\ BgShape' /\ bg'.job = bg.job /\ bg.pc = "answered" /\ UNCHANGED package
        /\ \/ jobs' = Moved(bg.job, "Acknowledged") /\ bg'.pc = "record"
           \/ ~May(bg.job, "Acknowledged") /\ UNCHANGED jobs /\ bg'.pc = "late"
    BY <1>8, GotoShape DEF Acknowledge, At
  <2>2. CASE jobs' = Moved(bg.job, "Acknowledged") /\ bg'.pc = "record"
    <3>1. \A s \in Sessions : jobs'[s].state = IF s = bg.job THEN "Acknowledged" ELSE jobs[s].state
      BY <2>2, MovedStates DEF JobState
    <3> QED
      BY <1>1, <2>1, <2>2, <3>1, HandStep DEF JobInHand, Settling, Settled, Terminal, Attempt, InWork, Ready
  <2>3. CASE ~May(bg.job, "Acknowledged") /\ UNCHANGED jobs /\ bg'.pc = "late"
    <3>1. \A s \in Sessions : s = bg.job /\ crashes = 0 => jobs[s].state \notin InWork
      BY <2>1, <2>3, MayBy DEF Expected
    <3> QED
      BY <1>1, <2>1, <2>3, <3>1, HandStep DEF Expected, JobInHand, Settling, Attempt
  <2> QED
    BY <2>1, <2>2, <2>3
<1>9. CASE RecordReceipt \/ CountVolume
  <2>1. /\ BgShape' /\ bg'.job = bg.job /\ UNCHANGED <<jobs, package>>
        /\ \/ bg.pc = "record" /\ bg'.pc = "count"
           \/ bg.pc = "count" /\ bg'.pc = "dropPackage"
    BY <1>9, GotoShape DEF RecordReceipt, CountVolume, At
  <2> QED
    BY <1>1, <2>1, HandStep DEF Expected, JobInHand, Settling, Attempt
<1>10. CASE LateReceipt
  <2>1. BgShape' /\ bg'.job = bg.job /\ bg.pc = "late" /\ bg'.pc = "upload" /\ UNCHANGED <<jobs, package>>
    BY <1>10, GotoShape DEF LateReceipt, At
  <2> QED
    BY <1>1, <2>1, HandStep DEF Expected, JobInHand, Settling, Attempt
<1>11. CASE RetryLater
  <2>1. /\ BgShape' /\ bg'.job = bg.job /\ bg.pc = "answered" /\ bg'.pc = "upload" /\ UNCHANGED package
        /\ \/ /\ May(bg.job, "Eligible")
              /\ jobs' = [Moved(bg.job, "Eligible") EXCEPT ![bg.job].deferred = TRUE]
           \/ ~May(bg.job, "Eligible") /\ UNCHANGED jobs
    BY <1>11, GotoShape DEF RetryLater, At, notJobs
  <2>2. CASE /\ May(bg.job, "Eligible")
             /\ jobs' = [Moved(bg.job, "Eligible") EXCEPT ![bg.job].deferred = TRUE]
    <3>1. \A s \in Sessions : jobs'[s].state = IF s = bg.job THEN "Eligible" ELSE jobs[s].state
      BY <2>2, MovedStates DEF JobState
    <3>2. \A s \in Sessions : s = bg.job => jobs[s].state = "Uploading"
      BY <2>1, <2>2, MayBy DEF JobInHand
    <3> QED
      BY <1>1, <2>1, <3>1, <3>2, HandStep DEF JobInHand, Settling, Attempt, InWork, Ready
  <2>3. CASE ~May(bg.job, "Eligible") /\ UNCHANGED jobs
    <3>1. \A s \in Sessions : s = bg.job /\ crashes = 0 => jobs[s].state \notin InWork
      BY <2>1, <2>3, MayBy DEF Expected
    <3> QED
      BY <1>1, <2>1, <2>3, <3>1, HandStep DEF JobInHand, Settling, Attempt
  <2> QED
    BY <2>1, <2>2, <2>3
<1> QED
  BY <1>2, <1>3, <1>4, <1>5, <1>6, <1>7, <1>8, <1>9, <1>10, <1>11 DEF Transfer

\* Everyone else can only add a job, or take one away and its package with it.
LEMMA Bystander ==
  ASSUME HandInv, JobsInv', UNCHANGED <<bg, crashes>>, age' \in [Sessions -> {"fresh", "day", "week"}],
         \A s \in Sessions :
           /\ age'[s] # "week" => age[s] # "week"
           /\ \/ jobs'[s].state = jobs[s].state /\ (s \in package => s \in package')
              \/ jobs'[s].state = "Deleted"
              \/ jobs[s].state = "none" /\ jobs'[s].state = "LocalPending"
  PROVE  HandInv'
<1>1. \A s \in Sessions : jobs'[s].state \in InWork \cup Ready
                            => jobs'[s].state = jobs[s].state /\ (s \in package => s \in package')
  BY DEF InWork, Ready
<1>2. ASSUME NEW s \in Sessions, s = bg.job PROVE JobInHand(s)'
  <2>1. JobInHand(s) /\ UNCHANGED bg
    BY <1>2 DEF HandInv
  <2>2. bg.pc \in Settling => jobs'[s].state \in Settled
    BY <2>1 DEF JobInHand, Settled, Terminal
  <2> QED
    BY <1>1, <2>1, <2>2 DEF JobInHand, InWork
<1>3. \A s \in Sessions : crashes' = 0 /\ jobs'[s].state \in InWork
                            => s = bg'.job /\ jobs'[s].state \in Expected(bg'.pc)
  BY <1>1 DEF HandInv
<1>4. \A s \in Sessions : jobs'[s].state \in Ready /\ age'[s] # "week" => s \in package'
  BY <1>1 DEF HandInv
<1> QED
  BY <1>2, <1>3, <1>4 DEF HandInv

LEMMA OthersHand == ASSUME HandInv, JobsInv', Controller \/ Command \/ Environment PROVE HandInv'
<1> USE DEF HandInv, JobsInv
<1>1. CASE Controller
  <2>1. UNCHANGED <<bg, crashes, age, package>>
    BY <1>1 DEF Controller, StartDictation, EndDictation, ReadOptOut, LockSessions, StoreSession, InsertJob,
                persisted, world
  <2>2. CASE UNCHANGED jobs
    BY <2>1, <2>2, Bystander
  <2>3. CASE InsertJob
    <3>1. ctl.session \in Sessions /\ jobs[ctl.session].state = "none"
      BY <2>3 DEF InsertJob, BegunOnce
    <3> DEFINE inserted == [NoJob EXCEPT !.state = "LocalPending", !.consent = Len(consents)]
    <3>2. inserted.state = "LocalPending"
      BY DEF NoJob
    <3>3. jobs' = [jobs EXCEPT ![ctl.session] = inserted]
      BY <2>3 DEF InsertJob
    <3>4. DOMAIN jobs = Sessions
      OBVIOUS
    <3> HIDE DEF inserted, HandInv, JobsInv
    <3>5. \A s \in Sessions : IF s = ctl.session THEN jobs'[s] = inserted ELSE jobs'[s] = jobs[s]
      BY <3>3, <3>4
    <3>6. \A s \in Sessions : \/ jobs'[s] = jobs[s]
                              \/ jobs[s].state = "none" /\ jobs'[s].state = "LocalPending"
      BY <3>1, <3>2, <3>5
    <3> QED
      BY <2>1, <3>6, Bystander DEF HandInv
  <2> QED
    BY <1>1, <2>2, <2>3 DEF Controller, StartDictation, EndDictation, ReadOptOut, LockSessions, StoreSession,
                            persisted, world
<1>2. CASE Command
  <2>1. UNCHANGED <<bg, crashes, age>>
    BY <1>2 DEF Command, Grant, RegisterGrant, SetPaused, BeginWithdraw, Revoke, BeginDeletion, CancelAllJobs,
         DropCancelledRaw, NotifyServer, RequestDeletion, OptOut, OptOutQueue, OptOutRaw, notUi
  <2>2. CASE CancelAllJobs \/ OptOutQueue
    <3>1. PICK out \in SUBSET In(Cancellable) :
            /\ jobs' = [s \in Sessions |-> IF s \in out THEN [jobs[s] EXCEPT !.state = "Deleted"] ELSE jobs[s]]
            /\ package' = package \ out
      BY <2>2 DEF CancelAllJobs, OptOutQueue, In
    <3>2. \A s \in Sessions : IF s \in out THEN jobs'[s].state = "Deleted"
                               ELSE jobs'[s] = jobs[s] /\ (s \in package => s \in package')
      BY <3>1 DEF JobLike
    <3> QED
      BY <2>1, <3>2, Bystander
  <2>3. CASE UNCHANGED <<jobs, package>>
    BY <2>1, <2>3, Bystander
  <2> QED
    BY <1>2, <2>2, <2>3 DEF Command, Grant, RegisterGrant, SetPaused, BeginWithdraw, Revoke, BeginDeletion,
         DropCancelledRaw, NotifyServer, RequestDeletion, OptOut, OptOutRaw, persisted
<1>3. CASE ConsentExpires \/ Midnight
  BY <1>3, Bystander DEF ConsentExpires, Midnight, notTime
<1>4. ASSUME NEW s \in Sessions, Grow(s) PROVE HandInv'
  <2>1. /\ age[s] # "week" /\ UNCHANGED <<bg, crashes, jobs, package>>
        /\ age' = [age EXCEPT ![s] = IF @ = "fresh" THEN "day" ELSE "week"]
    BY <1>4 DEF Grow, notTime
  <2>2. /\ age' \in [Sessions -> {"fresh", "day", "week"}]
        /\ \A u \in Sessions : age'[u] # "week" => age[u] # "week"
    BY <2>1
  <2> QED
    BY <2>1, <2>2, Bystander
<1>5. CASE Crash
  <2>1. UNCHANGED <<jobs, package, age>> /\ crashes' = crashes + 1 /\ bg' = RestingBg
    BY <1>5 DEF Crash, persisted
  <2>2. crashes' \in Nat /\ crashes' # 0 /\ bg'.pc = "rest"
    BY <2>1 DEF RestingBg
  <2> QED
    BY <2>1, <2>2 DEF JobInHand, Settling, Attempt
<1> QED
  BY <1>1, <1>2, <1>3, <1>4, <1>5 DEF Environment

LEMMA HandStart == Init => HandInv
<1> SUFFICES ASSUME Init PROVE HandInv
  OBVIOUS
<1>1. JobsInv
  BY JobsStart
<1>2. \A s \in Sessions : jobs[s].state = "none"
  BY DEF Init, NoJob
<1>3. crashes = 0 /\ age \in [Sessions -> {"fresh", "day", "week"}] /\ bg.pc = "rest"
  BY DEF Init, RestingBg
<1> QED
  BY <1>1, <1>2, <1>3 DEF HandInv, JobInHand, InWork, Ready, Settling, Attempt

LEMMA HandSteps == HandInv /\ [Next]_vars => HandInv'
<1> SUFFICES ASSUME HandInv, [Next]_vars PROVE HandInv'
  OBVIOUS
<1>1. JobsInv'
  BY JobSteps DEF HandInv
<1>2. CASE UNCHANGED vars
  <2>1. UNCHANGED <<jobs, package, age, crashes, bg>>
    BY <1>2 DEF vars, persisted, world
  <2> QED
    BY <1>1, <2>1, Bystander DEF HandInv
<1> QED
  BY <1>1, <1>2, CleanupHand, ProcessHand, TransferHand, OthersHand DEF Next, Background

\* Every way through process_next_job and upload_job gives the job back: until the
\* process ends, no job stays marked as being analyzed, built or uploaded unless it
\* is the one the background thread is at work on.
THEOREM WorkStaysInHand == Spec => []WorkInHand
<1>1. HandInv => WorkInHand
  BY DEF HandInv, WorkInHand, In, InWork, Expected
<1> QED
  BY HandStart, HandSteps, <1>1, PTL DEF Spec

\* Neither a crash nor a cancellation leaves a job up for upload whose package was
\* not written, or was deleted before it expired.
THEOREM ReadyHasPackage == Spec => []EligibleHasPackage
<1>1. HandInv => EligibleHasPackage
  BY DEF HandInv, EligibleHasPackage, In, Ready
<1> QED
  BY HandStart, HandSteps, <1>1, PTL DEF Spec

-----------------------------------------------------------------------------
(* Sent under consent, on the desktop                                       *)

\* The places of the background thread where it does not hold the queue's mutex, or
\* only waits for it.
Loose == {"rest", "cleanScopes", "expire", "process", "transfer", "relock"}

\* What recheck found is still so: the job's consent is the last one, and the user has
\* neither paused nor revoked it.
Covered(s) ==
  jobs[s].consent = Len(consents) /\ Len(consents) > 0 /\ consents[Len(consents)] \in {"active", "expired"}

SameConsents == \A s \in Sessions : jobs'[s].consent = jobs[s].consent

\* Only the last grant can be unrevoked; a job carries a grant its session began under;
\* and nobody grants, pauses or revokes between the check and the enqueueing of a
\* session, or between recheck and the transfer, as the mutex is held.
ConsentInv ==
  /\ JobsInv /\ began \in [Sessions -> 0..NotBegun]
  /\ \A c \in 1..Len(consents) : c # Len(consents) => consents[c] = "revoked"
  /\ \A s \in Sessions : /\ jobs[s].consent <= Len(consents)
                         /\ jobs[s].consent > 0 => began[s] \in jobs[s].consent..MaxGrants
  /\ ctl.pc = "insert" => /\ lock = "controller" /\ Len(consents) > 0
                          /\ began[ctl.session] \in Len(consents)..MaxGrants
  /\ bg.pc \notin Loose => lock = "background"
  /\ bg.pc \in {"send", "inFlight"} => \A s \in Sessions : s = bg.job => Covered(s)

LEMMA MovedConsents ==
  ASSUME JobsInv, NEW j, NEW t,
         \/ jobs' = Moved(j, t)
         \/ jobs' = [Moved(j, t) EXCEPT ![j].attempts = @ + 1]
         \/ jobs' = [Moved(j, t) EXCEPT ![j].deferred = TRUE]
         \/ jobs' = [jobs EXCEPT ![j].deferred = TRUE]
  PROVE  SameConsents
<1>1. jobs \in [Sessions -> JobLike]
  BY DEF JobsInv
<1>2. CASE j \in Sessions
  <2> DEFINE moved == [jobs[j] EXCEPT !.state = t]
  <2>1. DOMAIN moved = {"state", "consent", "attempts", "deferred"} /\ moved.consent = jobs[j].consent
    BY <1>1, <1>2 DEF JobLike
  <2>2. \/ jobs' = [jobs EXCEPT ![j] = moved]
        \/ jobs' = [jobs EXCEPT ![j] = [moved EXCEPT !.attempts = @ + 1]]
        \/ jobs' = [jobs EXCEPT ![j] = [moved EXCEPT !.deferred = TRUE]]
        \/ jobs' = [jobs EXCEPT ![j] = [jobs[j] EXCEPT !.deferred = TRUE]]
    BY <1>1, <1>2 DEF Moved
  <2> HIDE DEF moved
  <2>3. /\ [moved EXCEPT !.attempts = @ + 1].consent = jobs[j].consent
        /\ [moved EXCEPT !.deferred = TRUE].consent = jobs[j].consent
        /\ [jobs[j] EXCEPT !.deferred = TRUE].consent = jobs[j].consent
    BY <1>1, <1>2, <2>1 DEF JobLike
  <2>4. PICK next : next.consent = jobs[j].consent /\ jobs' = [jobs EXCEPT ![j] = next]
    BY <2>1, <2>2, <2>3
  <2> QED
    BY <1>1, <1>2, <2>4 DEF SameConsents
<1>3. CASE j \notin Sessions
  BY <1>1, <1>3 DEF Moved, SameConsents
<1> QED
  BY <1>2, <1>3

\* Jobs may have moved, but not to another consent, and nobody else has.
LEMMA ConsentFrame ==
  ASSUME ConsentInv, JobsInv', UNCHANGED <<consents, began>>, SameConsents,
         ctl'.pc = "insert" => /\ ctl.pc = "insert" /\ ctl'.session = ctl.session
                               /\ lock' = "controller",
         bg'.pc \notin Loose => lock' = "background",
         bg'.pc \in {"send", "inFlight"} => bg.pc \in {"send", "inFlight"} /\ bg'.job = bg.job
  PROVE  ConsentInv'
BY DEF ConsentInv, SameConsents, Covered

\* The thread keeps the mutex, or takes it when it is free, or gives it back.
Keeps   == UNCHANGED lock /\ (bg.pc \in Loose => bg'.pc \in Loose)
Takes   == lock = "free" /\ lock' = "background"
Returns == bg.pc \notin Loose /\ bg'.pc \in Loose /\ lock' = "free"

LEMMA BackgroundFrame ==
  ASSUME ConsentInv, JobsInv', Keeps \/ Takes \/ Returns, UNCHANGED <<consents, began, ctl>>, SameConsents,
         bg'.pc \in {"send", "inFlight"} => bg.pc \in {"send", "inFlight"} /\ bg'.job = bg.job
  PROVE  ConsentInv'
<1>1. ctl'.pc = "insert" => /\ ctl.pc = "insert" /\ ctl'.session = ctl.session /\ lock' = "controller"
  BY DEF ConsentInv, Keeps, Takes, Returns
<1>2. bg'.pc \notin Loose => lock' = "background"
  BY DEF ConsentInv, Keeps, Takes, Returns
<1> QED
  BY <1>1, <1>2, ConsentFrame

LEMMA ProcessConsent == ASSUME ConsentInv, JobsInv', Exclusive, Cleanup \/ Process PROVE ConsentInv'
<1> USE DEF ConsentInv
<1>1. UNCHANGED <<consents, began, ctl>>
  BY DEF Cleanup, Process, Wake, CleanScopes, ExpireJobs, StopProcessing, PickJob, ClaimJob, Analyze,
         AfterAnalysis, Build, AfterBuild, WritePackage, Promote, DropRaw, Reject, RejectRaw, RejectPackage,
         Classify, notJobs, notBg, persisted, world
<1>2. BgShape
  BY DEF JobsInv
<1>3. SameConsents
  <2>1. \/ UNCHANGED jobs
        \/ \E t : jobs' = Moved(bg.job, t)
        \/ ExpireJobs
    BY DEF Cleanup, Process, Wake, CleanScopes, StopProcessing, PickJob, ClaimJob, Analyze,
           AfterAnalysis, Build, AfterBuild, WritePackage, Promote, DropRaw, Reject, RejectRaw, RejectPackage,
           Classify, Advance, notJobs, persisted
  <2>2. CASE ExpireJobs
    BY <2>2 DEF ExpireJobs, JobsInv, JobLike, SameConsents
  <2> QED
    BY <2>1, <2>2, MovedConsents DEF SameConsents
<1>4. CASE Cleanup \/ StopProcessing
  <2>1. UNCHANGED lock /\ bg'.pc \in {"rest", "cleanScopes", "expire", "process", "transfer"}
    BY <1>2, <1>4, GotoShape DEF Cleanup, Wake, CleanScopes, ExpireJobs, StopProcessing
  <2> QED
    BY <1>1, <1>3, <2>1, BackgroundFrame DEF Keeps, Loose
<1>5. CASE PickJob
  <2>1. lock = "free" /\ lock' = "background" /\ bg'.pc \in {"claim", "reject"}
    BY <1>2, <1>5 DEF PickJob, QueueFree, Hold, BgShape
  <2> QED
    BY <1>1, <1>3, <2>1, BackgroundFrame DEF Takes
<1>6. CASE ClaimJob \/ AfterAnalysis \/ AfterBuild
  <2>1. /\ bg.pc \in {"claim", "analyzed", "built"}
        /\ \/ bg'.pc \in {"analyze", "build", "package", "reject"} /\ UNCHANGED lock
           \/ bg'.pc = "process" /\ lock' = "free"
    BY <1>2, <1>6, GotoShape DEF ClaimJob, AfterAnalysis, AfterBuild, Advance, Unlock, At
  <2> QED
    BY <1>1, <1>3, <2>1, BackgroundFrame DEF Keeps, Returns, Loose
<1>7. CASE Analyze \/ Build
  <2>1. bg.pc \in {"analyze", "build"} /\ bg'.pc \in {"analyzed", "built"} /\ UNCHANGED lock
    BY <1>2, <1>7 DEF Analyze, Build, Classify, At, BgShape
  <2> QED
    BY <1>1, <1>3, <2>1, BackgroundFrame DEF Keeps, Loose
<1>8. CASE WritePackage \/ Promote \/ Reject \/ RejectRaw
  <2>1. /\ bg.pc \in {"package", "promote", "reject", "rejectRaw"} /\ UNCHANGED lock
        /\ bg'.pc \in {"promote", "dropRaw", "rejectRaw", "rejectPackage"}
    BY <1>2, <1>8, GotoShape DEF WritePackage, Promote, Reject, RejectRaw, At
  <2> QED
    BY <1>1, <1>3, <2>1, BackgroundFrame DEF Keeps, Loose
<1>9. CASE DropRaw \/ RejectPackage
  <2>1. bg.pc \in {"dropRaw", "rejectPackage"} /\ bg'.pc = "process" /\ lock' = "free"
    BY <1>2, <1>9, GotoShape DEF DropRaw, RejectPackage, Unlock, At
  <2> QED
    BY <1>1, <1>3, <2>1, BackgroundFrame DEF Returns, Loose
<1> QED
  BY <1>4, <1>5, <1>6, <1>7, <1>8, <1>9 DEF Process

\* recheck finds the job's consent to be the last one, which the user has not revoked.
LEMMA NextUploadConsent == ASSUME ConsentInv, JobsInv', NextUpload PROVE ConsentInv'
<1> USE DEF ConsentInv
<1>1. PICK s \in bg.todo, pc \in {"cancel", "upload", "relock", "send", "finish"} :
        /\ bg' = [bg EXCEPT !.todo = @ \ {s}, !.job = s, !.pc = pc]
        /\ pc = "send" => Permits(consents, jobs[s].consent) /\ UNCHANGED jobs
        /\ \/ UNCHANGED jobs
           \/ jobs' = [jobs EXCEPT ![s].deferred = TRUE]
  BY DEF NextUpload
<1>2. /\ UNCHANGED <<consents, began, ctl, lock>> /\ bg.pc = "upload"
      /\ bg'.pc = pc /\ bg'.job = s
  BY <1>1 DEF NextUpload, notJobs, notBg, world, At, JobsInv, BgShape
<1>3. SameConsents
  BY <1>1, MovedConsents DEF SameConsents
<1>4. lock = "background"
  BY <1>2 DEF Loose
<1>5. CASE pc # "send"
  <2>1. bg'.pc \notin {"send", "inFlight"}
    BY <1>1, <1>2, <1>5
  <2>2. ctl.pc # "insert"
    BY <1>4
  <2> QED
    BY <1>2, <1>3, <1>4, <2>1, <2>2, ConsentFrame
<1>6. CASE pc = "send"
  <2>1. ASSUME NEW u \in Sessions, u = bg'.job PROVE Covered(u)'
    <3>1. u = s /\ jobs[s].consent > 0 /\ consents[jobs[s].consent] = "active"
      BY <1>1, <1>2, <1>6, <2>1 DEF Permits
    <3>2. s \in Sessions /\ jobs[s].consent <= Len(consents)
      BY <2>1, <3>1
    <3>3. jobs[s].consent \in 1..Len(consents)
      <4>1. jobs[s] \in JobLike
        BY <3>2 DEF JobsInv
      <4>2. jobs[s].consent \in Nat
        BY <4>1 DEF JobLike
      <4>3. consents \in Seq(ConsentStatus)
        BY DEF JobsInv
      <4> HIDE DEF ConsentInv
      <4> QED
        BY <3>1, <3>2, <4>2, <4>3
    <3>4. jobs[s].consent = Len(consents)
      BY <3>1, <3>3
    <3> QED
      BY <1>1, <1>2, <1>6, <3>1, <3>3, <3>4 DEF Covered
  <2> QED
    BY <1>1, <1>2, <1>4, <1>6, <2>1
<1> QED
  BY <1>5, <1>6

LEMMA TransferConsent == ASSUME ConsentInv, JobsInv', Exclusive, Transfer PROVE ConsentInv'
<1> USE DEF ConsentInv
<1>1. UNCHANGED <<consents, began, ctl>>
  BY DEF Transfer, BeginTransfer, NextUpload, CancelUpload, FinishRejected, DropPackage, StartUpload, Transmit,
         Acknowledge, RecordReceipt, CountVolume, LateReceipt, RefusedUpload, RetryLater, EndUploads,
         LockForDeletions, SendDeletion, EndCycle, notJobs, notBg, persisted, world
<1>2. BgShape
  BY DEF JobsInv
<1>3. CASE NextUpload
  BY <1>3, NextUploadConsent
<1>4. CASE BeginTransfer \/ LockForDeletions
  <2>1. lock = "free" /\ lock' = "background" /\ bg'.pc \in {"upload", "deletions"} /\ UNCHANGED jobs
    BY <1>2, <1>4 DEF BeginTransfer, LockForDeletions, QueueFree, Hold, BgShape, persisted
  <2> QED
    BY <1>1, <2>1, BackgroundFrame DEF Takes, SameConsents
<1>5. CASE EndUploads \/ EndCycle
  <2>1. /\ bg.pc \in {"upload", "deletions"} /\ bg'.pc \in {"relock", "rest"} /\ UNCHANGED jobs
        /\ UNCHANGED lock \/ lock' = "free"
    BY <1>2, <1>5, GotoShape DEF EndUploads, EndCycle, RestingBg, Unlock, At, persisted
  <2> QED
    BY <1>1, <2>1, BackgroundFrame DEF Keeps, Returns, Loose, SameConsents
<1>6. CASE SendDeletion
  <2>1. PICK scope \in bg.todo : bg' = [bg EXCEPT !.todo = @ \ {scope}]
    BY <1>6 DEF SendDeletion
  <2>2. bg.pc = "deletions" /\ bg'.pc = "deletions" /\ UNCHANGED <<jobs, lock>>
    BY <1>2, <1>6, <2>1 DEF SendDeletion, At, BgShape
  <2> QED
    BY <1>1, <2>2, BackgroundFrame DEF Keeps, Loose, SameConsents
<1>7. CASE StartUpload
  <2>1. /\ bg.pc = "send" /\ bg'.pc \in {"inFlight", "relock"} /\ bg'.job = bg.job /\ UNCHANGED lock
        /\ UNCHANGED jobs \/ jobs' = [Moved(bg.job, "Uploading") EXCEPT ![bg.job].attempts = @ + 1]
    BY <1>2, <1>7, GotoShape DEF StartUpload, At, notJobs
  <2>2. SameConsents
    BY <2>1, MovedConsents DEF SameConsents
  <2> QED
    BY <1>1, <2>1, <2>2, BackgroundFrame DEF Keeps, Loose
<1>8. CASE \/ CancelUpload \/ FinishRejected \/ DropPackage \/ Transmit \/ Acknowledge \/ RecordReceipt
           \/ CountVolume \/ LateReceipt \/ RefusedUpload \/ RetryLater
  <2>1. /\ bg.pc \in {"cancel", "finish", "dropPackage", "inFlight", "answered", "record", "count", "late"}
        /\ bg'.pc \in {"dropPackage", "upload", "answered", "record", "late", "count", "finish"}
        /\ UNCHANGED lock
    <3>1. CASE Transmit
      BY <1>2, <3>1 DEF Transmit, At, BgShape
    <3>2. CASE ~Transmit
      BY <1>2, <1>8, <3>2, GotoShape DEF CancelUpload, FinishRejected, DropPackage, Acknowledge,
           RecordReceipt, CountVolume, LateReceipt, RefusedUpload, RetryLater, At, persisted
    <3> QED
      BY <3>1, <3>2
  <2>2. SameConsents
    <3>1. \/ UNCHANGED jobs
          \/ \E t : jobs' = Moved(bg.job, t)
          \/ jobs' = [Moved(bg.job, "Eligible") EXCEPT ![bg.job].deferred = TRUE]
      BY <1>8 DEF CancelUpload, FinishRejected, DropPackage, Transmit, Acknowledge,
           RecordReceipt, CountVolume, LateReceipt, RefusedUpload, RetryLater, persisted
    <3> QED
      BY <3>1, MovedConsents DEF SameConsents
  <2> QED
    BY <1>1, <2>1, <2>2, BackgroundFrame DEF Keeps, Loose
<1> QED
  BY <1>3, <1>4, <1>5, <1>6, <1>7, <1>8 DEF Transfer

\* A status has changed, of the last grant or to "revoked".
LEMMA StatusConsent ==
  ASSUME ConsentInv, JobsInv', NEW c, NEW status \in ConsentStatus, consents' = [consents EXCEPT ![c] = status],
         c = Len(consents) \/ status = "revoked",
         UNCHANGED <<jobs, began, ctl, bg, lock>>, lock = "free" \/ status = "expired"
  PROVE  ConsentInv'
<1>1. consents \in Seq(ConsentStatus)
  BY DEF ConsentInv, JobsInv
<1>2. /\ Len(consents') = Len(consents) /\ Len(consents) \in Nat
      /\ \A d \in 1..Len(consents) : consents'[d] = IF d = c THEN status ELSE consents[d]
  BY <1>1, StatusChanges
<1>3. \A d \in 1..Len(consents') : d # Len(consents') => consents'[d] = "revoked"
  BY <1>2 DEF ConsentInv
<1>4. ASSUME bg'.pc \in {"send", "inFlight"}, NEW s \in Sessions, s = bg'.job PROVE Covered(s)'
  <2>1. Covered(s) /\ lock = "background"
    BY <1>4 DEF ConsentInv, Loose
  <2>2. Len(consents) \in 1..Len(consents) /\ status = "expired"
    BY <1>2, <2>1 DEF Covered
  <2>3. consents'[Len(consents)] \in {"active", "expired"}
    BY <1>2, <2>1, <2>2 DEF Covered
  <2> QED
    BY <1>2, <2>1, <2>3 DEF Covered
<1> QED
  BY <1>2, <1>3, <1>4 DEF ConsentInv

LEMMA ControllerConsent == ASSUME ConsentInv, JobsInv', Exclusive, Controller PROVE ConsentInv'
<1>1. ASSUME NEW s \in Sessions, StartDictation(s) PROVE ConsentInv'
  <2>1. /\ ctl'.pc = "dictating" /\ began[s] = NotBegun
        /\ began' = [began EXCEPT ![s] = Len(consents)] /\ UNCHANGED <<consents, jobs, bg, lock>>
    BY <1>1 DEF StartDictation, persisted, ConsentInv, JobsInv, CtlShape
  <2>2. Len(consents) \in 0..MaxGrants /\ NotBegun = MaxGrants + 1
    BY DEF ConsentInv, JobsInv, NotBegun
  <2>3. jobs[s].consent \in Nat /\ ~(jobs[s].consent > 0)
    BY <2>1, <2>2 DEF ConsentInv, JobsInv, JobLike
  <2>4. /\ began' \in [Sessions -> 0..NotBegun]
        /\ \A u \in Sessions : u # s => began'[u] = began[u]
    BY <2>1, <2>2 DEF ConsentInv
  <2> QED
    BY <2>1, <2>3, <2>4 DEF ConsentInv, Covered
<1>2. CASE EndDictation \/ ReadOptOut \/ LockSessions
  <2>1. UNCHANGED <<consents, jobs, began, bg, lock>>
    BY <1>2 DEF EndDictation, ReadOptOut, LockSessions, persisted, world
  <2>2. ctl'.pc # "insert"
    <3>1. CASE EndDictation
      BY <3>1 DEF EndDictation, RestingCtl, ConsentInv, JobsInv, CtlShape
    <3>2. CASE ReadOptOut
      BY <3>2 DEF ReadOptOut, ConsentInv, JobsInv, CtlShape
    <3>3. CASE LockSessions
      BY <3>3 DEF LockSessions, ConsentInv, JobsInv, CtlShape
    <3> QED
      BY <1>2, <3>1, <3>2, <3>3
  <2> QED
    BY <2>1, <2>2, ConsentFrame DEF SameConsents, ConsentInv
<1>3. CASE StoreSession
  <2>1. lock = "free" /\ UNCHANGED <<consents, jobs, began, bg>> /\ ctl.pc = "locked"
    BY <1>3 DEF StoreSession, QueueFree, world
  <2>2. bg.pc \in Loose
    BY <2>1 DEF ConsentInv
  <2>3. CASE ctl' = RestingCtl /\ UNCHANGED lock
    BY <2>1, <2>2, <2>3, ConsentFrame DEF SameConsents, ConsentInv, RestingCtl, Loose
  <2>4. CASE /\ ConsentFor(consents, began[ctl.session], ctl.optedOut) # 0
             /\ ctl' = [ctl EXCEPT !.pc = "insert"] /\ lock' = "controller"
    <3>1. ctl'.pc = "insert" /\ ctl'.session = ctl.session
      BY <2>4 DEF ConsentInv, JobsInv, CtlShape
    <3>2. /\ ctl.session \in Sessions /\ began[ctl.session] # NotBegun
          /\ began[ctl.session] \in 0..(MaxGrants + 1) /\ NotBegun = MaxGrants + 1
      BY <2>1 DEF ConsentInv, JobsInv, BegunOnce, NotBegun
    <3>3. Current(consents) > 0 /\ began[ctl.session] >= Current(consents)
      BY <2>4 DEF ConsentFor, Permits
    <3>4. Current(consents) = Len(consents)
      BY <3>3 DEF Current
    <3>5. Len(consents) \in Nat
      BY DEF ConsentInv, JobsInv
    <3>6. Len(consents) > 0 /\ began[ctl.session] \in Len(consents)..MaxGrants
      BY <3>2, <3>3, <3>4, <3>5
    <3> QED
      BY <2>1, <2>2, <2>4, <3>1, <3>6 DEF ConsentInv, Loose
  <2> QED
    BY <1>3, <2>3, <2>4 DEF StoreSession, Hold
<1>4. CASE InsertJob
  <2> DEFINE inserted == [NoJob EXCEPT !.state = "LocalPending", !.consent = Len(consents)]
  <2>1. /\ ctl.pc = "insert" /\ ctl'.pc = "idle" /\ lock' = "free" /\ UNCHANGED <<consents, began, bg>>
        /\ jobs' = [jobs EXCEPT ![ctl.session] = inserted]
    BY <1>4 DEF InsertJob, RestingCtl, Unlock, world
  <2>2. inserted.consent = Len(consents) /\ ctl.session \in Sessions /\ bg.pc \in Loose
    BY <2>1 DEF NoJob, ConsentInv, JobsInv, BegunOnce
  <2> HIDE DEF inserted
  <2>3. \A s \in Sessions : IF s = ctl.session THEN jobs'[s] = inserted ELSE jobs'[s] = jobs[s]
    BY <2>1, <2>2 DEF ConsentInv, JobsInv
  <2>4. Len(consents) <= Len(consents)
    BY DEF ConsentInv, JobsInv
  <2>5. ASSUME NEW s \in Sessions
        PROVE  /\ jobs'[s].consent <= Len(consents)
               /\ jobs'[s].consent > 0 => began[s] \in jobs'[s].consent..MaxGrants
    <3>1. CASE s = ctl.session
      BY <2>1, <2>2, <2>3, <2>4, <3>1 DEF ConsentInv
    <3>2. CASE s # ctl.session
      BY <2>3, <3>2 DEF ConsentInv
    <3> QED
      BY <3>1, <3>2
  <2> QED
    BY <2>1, <2>2, <2>5 DEF ConsentInv, Loose
<1> QED
  BY <1>1, <1>2, <1>3, <1>4 DEF Controller

LEMMA CommandConsent == ASSUME ConsentInv, JobsInv', Exclusive, Command PROVE ConsentInv'
<1>1. UNCHANGED <<bg, ctl, began, lock>>
  BY DEF Command, Grant, RegisterGrant, SetPaused, BeginWithdraw, Revoke, BeginDeletion, CancelAllJobs,
         DropCancelledRaw, NotifyServer, RequestDeletion, OptOut, OptOutQueue, OptOutRaw, notUi
<1>2. CASE Grant
  <2>1. /\ consents' = Append([c \in 1..Len(consents) |-> "revoked"], "active")
        /\ lock = "free" /\ UNCHANGED jobs
    BY <1>2 DEF Grant, QueueFree
  <2> DEFINE old == [c \in 1..Len(consents) |-> "revoked"]
  <2>2. Len(consents) \in Nat
    BY DEF ConsentInv, JobsInv
  <2>3. old \in Seq(ConsentStatus) /\ Len(old) = Len(consents) /\ \A c \in 1..Len(consents) : old[c] = "revoked"
    BY <2>2 DEF ConsentStatus
  <2> HIDE DEF old
  <2>4. \A x : /\ Len(Append(old, x)) = Len(consents) + 1
               /\ \A c \in 1..Len(consents) : Append(old, x)[c] = "revoked"
    BY <2>2, <2>3
  <2>5. /\ Len(consents') = Len(consents) + 1
        /\ \A c \in 1..Len(consents) : consents'[c] = "revoked"
    BY <2>1, <2>4 DEF old
  <2>6. \A c \in 1..Len(consents') : c # Len(consents') => consents'[c] = "revoked"
    BY <2>2, <2>5
  <2>7. \A s \in Sessions : jobs[s].consent <= Len(consents')
    BY <2>2, <2>5 DEF ConsentInv, JobsInv, JobLike
  <2>8. bg.pc \in Loose /\ ctl.pc # "insert"
    BY <2>1 DEF ConsentInv
  <2> QED
    BY <1>1, <2>1, <2>6, <2>7, <2>8 DEF ConsentInv, Loose
<1>3. CASE Revoke \/ \E paused \in BOOLEAN : SetPaused(paused)
  <2>1. PICK c \in {Len(consents), ui.consent}, status \in ConsentStatus :
          /\ consents' = [consents EXCEPT ![c] = status] /\ lock = "free" /\ UNCHANGED jobs
          /\ c = Len(consents) \/ status = "revoked"
    <3>1. CASE Revoke
      BY <3>1 DEF Revoke, QueueFree, ConsentStatus
    <3>2. ASSUME NEW paused \in BOOLEAN, SetPaused(paused)
          PROVE  /\ lock = "free" /\ UNCHANGED jobs
                 /\ \E status \in ConsentStatus : consents' = [consents EXCEPT ![Len(consents)] = status]
      <4>1. Current(consents) = Len(consents)
        BY <3>2 DEF SetPaused, Current
      <4> QED
        BY <3>2, <4>1 DEF SetPaused, QueueFree, ConsentStatus
    <3> QED
      BY <1>3, <3>1, <3>2
  <2> QED
    BY <1>1, <2>1, StatusConsent
<1>4. CASE CancelAllJobs \/ OptOutQueue
  <2>1. PICK out \in SUBSET Sessions :
          jobs' = [s \in Sessions |-> IF s \in out THEN [jobs[s] EXCEPT !.state = "Deleted"] ELSE jobs[s]]
    BY <1>4 DEF CancelAllJobs, OptOutQueue, In
  <2>2. SameConsents /\ UNCHANGED consents
    BY <1>4, <2>1 DEF CancelAllJobs, OptOutQueue, SameConsents, ConsentInv, JobsInv, JobLike
  <2> QED
    BY <1>1, <2>2, ConsentFrame DEF ConsentInv
<1>5. CASE UNCHANGED <<consents, jobs>>
  BY <1>1, <1>5, ConsentFrame DEF ConsentInv, SameConsents
<1> QED
  BY <1>2, <1>3, <1>4, <1>5 DEF Command, RegisterGrant, BeginWithdraw, BeginDeletion, DropCancelledRaw,
       NotifyServer, RequestDeletion, OptOut, OptOutRaw, persisted

LEMMA EnvironmentConsent == ASSUME ConsentInv, JobsInv', Environment PROVE ConsentInv'
<1>1. CASE ConsentExpires
  <2>1. /\ consents' = [consents EXCEPT ![Current(consents)] = "expired"] /\ Current(consents) > 0
        /\ UNCHANGED <<jobs, began, ctl, bg, lock>>
    BY <1>1 DEF ConsentExpires, notTime
  <2>2. Current(consents) = Len(consents)
    BY <2>1 DEF Current
  <2> QED
    BY <2>1, <2>2, StatusConsent DEF ConsentStatus
<1>2. CASE Midnight \/ \E s \in Sessions : Grow(s)
  <2>1. UNCHANGED <<consents, jobs, began, ctl, bg, lock>>
    BY <1>2 DEF Midnight, Grow, notTime
  <2> QED
    BY <2>1, ConsentFrame DEF ConsentInv, SameConsents
<1>3. CASE Crash
  <2>1. bg'.pc = "rest" /\ ctl'.pc = "idle" /\ UNCHANGED <<consents, jobs, began>>
    BY <1>3 DEF Crash, RestingBg, RestingCtl, persisted
  <2> QED
    BY <2>1, ConsentFrame DEF Loose, SameConsents
<1> QED
  BY <1>1, <1>2, <1>3 DEF Environment

LEMMA ConsentStart == Init => ConsentInv /\ ReceiptInv
<1> SUFFICES ASSUME Init PROVE ConsentInv /\ ReceiptInv
  OBVIOUS
<1>1. JobsInv
  BY JobsStart
<1>2. consents = << >> /\ bg.pc = "rest" /\ ctl.pc = "idle" /\ \A s \in Sessions : jobs[s].consent = 0
  BY DEF Init, RestingBg, RestingCtl, NoJob
<1>3. began \in [Sessions -> 0..NotBegun]
  BY DEF Init, NotBegun
<1>4. ConsentInv
  BY <1>1, <1>2, <1>3 DEF ConsentInv, Loose
<1>5. ServerShape(server) /\ server.held = {}
  BY DEF Init, NoService, ServerShape
<1>6. ReceiptInv
  BY <1>5 DEF Init, ReceiptInv, BgShape, RestingBg, LateReceiptDeleted
<1> QED
  BY <1>4, <1>6

LEMMA ConsentSteps == Exclusive /\ ConsentInv /\ [Next]_vars => ConsentInv'
<1> SUFFICES ASSUME Exclusive, ConsentInv, [Next]_vars PROVE ConsentInv'
  OBVIOUS
<1>1. JobsInv'
  BY JobSteps DEF ConsentInv
<1>2. CASE UNCHANGED vars
  <2>1. UNCHANGED <<consents, jobs, began, ctl, bg, lock>>
    BY <1>2 DEF vars, persisted, world
  <2> QED
    BY <1>1, <2>1, ConsentFrame DEF ConsentInv, SameConsents
<1> QED
  BY <1>1, <1>2, ProcessConsent, TransferConsent, ControllerConsent, CommandConsent, EnvironmentConsent
     DEF Next, Background

\* The service accepts what it is being sent, and nothing else.
LEMMA AcceptedAsSent ==
  ASSUME ReceiptInv, Next, NEW s \in Sessions,
         server.receipts[s] # "accepted", server'.receipts[s] = "accepted"
  PROVE  bg.pc = "inFlight" /\ s = bg.job
<1>1. ServerShape(server)
  BY DEF ReceiptInv
<1>2. ASSUME NEW c, NEW samples, NEW u
      PROVE  /\ Register(server, c).receipts = server.receipts
             /\ Withdraw(server, c, samples).receipts = server.receipts
             /\ DeleteReceipt(server, u).receipts = server.receipts
             /\ DeleteEverything(server).receipts = server.receipts
  BY <1>1 DEF ServerShape, Register, Withdraw, Remove, DeleteReceipt, DeleteEverything
<1>3. ASSUME NEW u, u # s, NEW c, NEW after \in Admit(server, u, c)
      PROVE  after.receipts[s] = server.receipts[s]
  BY <1>1, <1>3 DEF ServerShape, Admit, Refuse
<1>4. server' # server
  OBVIOUS
<1>5. CASE BeginTransfer \/ RegisterGrant \/ NotifyServer \/ SendDeletion
  <2>1. CASE BeginTransfer
    BY <1>2, <1>4, <2>1 DEF BeginTransfer
  <2>2. CASE RegisterGrant
    BY <1>2, <1>4, <2>2 DEF RegisterGrant
  <2>3. CASE NotifyServer
    <3> DEFINE under == {u \in Sessions : jobs[u].consent = ui.consent}
    <3>1. server' = Withdraw(server, ui.consent, under)
      BY <1>4, <2>3 DEF NotifyServer
    <3> HIDE DEF under
    <3> QED
      BY <1>2, <3>1
  <2>4. CASE SendDeletion
    <3>1. server' = DeleteEverything(server) \/ \E u : server' = DeleteReceipt(server, u)
      BY <1>4, <2>4 DEF SendDeletion
    <3> QED
      BY <1>2, <3>1
  <2> QED
    BY <1>5, <2>1, <2>2, <2>3, <2>4
<1>6. CASE Transmit
  BY <1>3, <1>4, <1>6 DEF Transmit, At
<1>7. CASE Controller \/ Environment
  BY <1>4, <1>7 DEF Controller, StartDictation, EndDictation, ReadOptOut, LockSessions, StoreSession, InsertJob,
       Environment, ConsentExpires, Midnight, Crash, Grow, notTime, world
<1>8. CASE Cleanup \/ Process
  BY <1>4, <1>8 DEF Cleanup, Process, Wake, CleanScopes, ExpireJobs, StopProcessing, PickJob, ClaimJob, Analyze,
       AfterAnalysis, Build, AfterBuild, WritePackage, Promote, DropRaw, Reject, RejectRaw,
       RejectPackage, Classify, notJobs, notBg, world
<1>9. CASE Transfer /\ ~(BeginTransfer \/ SendDeletion \/ Transmit)
  BY <1>4, <1>9 DEF Transfer, NextUpload, CancelUpload, FinishRejected, DropPackage, StartUpload, Acknowledge,
       RecordReceipt, CountVolume, LateReceipt, RefusedUpload, RetryLater, EndUploads, LockForDeletions,
       EndCycle, notJobs, notBg, world
<1>10. CASE Command /\ ~(RegisterGrant \/ NotifyServer)
  BY <1>4, <1>10 DEF Command, Grant, SetPaused, BeginWithdraw, Revoke, BeginDeletion, CancelAllJobs,
       DropCancelledRaw, RequestDeletion, OptOut, OptOutQueue, OptOutRaw
<1> QED
  BY <1>5, <1>6, <1>7, <1>8, <1>9, <1>10 DEF Next, Background

\* recheck, "before anything is written or sent", on the desktop: whatever the user
\* and the controller do, and however often the process ends, the server accepts a
\* sample only under the user's last grant, unrevoked and not paused, and only of a
\* session that began under it.  The mutexes are what makes it so.
THEOREM NothingSentWithoutConsent == Exclusive => (Spec => SentUnderConsent)
<1> SUFFICES ASSUME Exclusive PROVE Spec => SentUnderConsent
  OBVIOUS
<1>1. Init => ConsentInv /\ ReceiptInv
  BY ConsentStart
<1>2. ConsentInv /\ [Next]_vars => ConsentInv'
  BY ConsentSteps
<1>3. ReceiptInv /\ [Next]_vars => ReceiptInv'
  BY ReceiptSteps
<1>4. ConsentInv /\ ReceiptInv /\ [Next]_vars
        => [\A s \in Sessions :
              server.receipts[s] # "accepted" /\ server'.receipts[s] = "accepted"
                => LET c == jobs[s].consent
                   IN  /\ c = Current(consents) /\ consents[c] \in {"active", "expired"}
                       /\ began[s] \in c..MaxGrants]_vars
  <2> SUFFICES ASSUME ConsentInv, ReceiptInv, Next, NEW s \in Sessions,
                      server.receipts[s] # "accepted", server'.receipts[s] = "accepted"
               PROVE  /\ jobs[s].consent = Current(consents)
                      /\ consents[jobs[s].consent] \in {"active", "expired"}
                      /\ began[s] \in jobs[s].consent..MaxGrants
    OBVIOUS
  <2>1. Covered(s)
    BY AcceptedAsSent DEF ConsentInv
  <2>2. Current(consents) = Len(consents)
    BY <2>1 DEF Covered, Current, ConsentInv, JobsInv
  <2> QED
    BY <2>1, <2>2 DEF Covered, ConsentInv
<1> QED
  BY <1>1, <1>2, <1>3, <1>4, PTL DEF Spec, SentUnderConsent

-----------------------------------------------------------------------------
(* Erased after withdrawal, on the desktop                                  *)

Revoked == Len(consents) > 0 /\ consents[Len(consents)] = "revoked"
NoneHeld == \A s \in Sessions : s \in server.held => jobs[s].consent # Len(consents)

\* What is still to be done for a grant that was revoked: the command is on its way to
\* tell the server, or to store the request.
Underway == \/ ui.pc = "request"
            \/ ui.pc \in {"cancelJobs", "dropRaw", "notify"} /\ ui.consent = Len(consents)

\* The inductive invariant.  What the service holds under the last grant is taken from
\* it, or asked back, or the command that does so is under way; while the grant stands
\* revoked, nothing is sent under it that would come on top.
ErasedInv ==
  /\ ConsentInv /\ ReceiptInv /\ crashes \in Nat
  /\ ui = [pc |-> ui.pc, consent |-> ui.consent, jobs |-> ui.jobs]
  /\ ctl.pc = "insert" => consents[Len(consents)] # "revoked"
  /\ ui.pc = "revoke" => ui.consent = Len(consents)
  /\ crashes = 0 /\ Revoked => Everything \in deletions \/ NoneHeld \/ Underway

\* The service holds a sample more only if it was sent just now, under the last grant.
LEMMA HeldIfCovered ==
  ASSUME ConsentInv, ReceiptInv, Next, Serves(server, server')
  PROVE  \A s \in Sessions : s \in server'.held => s \in server.held \/ Covered(s)
BY AcceptedAsSent DEF Serves, ConsentInv

\* Everyone but the user's commands, while the grants and their jobs' consents stay.
LEMMA ErasedFrame ==
  ASSUME ErasedInv, ConsentInv', ReceiptInv', SameConsents, UNCHANGED <<consents, ui, crashes>>,
         ctl'.pc = "insert" => ctl.pc = "insert" \/ Current(consents) > 0,
         Everything \in deletions => Everything \in deletions',
         \A s \in Sessions : s \in server'.held => s \in server.held \/ Covered(s)
  PROVE  ErasedInv'
<1>1. Revoked' = Revoked /\ Underway' = Underway
  BY DEF Revoked, Underway
<1>2. Revoked /\ NoneHeld => NoneHeld'
  BY DEF Revoked, NoneHeld, Covered, SameConsents
<1>3. Current(consents) > 0 => consents[Len(consents)] # "revoked"
  BY DEF Current
<1> QED
  BY <1>1, <1>2, <1>3 DEF ErasedInv

LEMMA ControllerErased ==
  ASSUME ErasedInv, ConsentInv', ReceiptInv', Exclusive, Controller
  PROVE  ErasedInv'
<1>1. UNCHANGED <<consents, ui, crashes, deletions, server>>
  BY DEF Controller, StartDictation, EndDictation, ReadOptOut, LockSessions, StoreSession, InsertJob,
         persisted, world
<1>2. CASE InsertJob
  <2>1. ctl.pc = "insert" /\ ctl'.pc = "idle"
    BY <1>2 DEF InsertJob, RestingCtl
  <2> QED
    BY <1>1, <2>1 DEF ErasedInv, Revoked
<1>3. CASE ~InsertJob
  <2>1. UNCHANGED jobs
    BY <1>3 DEF Controller, StartDictation, EndDictation, ReadOptOut, LockSessions, StoreSession, persisted
  <2>2. ctl'.pc = "insert" => Current(consents) > 0
    <3>1. CASE StoreSession
      BY <3>1 DEF StoreSession, RestingCtl, ConsentFor, Permits
    <3> USE DEF ErasedInv, ConsentInv, JobsInv, CtlShape
    <3>2. CASE EndDictation
      BY <3>2 DEF EndDictation, RestingCtl
    <3>3. CASE ReadOptOut
      BY <3>3 DEF ReadOptOut
    <3>4. CASE LockSessions
      BY <3>4 DEF LockSessions
    <3>5. ASSUME NEW s \in Sessions, StartDictation(s) PROVE ctl'.pc # "insert"
      BY <3>5 DEF StartDictation
    <3> QED
      BY <1>3, <3>1, <3>2, <3>3, <3>4, <3>5 DEF Controller
  <2> QED
    BY <1>1, <2>1, <2>2, ErasedFrame DEF SameConsents
<1> QED
  BY <1>2, <1>3

\* The background thread moves jobs, but not from one consent to another.
LEMMA BackgroundSame == ASSUME JobsInv, Background PROVE SameConsents
<1>1. CASE UNCHANGED jobs
  BY <1>1 DEF SameConsents
<1>2. CASE ExpireJobs
  BY <1>2 DEF ExpireJobs, JobsInv, JobLike, SameConsents
<1>3. CASE Process
  <2>1. UNCHANGED jobs \/ \E t : jobs' = Moved(bg.job, t)
    BY <1>3 DEF Process, StopProcessing, PickJob, ClaimJob, Analyze, AfterAnalysis, Build, AfterBuild,
         WritePackage, Promote, DropRaw, Reject, RejectRaw, RejectPackage, Classify, Advance, notJobs, persisted
  <2> QED
    BY <1>1, <2>1, MovedConsents
<1>4. CASE Transfer
  <2>1. \/ UNCHANGED jobs
        \/ \E t : \/ jobs' = Moved(bg.job, t)
                 \/ jobs' = [Moved(bg.job, t) EXCEPT ![bg.job].attempts = @ + 1]
                 \/ jobs' = [Moved(bg.job, t) EXCEPT ![bg.job].deferred = TRUE]
        \/ \E s \in bg.todo : jobs' = [jobs EXCEPT ![s].deferred = TRUE]
    BY <1>4 DEF Transfer, BeginTransfer, NextUpload, CancelUpload, FinishRejected, DropPackage, StartUpload,
         Transmit, Acknowledge, RecordReceipt, CountVolume, LateReceipt, RefusedUpload, RetryLater, EndUploads,
         LockForDeletions, SendDeletion, EndCycle, notJobs, persisted
  <2> QED
    BY <1>1, <2>1, MovedConsents
<1> QED
  BY <1>1, <1>2, <1>3, <1>4 DEF Background, Cleanup, Wake, CleanScopes

\* Every call the background thread makes is one of the service's operations.
LEMMA BackgroundServes == ASSUME ReceiptInv, Background PROVE Serves(server, server')
<1>1. ServerShape(server)
  BY DEF ReceiptInv
<1>2. CASE UNCHANGED server
  BY <1>2, SelfServes
<1>3. CASE BeginTransfer
  BY <1>1, <1>2, <1>3, ServiceServes DEF BeginTransfer
<1>4. CASE Transmit
  BY <1>1, <1>2, <1>4, ServiceServes DEF Transmit
<1>5. CASE SendDeletion
  <2>1. UNCHANGED server \/ server' = DeleteEverything(server) \/ \E s : server' = DeleteReceipt(server, s)
    BY <1>5 DEF SendDeletion
  <2> QED
    BY <1>1, <1>2, <2>1, ServiceServes
<1>6. CASE Cleanup \/ Process
  BY <1>2, <1>6 DEF Cleanup, Process, Wake, CleanScopes, ExpireJobs, StopProcessing, PickJob, ClaimJob, Analyze,
       AfterAnalysis, Build, AfterBuild, WritePackage, Promote, DropRaw, Reject, RejectRaw,
       RejectPackage, Classify, notJobs, notBg, world
<1>7. CASE Transfer /\ ~(BeginTransfer \/ SendDeletion \/ Transmit)
  BY <1>2, <1>7 DEF Transfer, NextUpload, CancelUpload, FinishRejected, DropPackage, StartUpload, Acknowledge,
       RecordReceipt, CountVolume, LateReceipt, RefusedUpload, RetryLater, EndUploads, LockForDeletions,
       EndCycle, notJobs, notBg, world
<1> QED
  BY <1>3, <1>4, <1>5, <1>6, <1>7 DEF Background

\* The request to delete everything goes only with everything.
LEMMA BackgroundErased ==
  ASSUME ErasedInv, ConsentInv', ReceiptInv', Background
  PROVE  ErasedInv'
<1>1. UNCHANGED <<consents, ui, ctl, crashes>>
  BY DEF Background, Cleanup, Process, Wake, CleanScopes, ExpireJobs, StopProcessing, PickJob, ClaimJob, Analyze,
         AfterAnalysis, Build, AfterBuild, WritePackage, Promote, DropRaw, Reject, RejectRaw, RejectPackage,
         Classify, Transfer, BeginTransfer, NextUpload, CancelUpload, FinishRejected, DropPackage, StartUpload,
         Transmit, Acknowledge, RecordReceipt, CountVolume, LateReceipt, RefusedUpload, RetryLater, EndUploads,
         LockForDeletions, SendDeletion, EndCycle, notJobs, notBg, persisted, world
<1>2. SameConsents
  BY BackgroundSame DEF ErasedInv, ConsentInv
<1>3. \A s \in Sessions : s \in server'.held => s \in server.held \/ Covered(s)
  BY BackgroundServes, HeldIfCovered DEF ErasedInv, Next
<1>4. CASE Everything \in deletions => Everything \in deletions'
  BY <1>1, <1>2, <1>3, <1>4, ErasedFrame
<1>5. CASE Everything \in deletions /\ Everything \notin deletions'
  <2>1. SendDeletion
    BY <1>5 DEF Background, Cleanup, Process, Wake, CleanScopes, ExpireJobs, StopProcessing, PickJob, ClaimJob,
         Analyze, AfterAnalysis, Build, AfterBuild, WritePackage, Promote, DropRaw, Reject, RejectRaw,
         RejectPackage, Classify, Transfer, BeginTransfer, NextUpload, CancelUpload, FinishRejected, DropPackage,
         StartUpload, Transmit, Acknowledge, RecordReceipt, CountVolume, LateReceipt, RefusedUpload, RetryLater,
         EndUploads, LockForDeletions, EndCycle, notJobs, notBg, persisted
  <2>2. server' = DeleteEverything(server)
    BY <1>5, <2>1 DEF SendDeletion
  <2>3. server'.held = {}
    BY <2>2 DEF DeleteEverything, Remove, ErasedInv, ReceiptInv, ServerShape
  <2>4. NoneHeld'
    BY <2>3 DEF NoneHeld
  <2> QED
    BY <1>1, <2>4 DEF ErasedInv
<1> QED
  BY <1>4, <1>5

\* Withdrawal takes a step for each thing it leaves to be done; nothing else the user
\* does brings a revoked grant back.
LEMMA CommandErased ==
  ASSUME ErasedInv, ConsentInv', ReceiptInv', Command
  PROVE  ErasedInv'
<1>1. UNCHANGED <<bg, ctl, crashes>>
  BY DEF Command, Grant, RegisterGrant, SetPaused, BeginWithdraw, Revoke, BeginDeletion, CancelAllJobs,
         DropCancelledRaw, NotifyServer, RequestDeletion, OptOut, OptOutQueue, OptOutRaw, notUi
<1>2. ui = [pc |-> ui.pc, consent |-> ui.consent, jobs |-> ui.jobs] /\ Len(consents) \in Nat
  BY DEF ErasedInv, ConsentInv, JobsInv
<1>3. CASE Grant
  <2>1. consents'[Len(consents')] # "revoked" /\ ui'.pc = "register"
    BY <1>2, <1>3 DEF Grant
  <2> QED
    BY <1>1, <1>2, <1>3, <2>1 DEF ErasedInv, Revoked, Grant
<1>4. ASSUME NEW paused \in BOOLEAN, SetPaused(paused) PROVE ErasedInv'
  <2>1. /\ consents[Len(consents)] \in {"active", "paused"} /\ Len(consents) > 0
        /\ consents' = [consents EXCEPT ![Len(consents)] = IF paused THEN "paused" ELSE "active"]
        /\ UNCHANGED ui /\ ui.pc = "idle"
    <3>1. Current(consents) > 0 /\ Current(consents) = Len(consents)
      BY <1>4 DEF SetPaused, Current
    <3> QED
      BY <1>4, <3>1 DEF SetPaused, Begin, UiAt
  <2>2. consents'[Len(consents')] # "revoked" /\ Len(consents') = Len(consents)
    BY <1>2, <2>1, StatusChanges DEF ErasedInv, ConsentInv, JobsInv, ConsentStatus
  <2> QED
    BY <1>1, <2>1, <2>2 DEF ErasedInv, Revoked
<1>5. CASE Revoke
  <2>1. /\ ui.pc = "revoke" /\ ui.consent = Len(consents) /\ ctl.pc # "insert"
        /\ consents' = [consents EXCEPT ![ui.consent] = "revoked"]
    BY <1>5 DEF Revoke, Continue, UiAt, QueueFree, ErasedInv, ConsentInv
  <2>2. Len(consents') = Len(consents)
    BY <2>1
  <2>3. /\ ui' = [pc |-> "cancelJobs", consent |-> ui.consent, jobs |-> ui.jobs]
        /\ ui'.pc = "cancelJobs" /\ ui'.consent = ui.consent
    BY <1>2, <1>5 DEF Revoke
  <2> QED
    BY <1>1, <2>1, <2>2, <2>3 DEF ErasedInv, Underway
<1>6. CASE CancelAllJobs \/ OptOutQueue
  <2>1. PICK out \in SUBSET Sessions :
          jobs' = [s \in Sessions |-> IF s \in out THEN [jobs[s] EXCEPT !.state = "Deleted"] ELSE jobs[s]]
    BY <1>6 DEF CancelAllJobs, OptOutQueue, In
  <2>2. SameConsents
    BY <2>1 DEF SameConsents, ErasedInv, ConsentInv, JobsInv, JobLike
  <2>3. /\ UNCHANGED <<consents, deletions, server>>
        /\ ui'.consent = ui.consent
        /\ \/ ui.pc = "cancelJobs" /\ ui'.pc = "dropRaw"
           \/ ui.pc = "optOutQueue" /\ ui'.pc = "optOutRaw"
        /\ ui' = [pc |-> ui'.pc, consent |-> ui'.consent, jobs |-> ui'.jobs]
    BY <1>2, <1>6 DEF CancelAllJobs, OptOutQueue, Continue, UiAt
  <2>4. NoneHeld => NoneHeld'
    BY <2>2, <2>3 DEF NoneHeld, SameConsents
  <2> QED
    BY <1>1, <2>3, <2>4 DEF ErasedInv, Revoked, Underway
<1>7. CASE NotifyServer
  <2> DEFINE under == {s \in Sessions : jobs[s].consent = ui.consent}
  <2>1. UNCHANGED <<consents, jobs, deletions>> /\ ui.pc = "notify"
    BY <1>7 DEF NotifyServer, persisted, Continue, UiAt
  <2>2. CASE ui' = [ui EXCEPT !.pc = "request"]
    <3>1. /\ ui'.pc = "request"
          /\ ui' = [pc |-> ui'.pc, consent |-> ui'.consent, jobs |-> ui'.jobs]
      BY <1>2, <2>2
    <3> QED
      BY <1>1, <2>1, <3>1 DEF ErasedInv, Underway
  <2>3. CASE ui' = RestingUi /\ server' = Withdraw(server, ui.consent, under)
    <3>1. server'.held = server.held \ (server.held \cap under)
      BY <2>3 DEF Withdraw, Remove, ErasedInv, ReceiptInv, ServerShape
    <3>2. ui'.pc = "idle" /\ ui' = [pc |-> ui'.pc, consent |-> ui'.consent, jobs |-> ui'.jobs]
      BY <2>3 DEF RestingUi
    <3>3. ui.consent = Len(consents) => NoneHeld'
      BY <2>1, <3>1 DEF NoneHeld
    <3>4. NoneHeld => NoneHeld'
      BY <2>1, <3>1 DEF NoneHeld
    <3> QED
      BY <1>1, <2>1, <3>2, <3>3, <3>4 DEF ErasedInv, Revoked, Underway
  <2> QED
    BY <1>7, <2>2, <2>3 DEF NotifyServer
<1>8. CASE RequestDeletion
  <2>1. /\ UNCHANGED consents /\ Everything \in deletions' /\ ui'.pc = "idle"
        /\ ui' = [pc |-> ui'.pc, consent |-> ui'.consent, jobs |-> ui'.jobs]
    BY <1>8 DEF RequestDeletion, RestingUi
  <2> QED
    BY <1>1, <2>1 DEF ErasedInv
<1>9. CASE BeginWithdraw \/ BeginDeletion
  <2>1. UNCHANGED <<persisted, server>> /\ ui.pc = "idle"
    BY <1>9 DEF BeginWithdraw, BeginDeletion, Begin, UiAt
  <2>2. /\ ui'.pc \in {"revoke", "cancelJobs"}
        /\ ui'.pc = "revoke" => ui'.consent = Len(consents)
        /\ ui' = [pc |-> ui'.pc, consent |-> ui'.consent, jobs |-> ui'.jobs]
    <3>1. CASE BeginWithdraw
      <4>1. ui' = [pc |-> IF Current(consents) > 0 THEN "revoke" ELSE "cancelJobs",
                   consent |-> Current(consents), jobs |-> ui.jobs]
        BY <1>2, <3>1 DEF BeginWithdraw
      <4>2. Current(consents) > 0 => Current(consents) = Len(consents)
        BY DEF Current
      <4> QED
        BY <4>1, <4>2
    <3>2. CASE BeginDeletion
      <4>1. ui' = [pc |-> "cancelJobs", consent |-> ui.consent, jobs |-> ui.jobs]
        BY <1>2, <3>2 DEF BeginDeletion
      <4> QED
        BY <4>1
    <3> QED
      BY <1>9, <3>1, <3>2
  <2> QED
    BY <1>1, <2>1, <2>2 DEF ErasedInv, Revoked, Underway, NoneHeld, persisted
<1>10. CASE RegisterGrant
  <2>1. UNCHANGED persisted /\ ui.pc = "register" /\ ui' = RestingUi
    BY <1>10 DEF RegisterGrant, Continue, UiAt
  <2>2. server'.held = server.held
    BY <1>10 DEF RegisterGrant, Register, ErasedInv, ReceiptInv, ServerShape
  <2> QED
    BY <1>1, <2>1, <2>2 DEF ErasedInv, Revoked, Underway, NoneHeld, persisted, RestingUi
<1>11. CASE DropCancelledRaw
  <2>1. UNCHANGED <<consents, jobs, deletions, server>> /\ ui.pc = "dropRaw"
    BY <1>11 DEF DropCancelledRaw, Continue, UiAt
  <2>2. /\ ui'.pc \in {"notify", "request"} /\ ui'.consent = ui.consent
        /\ ui' = [pc |-> ui'.pc, consent |-> ui'.consent, jobs |-> ui'.jobs]
    BY <1>2, <1>11 DEF DropCancelledRaw
  <2> QED
    BY <1>1, <2>1, <2>2 DEF ErasedInv, Revoked, Underway, NoneHeld
<1>12. CASE OptOutRaw \/ \E s \in Sessions : OptOut(s)
  <2>1. UNCHANGED <<consents, jobs, deletions, server>> /\ ui.pc \in {"idle", "optOutRaw"}
    BY <1>12 DEF OptOutRaw, OptOut, Continue, Begin, UiAt, persisted
  <2>2. /\ ui'.pc \in {"idle", "optOutQueue"}
        /\ ui' = [pc |-> ui'.pc, consent |-> ui'.consent, jobs |-> ui'.jobs]
    <3>1. CASE OptOutRaw
      BY <3>1 DEF OptOutRaw, RestingUi
    <3>2. ASSUME NEW s \in Sessions, ui' = [ui EXCEPT !.pc = "optOutQueue", !.jobs = {s}]
          PROVE  ui' = [pc |-> "optOutQueue", consent |-> ui.consent, jobs |-> {s}]
      BY <1>2, <3>2
    <3> QED
      BY <1>12, <3>1, <3>2 DEF OptOut
  <2> QED
    BY <1>1, <2>1, <2>2 DEF ErasedInv, Revoked, Underway, NoneHeld
<1> QED
  BY <1>3, <1>4, <1>5, <1>6, <1>7, <1>8, <1>9, <1>10, <1>11, <1>12 DEF Command

LEMMA EnvironmentErased ==
  ASSUME ErasedInv, ConsentInv', ReceiptInv', Environment
  PROVE  ErasedInv'
<1>1. CASE ConsentExpires
  <2>1. /\ Current(consents) > 0 /\ UNCHANGED <<ui, ctl, crashes>>
        /\ consents' = [consents EXCEPT ![Current(consents)] = "expired"]
    BY <1>1 DEF ConsentExpires, notTime
  <2>2. Current(consents) = Len(consents)
    BY <2>1 DEF Current
  <2>3. consents'[Len(consents')] = "expired" /\ Len(consents') = Len(consents)
    BY <2>1, <2>2, StatusChanges DEF ErasedInv, ConsentInv, JobsInv, ConsentStatus
  <2> QED
    BY <2>1, <2>3 DEF ErasedInv, Revoked
<1>2. CASE Midnight \/ \E s \in Sessions : Grow(s)
  <2>1. UNCHANGED <<consents, jobs, deletions, server, ui, ctl, crashes>>
    BY <1>2 DEF Midnight, Grow, notTime
  <2> QED
    BY <2>1, ErasedFrame DEF SameConsents
<1>3. CASE Crash
  <2>1. /\ crashes' = crashes + 1 /\ ui'.pc = "idle" /\ ctl'.pc = "idle"
        /\ ui' = [pc |-> ui'.pc, consent |-> ui'.consent, jobs |-> ui'.jobs]
    BY <1>3 DEF Crash, RestingUi, RestingCtl
  <2> QED
    BY <2>1 DEF ErasedInv
<1> QED
  BY <1>1, <1>2, <1>3 DEF Environment

\* withdraw_consent, "starts deletion of what the server received": once a withdrawal is
\* over, the server holds nothing received under the consent withdrawn, or the request to
\* delete everything is stored, whichever messages were lost.
THEOREM WithdrawalErases == Exclusive => (Spec => []WithdrawnErased)
<1> SUFFICES ASSUME Exclusive PROVE Spec => []WithdrawnErased
  OBVIOUS
<1>1. Init => ErasedInv
  <2> SUFFICES ASSUME Init PROVE ErasedInv
    OBVIOUS
  <2>1. ConsentInv /\ ReceiptInv
    BY ConsentStart
  <2>2. consents = << >> /\ ui = RestingUi /\ ctl.pc = "idle" /\ crashes = 0
    BY DEF Init, RestingCtl
  <2> QED
    BY <2>1, <2>2 DEF ErasedInv, Revoked, RestingUi
<1>2. ErasedInv /\ [Next]_vars => ErasedInv'
  <2> SUFFICES ASSUME ErasedInv, [Next]_vars PROVE ErasedInv'
    OBVIOUS
  <2>1. ConsentInv' /\ ReceiptInv'
    BY ConsentSteps, ReceiptSteps DEF ErasedInv
  <2>2. CASE UNCHANGED vars
    <3>1. UNCHANGED <<consents, jobs, deletions, server, ui, ctl, crashes>>
      BY <2>2 DEF vars, persisted, world
    <3> QED
      BY <2>1, <3>1, ErasedFrame DEF SameConsents
  <2> QED
    BY <2>1, <2>2, ControllerErased, BackgroundErased, CommandErased, EnvironmentErased DEF Next
<1>3. ErasedInv => WithdrawnErased
  BY DEF ErasedInv, WithdrawnErased, Revoked, NoneHeld, Underway, Current, ConsentInv, JobsInv
<1> QED
  BY <1>1, <1>2, <1>3, PTL DEF Spec

-----------------------------------------------------------------------------
(* Nothing left behind                                                      *)

\* Places from which the thread, or the user's command, still goes on to delete the
\* raw copy or the package of a job that was decided.
RawDue(s) == \/ s = bg.job /\ bg.pc \in {"dropRaw", "rejectRaw"}
             \/ s \in ui.jobs /\ ui.pc \in {"dropRaw", "optOutRaw"}
PackageDue(s) == s = bg.job /\ bg.pc \in {"promote", "rejectRaw", "rejectPackage", "record", "count", "dropPackage"}

Carrying == {"cancel", "finish", "send", "inFlight", "answered", "record", "count", "dropPackage", "late"}

\* What upload_ready has taken up has been filtered, whatever became of it since.
OnTheWay ==
  /\ bg.pc \in Carrying \cup {"upload"} => \A s \in Sessions : s \in bg.todo => jobs[s].state \in Filtered
  /\ bg.pc \in Carrying => \A s \in Sessions : s = bg.job => jobs[s].state \in Filtered

\* The raw copy of a job is gone once the job is filtered, and its package once the job
\* is over, or somebody is about to delete it.
Kept(s) ==
  crashes = 0 /\ age[s] = "fresh" =>
    /\ s \in raw /\ jobs[s].state \in Filtered => RawDue(s)
    /\ s \in package /\ jobs[s].state \in Terminal => PackageDue(s)

LeftInv ==
  /\ HandInv /\ OnTheWay
  /\ ui = [pc |-> ui.pc, consent |-> ui.consent, jobs |-> ui.jobs]
  /\ \A s \in Sessions : Kept(s)

\* A step that leaves upload_ready's list and job as they are, or what is left of it.
LEMMA WayFrame ==
  ASSUME OnTheWay, StaysDecided, bg'.job = bg.job,
         bg'.pc \in Carrying \cup {"upload"} => bg.pc \in Carrying \cup {"upload"} /\ bg'.todo = bg.todo,
         bg'.pc \in Carrying => bg.pc \in Carrying
  PROVE  OnTheWay'
BY DEF OnTheWay, StaysDecided

LEMMA WaySteps == ASSUME JobsInv, StaysDecided, OnTheWay, Next PROVE OnTheWay'
<1>1. BgShape
  BY DEF JobsInv
<1>2. CASE Controller \/ Command \/ ConsentExpires \/ Midnight \/ \E s \in Sessions : Grow(s)
  <2>1. ASSUME Controller PROVE UNCHANGED bg
    BY <2>1 DEF Controller, StartDictation, EndDictation, ReadOptOut, LockSessions, StoreSession, InsertJob,
                persisted, world
  <2>2. ASSUME Command PROVE UNCHANGED bg
    BY <2>2 DEF Command, Grant, RegisterGrant, SetPaused, BeginWithdraw, Revoke, BeginDeletion, CancelAllJobs,
         DropCancelledRaw, NotifyServer, RequestDeletion, OptOut, OptOutQueue, OptOutRaw, notUi
  <2>3. ASSUME ConsentExpires \/ Midnight \/ \E s \in Sessions : Grow(s) PROVE UNCHANGED bg
    BY <2>3 DEF ConsentExpires, Midnight, Grow, notTime
  <2>4. UNCHANGED bg
    BY <1>2, <2>1, <2>2, <2>3
  <2> QED
    BY <2>4, WayFrame
<1>3. CASE Crash
  <2>1. bg'.pc = "rest"
    BY <1>3 DEF Crash, RestingBg
  <2> QED
    BY <2>1 DEF OnTheWay, Carrying
<1>4. CASE Cleanup \/ Process
  <2>1. bg'.pc \in {"cleanScopes", "expire", "rest", "process", "transfer"} \cup Processing
    <3>1. CASE Cleanup \/ StopProcessing \/ WritePackage \/ Promote \/ DropRaw \/ Reject \/ RejectRaw \/ RejectPackage
      BY <1>1, <3>1, GotoShape DEF Cleanup, Wake, CleanScopes, ExpireJobs, StopProcessing, WritePackage, Promote,
           DropRaw, Reject, RejectRaw, RejectPackage, Processing
    <3>2. CASE PickJob \/ Analyze \/ Build
      <4>1. ASSUME PickJob PROVE bg'.pc \in {"claim", "reject"}
        BY <1>1, <4>1 DEF PickJob, BgShape
      <4>2. ASSUME Analyze \/ Build PROVE bg'.pc \in {"analyzed", "built"}
        BY <1>1, <4>2 DEF Analyze, Build, Classify, BgShape
      <4>3. bg'.pc \in {"claim", "reject", "analyzed", "built"}
        BY <3>2, <4>1, <4>2
      <4> QED
        BY <4>3 DEF Processing
    <3>3. CASE ClaimJob \/ AfterAnalysis \/ AfterBuild
      BY <1>1, <3>3, GotoShape DEF ClaimJob, AfterAnalysis, AfterBuild, Advance, Processing
    <3> QED
      BY <1>4, <3>1, <3>2, <3>3 DEF Process
  <2> QED
    BY <2>1 DEF OnTheWay, Carrying, Processing
<1>5. CASE CancelUpload \/ FinishRejected \/ DropPackage \/ StartUpload \/ Acknowledge \/ RecordReceipt
           \/ CountVolume \/ LateReceipt \/ RefusedUpload \/ RetryLater \/ EndUploads
  <2>1. /\ bg.pc \in Carrying \/ (bg.pc = "upload" /\ bg'.pc = "relock")
        /\ \E pc : bg' = [bg EXCEPT !.pc = pc]
    BY <1>1, <1>5, GotoShape DEF CancelUpload, FinishRejected, DropPackage, StartUpload, Acknowledge, RecordReceipt,
         CountVolume, LateReceipt, RefusedUpload, RetryLater, EndUploads, Goto, At, Carrying
  <2>2. bg'.job = bg.job /\ bg'.todo = bg.todo
    BY <1>1, <2>1 DEF BgShape
  <2> QED
    BY <2>1, <2>2, WayFrame DEF Carrying
<1>6. CASE Transmit
  <2>1. bg.pc = "inFlight" /\ bg'.pc = "answered" /\ bg'.job = bg.job /\ bg'.todo = bg.todo
    BY <1>1, <1>6 DEF Transmit, At, BgShape
  <2> QED
    BY <2>1, WayFrame DEF Carrying
<1>7. CASE BeginTransfer
  <2>1. bg'.pc = "upload" /\ UNCHANGED jobs
    BY <1>1, <1>7 DEF BeginTransfer, BgShape, persisted
  <2>2. bg'.todo \subseteq In({"Eligible"})
    BY <1>1, <1>7 DEF BeginTransfer, BgShape
  <2> QED
    BY <2>1, <2>2 DEF OnTheWay, Carrying, In, Filtered
<1>8. CASE NextUpload
  <2>1. PICK s \in bg.todo, pc \in {"cancel", "upload", "relock", "send", "finish"} :
          bg' = [bg EXCEPT !.todo = @ \ {s}, !.job = s, !.pc = pc]
    BY <1>8 DEF NextUpload
  <2>2. bg'.job = s /\ bg'.todo = bg.todo \ {s} /\ bg.pc = "upload"
    BY <1>1, <1>8, <2>1 DEF BgShape, NextUpload, At
  <2> QED
    BY <2>2 DEF OnTheWay, StaysDecided
<1>9. CASE LockForDeletions \/ SendDeletion \/ EndCycle
  <2>1. bg'.pc \in {"deletions", "rest"}
    <3>1. CASE LockForDeletions
      BY <1>1, <3>1 DEF LockForDeletions, BgShape
    <3>2. CASE EndCycle
      BY <3>2 DEF EndCycle, RestingBg
    <3>3. CASE SendDeletion
      <4>1. PICK scope \in bg.todo : bg' = [bg EXCEPT !.todo = @ \ {scope}]
        BY <3>3 DEF SendDeletion
      <4> QED
        BY <1>1, <3>3, <4>1 DEF SendDeletion, At, BgShape
    <3> QED
      BY <1>9, <3>1, <3>2, <3>3
  <2> QED
    BY <2>1 DEF OnTheWay, Carrying
<1> QED
  BY <1>2, <1>3, <1>4, <1>5, <1>6, <1>7, <1>8, <1>9 DEF Next, Background, Transfer, Environment

\* A step from a place where the thread owes nothing, that adds nothing and decides on
\* no job, but may expire those that are no longer fresh.
LEMMA LeftFrame ==
  ASSUME LeftInv, HandInv', OnTheWay', UNCHANGED <<ui, age, crashes>>,
         \A s \in Sessions : ~PackageDue(s) /\ (RawDue(s) => RawDue(s)'),
         \A s \in Sessions : s \in raw' => s \in raw,
         \A s \in Sessions : s \in package' => s \in package,
         \A s \in Sessions : age[s] = "fresh" => \/ jobs'[s].state = jobs[s].state
                                                 \/ jobs'[s].state \notin Filtered
                                                 \/ {jobs[s].state, jobs'[s].state} \subseteq Ready
  PROVE  LeftInv'
<1>1. Terminal \cap Ready = {} /\ Ready \subseteq Filtered /\ Terminal \subseteq Filtered
  BY DEF Terminal, Ready, Filtered
<1>2. ASSUME NEW s \in Sessions PROVE Kept(s)'
  <2>1. Kept(s)
    BY DEF LeftInv
  <2> QED
    BY <1>1, <2>1 DEF Kept
<1> QED
  BY <1>2 DEF LeftInv

\* A step of the thread at work on its job, judged by what it leaves of that job alone.
LEMMA LeftStep ==
  ASSUME LeftInv, HandInv', OnTheWay', UNCHANGED <<ui, age, crashes>>, bg'.job = bg.job,
         \A s \in Sessions : s # bg.job =>
           /\ jobs'[s].state = jobs[s].state
           /\ s \in raw' => s \in raw
           /\ s \in package' => s \in package,
         \A s \in Sessions : s = bg.job /\ Kept(s) => Kept(s)'
  PROVE  LeftInv'
<1>1. ASSUME NEW s \in Sessions, s # bg.job PROVE Kept(s)'
  <2>1. Kept(s)
    BY DEF LeftInv
  <2> QED
    BY <1>1, <2>1 DEF Kept, RawDue, PackageDue
<1> QED
  BY <1>1 DEF LeftInv

LEMMA ProcessLeft == ASSUME LeftInv, HandInv', OnTheWay', Cleanup \/ Process PROVE LeftInv'
<1> USE DEF LeftInv
<1>1. UNCHANGED <<ui, age, crashes>>
  BY DEF Cleanup, Process, Wake, CleanScopes, ExpireJobs, StopProcessing, PickJob, ClaimJob, Analyze,
         AfterAnalysis, Build, AfterBuild, WritePackage, Promote, DropRaw, Reject, RejectRaw, RejectPackage,
         Classify, notJobs, notBg, persisted, world
<1>2. JobsInv /\ BgShape /\ jobs \in [Sessions -> JobLike]
  BY DEF HandInv, JobsInv
<1>3. ASSUME bg.pc \in {"rest", "cleanScopes", "expire", "process", "claim", "analyze", "analyzed", "build", "built"}
      PROVE  \A s \in Sessions : ~PackageDue(s) /\ (RawDue(s) => RawDue(s)')
  BY <1>1, <1>3 DEF PackageDue, RawDue
<1>4. CASE Cleanup
  <2>1. bg.pc \in {"rest", "cleanScopes", "expire"}
    BY <1>4 DEF Cleanup, Wake, CleanScopes, ExpireJobs, At
  <2>2. /\ \A s \in Sessions : s \in raw' => s \in raw
        /\ \A s \in Sessions : s \in package' => s \in package
        /\ \A s \in Sessions : age[s] = "fresh" => jobs'[s].state = jobs[s].state
    BY <1>2, <1>4 DEF Cleanup, Wake, CleanScopes, ExpireJobs
  <2> QED
    BY <1>1, <1>3, <2>1, <2>2, LeftFrame
<1>5. CASE StopProcessing \/ PickJob \/ Analyze \/ Build
  <2>1. bg.pc \in {"process", "analyze", "build"} /\ UNCHANGED <<jobs, raw, package>>
    BY <1>5 DEF StopProcessing, PickJob, Analyze, Build, Classify, At, persisted
  <2> QED
    BY <1>1, <1>3, <2>1, LeftFrame
<1>6. CASE ClaimJob \/ AfterAnalysis \/ AfterBuild
  <2>1. /\ bg.pc \in {"claim", "analyzed", "built"} /\ UNCHANGED <<raw, package>>
        /\ \/ UNCHANGED jobs
           \/ \E t \in {"Analyzing", "Building", "LocalPending"} : jobs' = Moved(bg.job, t)
    BY <1>6 DEF ClaimJob, AfterAnalysis, AfterBuild, Advance, At, notJobs
  <2>2. \A s \in Sessions : \/ jobs'[s].state = jobs[s].state
                            \/ jobs'[s].state \in {"Analyzing", "Building", "LocalPending"}
    BY <1>2, <2>1, MovedStates DEF JobState
  <2>3. {"Analyzing", "Building", "LocalPending"} \cap Filtered = {}
    BY DEF Filtered, Terminal
  <2> QED
    BY <1>1, <1>3, <2>1, <2>2, <2>3, LeftFrame
<1>7. CASE WritePackage
  <2>1. /\ bg'.job = bg.job /\ bg.pc = "package" /\ bg'.pc = "promote" /\ UNCHANGED <<jobs, raw>>
        /\ package' = package \cup {bg.job}
    BY <1>2, <1>7, GotoShape DEF WritePackage, At
  <2> QED
    BY <1>1, <2>1, LeftStep DEF Kept, RawDue, PackageDue
<1>8. CASE Promote
  <2>1. /\ bg'.job = bg.job /\ bg.pc = "promote" /\ bg'.pc = "dropRaw" /\ UNCHANGED raw
        /\ \/ jobs' = Moved(bg.job, "Eligible") /\ UNCHANGED package
           \/ package' = package \ {bg.job} /\ UNCHANGED jobs
    BY <1>2, <1>8, GotoShape DEF Promote, At
  <2>2. CASE jobs' = Moved(bg.job, "Eligible") /\ UNCHANGED package
    <3>1. \A s \in Sessions : jobs'[s].state = IF s = bg.job THEN "Eligible" ELSE jobs[s].state
      BY <1>2, <2>2, MovedStates DEF JobState
    <3> QED
      BY <1>1, <2>1, <2>2, <3>1, LeftStep DEF Kept, RawDue, PackageDue, Terminal
  <2>3. CASE package' = package \ {bg.job} /\ UNCHANGED jobs
    BY <1>1, <2>1, <2>3, LeftStep DEF Kept, RawDue, PackageDue
  <2> QED
    BY <2>1, <2>2, <2>3
<1>9. CASE DropRaw
  <2>1. /\ bg'.job = bg.job /\ bg.pc = "dropRaw" /\ UNCHANGED <<jobs, package>> /\ raw' = raw \ {bg.job}
    BY <1>2, <1>9, GotoShape DEF DropRaw, At
  <2> QED
    BY <1>1, <2>1, LeftStep DEF Kept, RawDue, PackageDue
<1>10. CASE Reject
  <2>1. /\ bg'.job = bg.job /\ bg.pc = "reject" /\ bg'.pc = "rejectRaw" /\ UNCHANGED <<raw, package>>
        /\ jobs' = Moved(bg.job, "Rejected") \/ UNCHANGED jobs
    BY <1>2, <1>10, GotoShape DEF Reject, At, notJobs
  <2>2. \A s \in Sessions : s # bg.job => jobs'[s].state = jobs[s].state
    BY <1>2, <2>1, MovedStates DEF JobState
  <2> QED
    BY <1>1, <2>1, <2>2, LeftStep DEF Kept, RawDue, PackageDue
<1>11. CASE RejectRaw
  <2>1. /\ bg'.job = bg.job /\ bg.pc = "rejectRaw" /\ bg'.pc = "rejectPackage"
        /\ UNCHANGED <<jobs, package>> /\ raw' = raw \ {bg.job}
    BY <1>2, <1>11, GotoShape DEF RejectRaw, At
  <2> QED
    BY <1>1, <2>1, LeftStep DEF Kept, RawDue, PackageDue
<1>12. CASE RejectPackage
  <2>1. /\ bg'.job = bg.job /\ bg.pc = "rejectPackage" /\ UNCHANGED <<jobs, raw>>
        /\ package' = package \ {bg.job}
    BY <1>2, <1>12, GotoShape DEF RejectPackage, At
  <2> QED
    BY <1>1, <2>1, LeftStep DEF Kept, RawDue, PackageDue
<1> QED
  BY <1>4, <1>5, <1>6, <1>7, <1>8, <1>9, <1>10, <1>11, <1>12 DEF Process

LEMMA TransferLeft == ASSUME LeftInv, HandInv', OnTheWay', Transfer PROVE LeftInv'
<1> USE DEF LeftInv
<1>1. UNCHANGED <<ui, age, crashes, raw>>
  BY DEF Transfer, BeginTransfer, NextUpload, CancelUpload, FinishRejected, DropPackage, StartUpload, Transmit,
         Acknowledge, RecordReceipt, CountVolume, LateReceipt, RefusedUpload, RetryLater, EndUploads,
         LockForDeletions, SendDeletion, EndCycle, notJobs, notBg, persisted, world
<1>2. JobsInv /\ BgShape /\ jobs \in [Sessions -> JobLike]
  BY DEF HandInv, JobsInv
<1>3. ASSUME bg.pc \in {"transfer", "upload", "relock", "deletions", "send", "inFlight", "answered", "late"}
      PROVE  \A s \in Sessions : ~PackageDue(s) /\ (RawDue(s) => RawDue(s)')
  BY <1>1, <1>3 DEF PackageDue, RawDue
<1>4. bg.pc \in Carrying => \A s \in Sessions : s = bg.job => jobs[s].state \in Filtered
  BY DEF OnTheWay
<1>5. CASE BeginTransfer \/ LockForDeletions \/ EndUploads \/ SendDeletion \/ EndCycle \/ Transmit
           \/ RefusedUpload \/ LateReceipt
  <2>1. /\ bg.pc \in {"transfer", "upload", "relock", "deletions", "inFlight", "answered", "late"}
        /\ UNCHANGED <<jobs, package>>
    BY <1>5 DEF BeginTransfer, LockForDeletions, EndUploads, SendDeletion, EndCycle, Transmit, RefusedUpload,
         LateReceipt, At, persisted
  <2> QED
    BY <1>1, <1>3, <2>1, LeftFrame
<1>6. CASE NextUpload
  <2>1. /\ bg.pc = "upload" /\ UNCHANGED package
        /\ UNCHANGED jobs \/ \E s : jobs' = [jobs EXCEPT ![s].deferred = TRUE]
    BY <1>6 DEF NextUpload, At, notJobs
  <2>2. \A s \in Sessions : jobs'[s].state = jobs[s].state
    <3>1. ASSUME NEW s, jobs' = [jobs EXCEPT ![s].deferred = TRUE]
          PROVE  \A u \in Sessions : jobs'[u].state = jobs[u].state
      <4> DEFINE later == [jobs[s] EXCEPT !.deferred = TRUE]
      <4>1. s \in Sessions => later.state = jobs[s].state
        BY <1>2 DEF JobLike
      <4>2. jobs' = [jobs EXCEPT ![s] = later]
        BY <3>1
      <4> HIDE DEF later
      <4> QED
        BY <1>2, <4>1, <4>2
    <3> QED
      BY <2>1, <3>1
  <2> QED
    BY <1>1, <1>3, <2>1, <2>2, LeftFrame
<1>7. CASE StartUpload \/ RetryLater
  <2>1. /\ bg.pc \in {"send", "answered"} /\ UNCHANGED package
        /\ \/ UNCHANGED jobs
           \/ /\ May(bg.job, "Uploading")
              /\ jobs' = [Moved(bg.job, "Uploading") EXCEPT ![bg.job].attempts = @ + 1]
           \/ /\ May(bg.job, "Eligible")
              /\ jobs' = [Moved(bg.job, "Eligible") EXCEPT ![bg.job].deferred = TRUE]
    BY <1>7 DEF StartUpload, RetryLater, At, notJobs
  <2>2. \A s \in Sessions : s = bg.job =>
          /\ May(bg.job, "Uploading") => jobs[s].state \in Ready
          /\ May(bg.job, "Eligible") => jobs[s].state \in Ready
    <3>1. \A s \in Sessions : s = bg.job => jobs[s].state \in Filtered
      BY <1>4, <2>1 DEF Carrying
    <3> QED
      BY <1>2, <3>1, MayBy DEF Filtered, Terminal, Ready
  <2>3. ASSUME NEW t \in {"Uploading", "Eligible"}, May(bg.job, t),
               \/ jobs' = [Moved(bg.job, t) EXCEPT ![bg.job].attempts = @ + 1]
               \/ jobs' = [Moved(bg.job, t) EXCEPT ![bg.job].deferred = TRUE]
        PROVE  \A s \in Sessions : \/ jobs'[s].state = jobs[s].state
                                   \/ {jobs[s].state, jobs'[s].state} \subseteq Ready
    <3>1. \A s \in Sessions : jobs'[s].state = IF s = bg.job THEN t ELSE jobs[s].state
      BY <1>2, <2>3, MovedStates DEF JobState
    <3> QED
      BY <2>2, <2>3, <3>1 DEF Ready
  <2>4. \A s \in Sessions : \/ jobs'[s].state = jobs[s].state
                            \/ {jobs[s].state, jobs'[s].state} \subseteq Ready
    BY <2>1, <2>3
  <2> QED
    BY <1>1, <1>3, <2>1, <2>4, LeftFrame
<1>8. CASE CancelUpload \/ FinishRejected
  <2>1. /\ bg'.job = bg.job /\ bg.pc \in {"cancel", "finish"} /\ bg'.pc = "dropPackage" /\ UNCHANGED package
        /\ UNCHANGED jobs \/ \E t \in {"Deleted", "Rejected"} : jobs' = Moved(bg.job, t)
    BY <1>2, <1>8, GotoShape DEF CancelUpload, FinishRejected, At, notJobs
  <2>2. \A s \in Sessions : s # bg.job => jobs'[s].state = jobs[s].state
    BY <1>2, <2>1, MovedStates DEF JobState
  <2>3. \A s \in Sessions : s = bg.job => jobs[s].state \in Filtered
    BY <1>4, <2>1 DEF Carrying
  <2> QED
    BY <1>1, <2>1, <2>2, <2>3, LeftStep DEF Kept, RawDue, PackageDue
<1>9. CASE Acknowledge
  <2>1. /\ bg'.job = bg.job /\ bg.pc = "answered" /\ UNCHANGED package
        /\ \/ jobs' = Moved(bg.job, "Acknowledged") /\ bg'.pc = "record"
           \/ UNCHANGED jobs
    BY <1>2, <1>9, GotoShape DEF Acknowledge, At
  <2>2. \A s \in Sessions : s # bg.job => jobs'[s].state = jobs[s].state
    BY <1>2, <2>1, MovedStates DEF JobState
  <2>3. \A s \in Sessions : s = bg.job => jobs[s].state \in Filtered
    BY <1>4, <2>1 DEF Carrying
  <2> QED
    BY <1>1, <2>1, <2>2, <2>3, LeftStep DEF Kept, RawDue, PackageDue
<1>10. CASE RecordReceipt \/ CountVolume
  <2>1. /\ bg'.job = bg.job /\ bg.pc \in {"record", "count"} /\ bg'.pc \in {"count", "dropPackage"}
        /\ UNCHANGED <<jobs, package>>
    BY <1>2, <1>10, GotoShape DEF RecordReceipt, CountVolume, At
  <2> QED
    BY <1>1, <2>1, LeftStep DEF Kept, RawDue, PackageDue
<1>11. CASE DropPackage
  <2>1. bg'.job = bg.job /\ bg.pc = "dropPackage" /\ UNCHANGED jobs /\ package' = package \ {bg.job}
    BY <1>2, <1>11, GotoShape DEF DropPackage, At
  <2> QED
    BY <1>1, <2>1, LeftStep DEF Kept, RawDue, PackageDue
<1> QED
  BY <1>5, <1>6, <1>7, <1>8, <1>9, <1>10, <1>11 DEF Transfer

\* A session is stored before it has a job, and only its job is enqueued.
LEMMA ControllerLeft == ASSUME LeftInv, HandInv', OnTheWay', Controller PROVE LeftInv'
<1> USE DEF LeftInv
<1>1. UNCHANGED <<bg, ui, age, crashes, package>>
  BY DEF Controller, StartDictation, EndDictation, ReadOptOut, LockSessions, StoreSession, InsertJob,
         persisted, world
<1>2. JobsInv /\ jobs \in [Sessions -> JobLike]
  BY DEF HandInv, JobsInv
<1>3. {"none", "LocalPending"} \cap Filtered = {} /\ Terminal \subseteq Filtered
  BY DEF Filtered, Terminal
<1>4. CASE StoreSession
  <2>1. UNCHANGED jobs /\ (raw' = raw \/ raw' = raw \cup {ctl.session}) /\ ctl.pc = "locked"
    BY <1>4 DEF StoreSession
  <2>2. ctl.session \in Sessions /\ jobs[ctl.session].state = "none"
    BY <1>2, <2>1 DEF JobsInv, BegunOnce
  <2> QED
    BY <1>1, <1>3, <2>1, <2>2 DEF Kept, RawDue, PackageDue
<1>5. CASE InsertJob
  <2> DEFINE inserted == [NoJob EXCEPT !.state = "LocalPending", !.consent = Len(consents)]
  <2>1. jobs' = [jobs EXCEPT ![ctl.session] = inserted] /\ UNCHANGED raw
    BY <1>5 DEF InsertJob
  <2>2. inserted.state = "LocalPending"
    BY DEF NoJob
  <2> HIDE DEF inserted
  <2>3. \A s \in Sessions : jobs'[s] = jobs[s] \/ jobs'[s].state = "LocalPending"
    BY <1>2, <2>1, <2>2
  <2> QED
    BY <1>1, <1>3, <2>1, <2>3 DEF Kept, RawDue, PackageDue
<1>6. CASE UNCHANGED <<jobs, raw>>
  BY <1>1, <1>6 DEF Kept, RawDue, PackageDue
<1> QED
  BY <1>4, <1>5, <1>6 DEF Controller, StartDictation, EndDictation, ReadOptOut, LockSessions, persisted, world

\* A command notes the jobs whose raw copies it is going to delete when it cancels them.
LEMMA CommandLeft == ASSUME LeftInv, HandInv', OnTheWay', Command PROVE LeftInv'
<1> USE DEF LeftInv
<1>1. UNCHANGED <<bg, age, crashes>>
  BY DEF Command, Grant, RegisterGrant, SetPaused, BeginWithdraw, Revoke, BeginDeletion, CancelAllJobs,
         DropCancelledRaw, NotifyServer, RequestDeletion, OptOut, OptOutQueue, OptOutRaw, notUi
<1>2. jobs \in [Sessions -> JobLike]
  BY DEF HandInv, JobsInv
<1>3. CASE CancelAllJobs \/ OptOutQueue
  <2>1. PICK out \in SUBSET In(Cancellable) :
          /\ jobs' = [s \in Sessions |-> IF s \in out THEN [jobs[s] EXCEPT !.state = "Deleted"] ELSE jobs[s]]
          /\ package' = package \ out
          /\ out \subseteq ui'.jobs
    BY <1>3 DEF CancelAllJobs, OptOutQueue, In
  <2>2. UNCHANGED raw /\ ui.pc \in {"cancelJobs", "optOutQueue"}
    BY <1>3 DEF CancelAllJobs, OptOutQueue, Continue, UiAt
  <2>3. ui' = [pc |-> ui'.pc, consent |-> ui'.consent, jobs |-> ui'.jobs] /\ ui'.pc \in {"dropRaw", "optOutRaw"}
    BY <1>3 DEF CancelAllJobs, OptOutQueue
  <2> QED
    BY <1>1, <1>2, <2>1, <2>2, <2>3 DEF Kept, RawDue, PackageDue
<1>4. CASE DropCancelledRaw \/ OptOutRaw
  <2>1. UNCHANGED <<jobs, package>> /\ raw' = raw \ ui.jobs
    BY <1>4 DEF DropCancelledRaw, OptOutRaw
  <2>2. ui' = [pc |-> ui'.pc, consent |-> ui'.consent, jobs |-> ui'.jobs]
    BY <1>4 DEF DropCancelledRaw, OptOutRaw, RestingUi
  <2> QED
    BY <1>1, <2>1, <2>2 DEF Kept, RawDue, PackageDue
<1>5. CASE \/ Grant \/ RegisterGrant \/ BeginWithdraw \/ Revoke \/ BeginDeletion \/ NotifyServer \/ RequestDeletion
           \/ (\E paused \in BOOLEAN : SetPaused(paused)) \/ \E s \in Sessions : OptOut(s)
  <2>1. UNCHANGED <<jobs, raw, package>> /\ ui.pc \notin {"dropRaw", "optOutRaw"}
    BY <1>5 DEF Grant, RegisterGrant, BeginWithdraw, Revoke, BeginDeletion, NotifyServer, RequestDeletion,
         SetPaused, OptOut, Begin, Continue, UiAt, persisted
  <2>2. ui' = [pc |-> ui'.pc, consent |-> ui'.consent, jobs |-> ui'.jobs]
    <3>1. CASE \/ Grant \/ RegisterGrant \/ Revoke \/ BeginDeletion \/ NotifyServer \/ RequestDeletion
      BY <3>1 DEF Grant, RegisterGrant, Revoke, BeginDeletion, NotifyServer, RequestDeletion, RestingUi
    <3>2. CASE BeginWithdraw \/ \E paused \in BOOLEAN : SetPaused(paused)
      BY <3>2 DEF BeginWithdraw, SetPaused
    <3>3. CASE \E s \in Sessions : OptOut(s)
      BY <3>3 DEF OptOut
    <3> QED
      BY <1>5, <3>1, <3>2, <3>3
  <2> QED
    BY <1>1, <2>1, <2>2 DEF Kept, RawDue, PackageDue
<1> QED
  BY <1>3, <1>4, <1>5 DEF Command

LEMMA EnvironmentLeft == ASSUME LeftInv, HandInv', OnTheWay', Environment PROVE LeftInv'
<1> USE DEF LeftInv
<1>1. CASE ConsentExpires \/ Midnight
  <2>1. UNCHANGED <<bg, ui, age, crashes, jobs, raw, package>>
    BY <1>1 DEF ConsentExpires, Midnight, notTime
  <2> QED
    BY <2>1 DEF Kept, RawDue, PackageDue
<1>2. ASSUME NEW s \in Sessions, Grow(s) PROVE LeftInv'
  <2>1. /\ UNCHANGED <<bg, ui, crashes, jobs, raw, package>>
        /\ age' = [age EXCEPT ![s] = IF @ = "fresh" THEN "day" ELSE "week"]
    BY <1>2 DEF Grow, notTime
  <2>2. \A u \in Sessions : age'[u] = "fresh" => age[u] = "fresh"
    BY <2>1 DEF HandInv
  <2> QED
    BY <2>1, <2>2 DEF Kept, RawDue, PackageDue
<1>3. CASE Crash
  <2>1. /\ crashes' = crashes + 1 /\ ui' = RestingUi
    BY <1>3 DEF Crash
  <2>2. crashes' # 0 /\ ui' = [pc |-> ui'.pc, consent |-> ui'.consent, jobs |-> ui'.jobs]
    BY <2>1 DEF HandInv, RestingUi
  <2> QED
    BY <2>2 DEF Kept
<1> QED
  BY <1>1, <1>2, <1>3 DEF Environment

\* However the user's commands and the background thread meet over a job, until the
\* process ends its raw copy and its package go with the decision on it: once every
\* thread rests, none is left of a job that is over, unless its time has run out.
THEOREM NothingStaysBehind == Spec => []NothingLeftBehind
<1>1. Init => LeftInv
  <2> SUFFICES ASSUME Init PROVE LeftInv
    OBVIOUS
  <2>1. HandInv
    BY HandStart
  <2>2. raw = {} /\ package = {} /\ ui = RestingUi /\ bg.pc = "rest"
    BY DEF Init, RestingBg
  <2> QED
    BY <2>1, <2>2 DEF LeftInv, OnTheWay, Carrying, Kept, RestingUi
<1>2. LeftInv /\ [Next]_vars => LeftInv'
  <2> SUFFICES ASSUME LeftInv, [Next]_vars PROVE LeftInv'
    OBVIOUS
  <2>1. HandInv' /\ JobsInv /\ StaysDecided
    BY HandSteps, JobSteps DEF LeftInv, HandInv
  <2>2. CASE UNCHANGED vars
    <3>1. UNCHANGED <<bg, ui, age, crashes, jobs, raw, package>>
      BY <2>2 DEF vars, persisted, world
    <3> QED
      BY <2>1, <3>1 DEF LeftInv, OnTheWay, Kept, RawDue, PackageDue
  <2>3. CASE Next
    <3>1. OnTheWay'
      BY <2>1, <2>3, WaySteps DEF LeftInv
    <3> QED
      BY <2>1, <2>3, <3>1, ProcessLeft, TransferLeft, ControllerLeft, CommandLeft, EnvironmentLeft
         DEF Next, Background
  <2> QED
    BY <2>2, <2>3
<1>3. LeftInv => NothingLeftBehind
  <2> SUFFICES ASSUME LeftInv, AllRest, crashes = 0, NEW s \in In(Terminal), age[s] = "fresh"
               PROVE  s \notin raw /\ s \notin package
    BY DEF NothingLeftBehind
  <2>1. Kept(s) /\ jobs[s].state \in Terminal /\ jobs[s].state \in Filtered
    BY DEF LeftInv, In, Filtered
  <2>2. ~RawDue(s) /\ ~PackageDue(s)
    BY DEF AllRest, RawDue, PackageDue
  <2> QED
    BY <2>1, <2>2 DEF Kept
<1> QED
  BY <1>1, <1>2, <1>3, PTL DEF Spec

-----------------------------------------------------------------------------
(* Types, and how often a transfer is tried                                 *)

\* A job that may still be sent was sent fewer times than allowed.
Spent == Terminal \cup {"Uploading"}
Tries(s) == /\ jobs[s].consent <= MaxGrants /\ jobs[s].attempts <= MaxAttempts
            /\ jobs[s].state \notin Spent => jobs[s].attempts < MaxAttempts
TriesInv == \A s \in Sessions : Tries(s)

LEMMA TriesFrame ==
  ASSUME TriesInv, SameConsents,
         \A s \in Sessions : /\ jobs'[s].attempts = jobs[s].attempts
                             /\ jobs'[s].state \in Spent \/ jobs[s].state \notin Spent
  PROVE  TriesInv'
BY DEF TriesInv, Tries, SameConsents

LEMMA MovedAttempts ==
  ASSUME JobsInv, NEW j, NEW t
  PROVE  /\ \/ jobs' = Moved(j, t)
            \/ jobs' = [Moved(j, t) EXCEPT ![j].deferred = TRUE]
            \/ jobs' = [jobs EXCEPT ![j].deferred = TRUE]
            => \A s \in Sessions : jobs'[s].attempts = jobs[s].attempts
         /\ jobs' = [Moved(j, t) EXCEPT ![j].attempts = @ + 1]
            => \A s \in Sessions : jobs'[s].attempts = jobs[s].attempts + (IF s = j THEN 1 ELSE 0)
<1>1. jobs \in [Sessions -> JobLike]
  BY DEF JobsInv
<1>2. CASE j \in Sessions
  <2> DEFINE moved == [jobs[j] EXCEPT !.state = t]
             sent == [moved EXCEPT !.attempts = @ + 1]
             later == [moved EXCEPT !.deferred = TRUE]
             put == [jobs[j] EXCEPT !.deferred = TRUE]
  <2>1. DOMAIN moved = {"state", "consent", "attempts", "deferred"} /\ moved.attempts = jobs[j].attempts
        /\ put.attempts = jobs[j].attempts
    BY <1>1, <1>2 DEF JobLike
  <2>2. /\ Moved(j, t) = [jobs EXCEPT ![j] = moved]
        /\ [Moved(j, t) EXCEPT ![j].attempts = @ + 1] = [jobs EXCEPT ![j] = sent]
        /\ [Moved(j, t) EXCEPT ![j].deferred = TRUE] = [jobs EXCEPT ![j] = later]
        /\ [jobs EXCEPT ![j].deferred = TRUE] = [jobs EXCEPT ![j] = put]
    BY <1>1, <1>2 DEF Moved
  <2> HIDE DEF moved, put
  <2>3. sent.attempts = jobs[j].attempts + 1 /\ later.attempts = jobs[j].attempts
    BY <2>1
  <2> HIDE DEF sent, later
  <2>4. \A s \in Sessions : jobs[s].attempts \in Nat
    BY <1>1 DEF JobLike
  <2>5. ASSUME NEW next, next.attempts = jobs[j].attempts, jobs' = [jobs EXCEPT ![j] = next], NEW s \in Sessions
        PROVE  jobs'[s].attempts = jobs[s].attempts
    BY <1>1, <1>2, <2>5
  <2>6. ASSUME jobs' = [jobs EXCEPT ![j] = sent], NEW s \in Sessions
        PROVE  jobs'[s].attempts = jobs[s].attempts + (IF s = j THEN 1 ELSE 0)
    BY <1>1, <1>2, <2>3, <2>4, <2>6
  <2> QED
    BY <2>1, <2>2, <2>3, <2>5, <2>6
<1>3. CASE j \notin Sessions
  <2>1. jobs' \in {Moved(j, t), [Moved(j, t) EXCEPT ![j].attempts = @ + 1],
                   [Moved(j, t) EXCEPT ![j].deferred = TRUE], [jobs EXCEPT ![j].deferred = TRUE]} => UNCHANGED jobs
    BY <1>1, <1>3 DEF Moved
  <2>2. \A s \in Sessions : jobs[s].attempts \in Nat
    BY <1>1 DEF JobLike
  <2> QED
    BY <1>3, <2>1, <2>2
<1> QED
  BY <1>2, <1>3

\* A guarded move, of a job that was not sent out or to the end of it.
LEMMA MoveTries ==
  ASSUME JobsInv, TriesInv, NEW j, NEW t \in JobState,
         jobs' = Moved(j, t) \/ jobs' = [Moved(j, t) EXCEPT ![j].deferred = TRUE],
         t \in Spent \/ \A s \in Sessions : s = j => jobs[s].state \notin Spent
  PROVE  TriesInv'
<1>1. SameConsents /\ \A s \in Sessions : jobs'[s].state = IF s = j THEN t ELSE jobs[s].state
  BY MovedConsents, MovedStates
<1>2. \A s \in Sessions : jobs'[s].attempts = jobs[s].attempts
  BY MovedAttempts
<1> QED
  BY <1>1, <1>2, TriesFrame

LEMMA StillTries == ASSUME TriesInv, UNCHANGED jobs PROVE TriesInv'
BY DEF TriesInv, Tries

LEMMA AdvanceTries ==
  ASSUME JobsInv, TriesInv, NEW t \in {"Analyzing", "Building", "LocalPending"}, NEW pc, Advance(t, pc)
  PROVE  TriesInv'
<1>1. CASE May(bg.job, t) /\ jobs' = Moved(bg.job, t)
  <2>1. t \in JobState /\ \A s \in Sessions : s = bg.job => jobs[s].state \notin Spent
    BY <1>1, MayBy DEF JobState, Spent, Terminal
  <2> QED
    BY <1>1, <2>1, MoveTries
<1> QED
  BY <1>1, StillTries DEF Advance

LEMMA ProcessTries == ASSUME HandInv, TriesInv, Cleanup \/ Process PROVE TriesInv'
<1>1. JobsInv /\ {"Eligible", "Rejected", "Deleted"} \subseteq JobState /\ {"Rejected", "Deleted"} \subseteq Spent
  BY DEF HandInv, JobState, Spent, Terminal
<1>2. CASE ClaimJob \/ AfterAnalysis \/ AfterBuild
  BY <1>1, <1>2, AdvanceTries, StillTries DEF ClaimJob, AfterAnalysis, AfterBuild
<1>3. CASE Promote
  <2>1. CASE May(bg.job, "Eligible") /\ jobs' = Moved(bg.job, "Eligible")
    <3>1. \A s \in Sessions : s = bg.job => jobs[s].state = "Building"
      BY <1>1, <1>3, <2>1, MayBy DEF Promote, At, HandInv, JobInHand, Attempt, Ready
    <3>2. "Building" \notin Spent
      BY DEF Spent, Terminal
    <3> QED
      BY <1>1, <2>1, <3>1, <3>2, MoveTries
  <2> QED
    BY <1>3, <2>1, StillTries DEF Promote
<1>4. CASE Reject
  BY <1>1, <1>4, MoveTries, StillTries DEF Reject
<1>5. CASE ExpireJobs
  <2>1. \A s \in Sessions : /\ jobs'[s].consent = jobs[s].consent /\ jobs'[s].attempts = jobs[s].attempts
                            /\ jobs'[s].state \in {jobs[s].state, "Deleted"}
    BY <1>1, <1>5 DEF ExpireJobs, JobsInv, JobLike
  <2> QED
    BY <1>1, <2>1, TriesFrame DEF SameConsents
<1>6. CASE \/ Wake \/ CleanScopes \/ StopProcessing \/ PickJob \/ Analyze \/ Build \/ WritePackage \/ DropRaw
           \/ RejectRaw \/ RejectPackage
  BY <1>6, StillTries DEF Wake, CleanScopes, StopProcessing, PickJob, Analyze, Build, Classify, WritePackage,
       DropRaw, RejectRaw, RejectPackage, persisted
<1> QED
  BY <1>2, <1>3, <1>4, <1>5, <1>6 DEF Cleanup, Process

LEMMA TransferTries == ASSUME HandInv, TriesInv, Transfer PROVE TriesInv'
<1>1. /\ JobsInv /\ {"Eligible", "Uploading", "Acknowledged", "Rejected", "Deleted"} \subseteq JobState
      /\ {"Uploading", "Acknowledged", "Rejected", "Deleted"} \subseteq Spent /\ "Eligible" \notin Spent
  BY DEF HandInv, JobState, Spent, Terminal
<1>2. CASE CancelUpload \/ FinishRejected \/ Acknowledge
  BY <1>1, <1>2, MoveTries, StillTries DEF CancelUpload, FinishRejected, Acknowledge
<1>3. CASE NextUpload
  <2>1. UNCHANGED jobs \/ \E s \in bg.todo : jobs' = [jobs EXCEPT ![s].deferred = TRUE]
    BY <1>3 DEF NextUpload
  <2>2. ASSUME NEW s \in bg.todo, jobs' = [jobs EXCEPT ![s].deferred = TRUE] PROVE TriesInv'
    <3>1. SameConsents /\ \A u \in Sessions : jobs'[u].attempts = jobs[u].attempts
      BY <1>1, <2>2, MovedConsents, MovedAttempts
    <3>2. \A u \in Sessions : jobs'[u].state = jobs[u].state
      BY <1>1, <2>2 DEF JobsInv, JobLike
    <3> QED
      BY <3>1, <3>2, TriesFrame
  <2> QED
    BY <2>1, <2>2, StillTries
<1>4. CASE StartUpload
  <2>1. CASE May(bg.job, "Uploading") /\ jobs' = [Moved(bg.job, "Uploading") EXCEPT ![bg.job].attempts = @ + 1]
    <3>1. SameConsents /\ \A s \in Sessions : jobs'[s].state = IF s = bg.job THEN "Uploading" ELSE jobs[s].state
      BY <1>1, <2>1, MovedConsents, MovedStates
    <3>3. \A s \in Sessions : jobs'[s].attempts = jobs[s].attempts + (IF s = bg.job THEN 1 ELSE 0)
      BY <1>1, <2>1, MovedAttempts
    <3>2. \A s \in Sessions : jobs[s].attempts \in Nat /\ (s = bg.job => jobs[s].state \notin Spent)
      BY <1>1, <2>1, MayBy DEF JobsInv, JobLike
    <3> QED
      BY <1>1, <3>1, <3>2, <3>3 DEF TriesInv, Tries, SameConsents
  <2> QED
    BY <1>4, <2>1, StillTries DEF StartUpload
<1>5. CASE RetryLater
  <2>1. CASE May(bg.job, "Eligible") /\ jobs' = [Moved(bg.job, "Eligible") EXCEPT ![bg.job].deferred = TRUE]
    <3>1. /\ SameConsents
          /\ \A s \in Sessions : jobs'[s].state = IF s = bg.job THEN "Eligible" ELSE jobs[s].state
          /\ \A s \in Sessions : jobs'[s].attempts = jobs[s].attempts
      BY <1>1, <2>1, MovedConsents, MovedStates, MovedAttempts
    <3>2. jobs[bg.job].attempts < MaxAttempts
      BY <1>5 DEF RetryLater, MayRetry
    <3> QED
      BY <3>1, <3>2 DEF TriesInv, Tries, SameConsents
  <2> QED
    BY <1>5, <2>1, StillTries DEF RetryLater
<1>6. CASE \/ BeginTransfer \/ DropPackage \/ Transmit \/ RecordReceipt \/ CountVolume \/ LateReceipt \/ RefusedUpload
           \/ EndUploads \/ LockForDeletions \/ SendDeletion \/ EndCycle
  BY <1>6, StillTries DEF BeginTransfer, DropPackage, Transmit, RecordReceipt, CountVolume, LateReceipt, RefusedUpload,
       EndUploads, LockForDeletions, SendDeletion, EndCycle, persisted
<1> QED
  BY <1>2, <1>3, <1>4, <1>5, <1>6 DEF Transfer

LEMMA OthersTries ==
  ASSUME JobsInv, TriesInv, MaxAttempts # 0, Controller \/ Command \/ Environment PROVE TriesInv'
<1>1. CASE InsertJob
  <2> DEFINE inserted == [NoJob EXCEPT !.state = "LocalPending", !.consent = Len(consents)]
  <2>1. jobs' = [jobs EXCEPT ![ctl.session] = inserted]
    BY <1>1 DEF InsertJob
  <2>2. inserted.consent = Len(consents) /\ inserted.attempts = 0 /\ Len(consents) <= MaxGrants
    BY DEF NoJob, JobsInv
  <2> HIDE DEF inserted
  <2>3. 0 <= MaxAttempts /\ 0 < MaxAttempts
    OBVIOUS
  <2> QED
    BY <2>1, <2>2, <2>3 DEF TriesInv, Tries, JobsInv
<1>2. CASE CancelAllJobs \/ OptOutQueue
  <2>1. PICK out \in SUBSET In(Cancellable) :
          jobs' = [s \in Sessions |-> IF s \in out THEN [jobs[s] EXCEPT !.state = "Deleted"] ELSE jobs[s]]
    <3>1. CASE CancelAllJobs
      BY <3>1 DEF CancelAllJobs
    <3>2. CASE OptOutQueue
      <4>1. ui.jobs \cap In(Cancellable \ {"Uploading"}) \in SUBSET In(Cancellable)
        BY DEF In
      <4> QED
        BY <3>2, <4>1 DEF OptOutQueue
    <3> QED
      BY <1>2, <3>1, <3>2
  <2>2. \A s \in Sessions : /\ jobs'[s].consent = jobs[s].consent /\ jobs'[s].attempts = jobs[s].attempts
                            /\ jobs'[s].state \in {jobs[s].state, "Deleted"}
    BY <2>1 DEF JobsInv, JobLike
  <2>3. "Deleted" \in Spent
    BY DEF Spent, Terminal
  <2> QED
    BY <2>2, <2>3, TriesFrame DEF SameConsents
<1>3. CASE Controller /\ ~InsertJob
  BY <1>3, StillTries DEF Controller, StartDictation, EndDictation, ReadOptOut, LockSessions, StoreSession, persisted
<1>4. CASE Command /\ ~(CancelAllJobs \/ OptOutQueue)
  BY <1>4, StillTries DEF Command, Grant, RegisterGrant, SetPaused, BeginWithdraw, Revoke, BeginDeletion,
       DropCancelledRaw, NotifyServer, RequestDeletion, OptOut, OptOutRaw, persisted
<1>5. CASE Environment
  BY <1>5, StillTries DEF Environment, ConsentExpires, Midnight, Grow, Crash, notTime, persisted
<1> QED
  BY <1>1, <1>2, <1>3, <1>4, <1>5

\* The types of TypeOK without the jobs' own, and the places where the background thread
\* has a job in hand and its list names jobs.
AtWork == Processing \cup Carrying

StoreTypes ==
  /\ raw \in SUBSET Sessions /\ package \in SUBSET Sessions
  /\ receipts \in [Sessions -> {"none", "accepted", "late"}]
  /\ deletions \in SUBSET (Sessions \cup {Everything})
  /\ volume \in Nat

ThreadTypes ==
  /\ lock \in {"free", "background", "controller"}
  /\ bg.job \in Sessions \cup {Nobody} /\ bg.todo \in SUBSET (Sessions \cup {Everything})
  /\ bg.pc \in AtWork => bg.job \in Sessions
  /\ bg.pc # "deletions" => bg.todo \in SUBSET Sessions
  /\ ui = [pc |-> ui.pc, consent |-> ui.consent, jobs |-> ui.jobs]
  /\ ui.consent \in 0..MaxGrants /\ ui.jobs \in SUBSET Sessions
  /\ ctl.session \in Sessions \cup {Nobody} /\ optedOut \in SUBSET Sessions

WorldTypes ==
  /\ server \in Service(MaxGrants)
  /\ age \in [Sessions -> {"fresh", "day", "week"}]
  /\ began \in [Sessions -> 0..NotBegun]
  /\ acked \in Nat /\ crashes \in 0..MaxCrashes /\ events \in 0..MaxEvents

Types == StoreTypes /\ ThreadTypes /\ WorldTypes

LEMMA ServiceTypes ==
  ASSUME NEW sv \in Service(MaxGrants), NEW c, NEW samples
  PROVE  /\ Register(sv, c) \in Service(MaxGrants) /\ Withdraw(sv, c, samples) \in Service(MaxGrants)
         /\ DeleteEverything(sv) \in Service(MaxGrants)
         /\ \A s \in Sessions : /\ DeleteReceipt(sv, s) \in Service(MaxGrants)
                               /\ Admit(sv, s, c) \subseteq Service(MaxGrants)
<1>1. /\ sv.held \subseteq Sessions /\ sv.buried \subseteq Sessions
      /\ sv.consents \in [1..MaxGrants -> {"unknown", "active", "withdrawn"}]
      /\ sv.receipts \in [Sessions -> {"none", "accepted", "refused"}]
  BY DEF Service
<1>2. ASSUME NEW r \in Service(MaxGrants), NEW gone \in SUBSET Sessions PROVE Remove(r, gone) \in Service(MaxGrants)
  BY DEF Service, Remove
<1>3. ASSUME NEW told \in [1..MaxGrants -> {"unknown", "active", "withdrawn"}]
      PROVE  [sv EXCEPT !.consents = told] \in Service(MaxGrants) /\ [sv EXCEPT !.consents = told].held = sv.held
  BY DEF Service
<1>4. Register(sv, c) \in Service(MaxGrants)
  BY DEF Service, Register
<1>5. Withdraw(sv, c, samples) \in Service(MaxGrants)
  <2> DEFINE told == IF sv.consents[c] = "active" THEN [sv EXCEPT !.consents[c] = "withdrawn"] ELSE sv
  <2>1. told \in Service(MaxGrants)
    BY DEF Service
  <2> HIDE DEF told
  <2>2. Remove(told, sv.held \cap samples) \in Service(MaxGrants)
    BY <1>1, <1>2, <2>1
  <2> QED
    BY <2>2 DEF Withdraw, told
<1>6. \A s \in Sessions : DeleteReceipt(sv, s) \in Service(MaxGrants)
  BY <1>2 DEF DeleteReceipt
<1>7. DeleteEverything(sv) \in Service(MaxGrants)
  <2> DEFINE told == [k \in DOMAIN sv.consents |-> IF sv.consents[k] = "active" THEN "withdrawn" ELSE sv.consents[k]]
  <2>1. told \in [1..MaxGrants -> {"unknown", "active", "withdrawn"}]
    BY <1>1
  <2>2. DeleteEverything(sv) = Remove([sv EXCEPT !.consents = told], sv.held)
    BY DEF DeleteEverything
  <2> HIDE DEF told
  <2> QED
    BY <1>1, <1>2, <1>3, <2>1, <2>2
<1>8. \A s \in Sessions : Refuse(sv, s) \in Service(MaxGrants)
  BY DEF Service, Refuse
<1>9. \A s \in Sessions : [sv EXCEPT !.held = @ \cup {s}, !.receipts[s] = "accepted"] \in Service(MaxGrants)
  BY DEF Service
<1> QED
  BY <1>4, <1>5, <1>6, <1>7, <1>8, <1>9 DEF Admit

LEMMA ControllerTypes == ASSUME Types, JobsInv, Controller PROVE Types'
<1> USE DEF Types
<1>1. ASSUME NEW s \in Sessions, StartDictation(s) PROVE Types'
  <2>1. StoreTypes'
    BY <1>1 DEF StartDictation, persisted, StoreTypes
  <2>2. Len(consents) \in 0..NotBegun
    BY DEF JobsInv, NotBegun
  <2>3. WorldTypes'
    BY <1>1, <2>2 DEF StartDictation, WorldTypes
  <2>4. ctl'.session = s
    BY <1>1 DEF StartDictation, JobsInv, CtlShape
  <2> QED
    BY <1>1, <2>1, <2>3, <2>4 DEF StartDictation, ThreadTypes
<1>2. CASE EndDictation \/ ReadOptOut \/ LockSessions
  <2>1. ctl'.session \in {ctl.session, Nobody}
    <3>1. CtlShape
      BY DEF JobsInv
    <3>2. CASE EndDictation
      <4>1. RestingCtl.session = Nobody /\ [ctl EXCEPT !.pc = "delivered"].session = ctl.session
        BY <3>1 DEF RestingCtl, CtlShape
      <4> QED
        BY <3>2, <4>1 DEF EndDictation
    <3>3. CASE ReadOptOut
      BY <3>1, <3>3 DEF ReadOptOut, CtlShape
    <3>4. CASE LockSessions
      BY <3>1, <3>4 DEF LockSessions, CtlShape
    <3> QED
      BY <1>2, <3>2, <3>3, <3>4
  <2> QED
    BY <1>2, <2>1 DEF EndDictation, ReadOptOut, LockSessions, persisted, world, StoreTypes, ThreadTypes, WorldTypes
<1>3. CASE StoreSession
  <2>1. ctl.session \in Sessions
    BY <1>3 DEF StoreSession, JobsInv, BegunOnce
  <2>2. ctl'.session \in {ctl.session, Nobody}
    BY <1>3 DEF StoreSession, RestingCtl, JobsInv, CtlShape
  <2>3. lock' \in {lock, "free", "controller"} /\ raw' \in {raw, raw \cup {ctl.session}}
    BY <1>3 DEF StoreSession, Hold
  <2>4. StoreTypes' /\ WorldTypes'
    BY <1>3, <2>1, <2>3 DEF StoreSession, world, StoreTypes, WorldTypes
  <2> QED
    BY <1>3, <2>2, <2>3, <2>4 DEF StoreSession, ThreadTypes
<1>4. CASE InsertJob
  BY <1>4 DEF InsertJob, Unlock, RestingCtl, world, StoreTypes, ThreadTypes, WorldTypes
<1> QED
  BY <1>1, <1>2, <1>3, <1>4 DEF Controller

\* The thread goes on with the job it has in hand, or without one.
LEMMA GotoTypes ==
  ASSUME ThreadTypes, BgShape, NEW pc, Goto(pc), pc \in AtWork => bg.pc \in AtWork, bg.pc # "deletions",
         lock' \in {lock, "free", "background"}, UNCHANGED <<ui, ctl, optedOut>>
  PROVE  ThreadTypes'
<1>1. bg'.pc = pc /\ bg'.job = bg.job /\ bg'.todo = bg.todo
  BY DEF Goto, BgShape
<1> QED
  BY <1>1 DEF ThreadTypes

LEMMA AdvanceTypes ==
  ASSUME ThreadTypes, BgShape, bg.pc \in AtWork, NEW t, NEW pc, Advance(t, pc), UNCHANGED <<ui, ctl, optedOut>>
  PROVE  ThreadTypes'
<1>1. bg.pc # "deletions"
  BY DEF AtWork, Processing, Carrying
<1>2. (Goto(pc) \/ Goto("process")) /\ lock' \in {lock, "free"}
  BY DEF Advance, Unlock
<1> QED
  BY <1>1, <1>2, GotoTypes

LEMMA ProcessTypes == ASSUME Types, JobsInv, Cleanup \/ Process PROVE Types'
<1> USE DEF Types
<1>1. BgShape
  BY DEF JobsInv
<1>2. UNCHANGED <<ui, ctl, optedOut, server, age, began, acked, crashes, events>>
  BY DEF Cleanup, Process, Wake, CleanScopes, ExpireJobs, StopProcessing, PickJob, ClaimJob, Analyze,
       AfterAnalysis, Build, AfterBuild, WritePackage, Promote, DropRaw, Reject, RejectRaw,
       RejectPackage, Classify, notJobs, notBg, world
<1>3. WorldTypes'
  BY <1>2 DEF WorldTypes
<1>4. /\ {"cleanScopes", "expire", "process", "transfer", "rest"} \cap AtWork = {}
      /\ Processing \subseteq AtWork /\ "deletions" \notin AtWork
  BY DEF AtWork, Processing, Carrying
<1>5. CASE Cleanup \/ StopProcessing
  <2>1. StoreTypes'
    BY <1>5 DEF Cleanup, StopProcessing, Wake, CleanScopes, ExpireJobs, persisted, StoreTypes
  <2>2. /\ \E pc \in {"cleanScopes", "expire", "process", "transfer", "rest"} : Goto(pc)
        /\ bg.pc # "deletions" /\ UNCHANGED lock
    BY <1>5 DEF Cleanup, StopProcessing, Wake, CleanScopes, ExpireJobs, persisted, At
  <2>3. ThreadTypes'
    BY <1>1, <1>2, <1>4, <2>2, GotoTypes
  <2> QED
    BY <1>3, <2>1, <2>3
<1>6. CASE PickJob
  <2>1. PICK s \in Sessions, pc \in {"claim", "reject"} : bg' = [bg EXCEPT !.job = s, !.answer = "none", !.pc = pc]
    BY <1>6 DEF PickJob, In
  <2>2. bg'.job = s /\ bg'.todo = bg.todo /\ bg.pc = "process"
    BY <1>1, <1>6, <2>1 DEF BgShape, PickJob, At
  <2>3. ThreadTypes'
    BY <1>2, <1>6, <2>2 DEF ThreadTypes, PickJob, Hold
  <2>4. StoreTypes'
    BY <1>6 DEF PickJob, persisted, StoreTypes
  <2> QED
    BY <1>3, <2>3, <2>4
<1>7. CASE Process /\ ~(StopProcessing \/ PickJob)
  <2>1. bg.pc \in Processing
    BY <1>7 DEF Process, ClaimJob, Analyze, AfterAnalysis, Build, AfterBuild, WritePackage, Promote, DropRaw,
         Reject, RejectRaw, RejectPackage, Classify, At, Processing
  <2>2. bg.job \in Sessions /\ bg.pc \in AtWork /\ bg.pc # "deletions"
    BY <1>4, <2>1 DEF ThreadTypes
  <2>3. StoreTypes'
    <3>1. /\ raw' \in {raw, raw \ {bg.job}}
          /\ package' \in {package, package \cup {bg.job}, package \ {bg.job}}
          /\ UNCHANGED <<receipts, deletions, volume>>
      BY <1>7 DEF Process, ClaimJob, Analyze, AfterAnalysis, Build, AfterBuild, WritePackage, Promote, DropRaw,
           Reject, RejectRaw, RejectPackage, Classify, notJobs, persisted
    <3> QED
      BY <2>2, <3>1 DEF StoreTypes
  <2>4. ThreadTypes'
    <3>1. CASE ClaimJob \/ AfterAnalysis \/ AfterBuild
      <4>1. \/ \E t, pc : Advance(t, pc)
            \/ UNCHANGED lock /\ \E pc : Goto(pc)
        BY <3>1 DEF ClaimJob, AfterAnalysis, AfterBuild
      <4> QED
        BY <1>1, <1>2, <2>2, <4>1, AdvanceTypes, GotoTypes
    <3>2. CASE Analyze \/ Build
      <4>1. PICK pc, answer : UNCHANGED lock /\ bg' = [bg EXCEPT !.pc = pc, !.answer = answer]
        BY <3>2 DEF Analyze, Build, Classify
      <4>2. bg'.job = bg.job /\ bg'.todo = bg.todo
        BY <1>1, <4>1 DEF BgShape
      <4> QED
        BY <1>2, <2>2, <4>1, <4>2 DEF ThreadTypes
    <3>3. CASE WritePackage \/ Promote \/ DropRaw \/ Reject \/ RejectRaw \/ RejectPackage
      <4>1. lock' \in {lock, "free"} /\ \E pc : Goto(pc)
        BY <3>3 DEF WritePackage, Promote, DropRaw, Reject, RejectRaw, RejectPackage, Unlock, notJobs
      <4> QED
        BY <1>1, <1>2, <2>2, <4>1, GotoTypes
    <3> QED
      BY <1>7, <3>1, <3>2, <3>3 DEF Process
  <2> QED
    BY <1>3, <2>3, <2>4
<1> QED
  BY <1>5, <1>6, <1>7

LEMMA TransferTypes == ASSUME Types, JobsInv, Transfer PROVE Types'
<1> USE DEF Types
<1>1. BgShape /\ server \in Service(MaxGrants)
  BY DEF JobsInv, WorldTypes
<1>2. UNCHANGED <<ui, ctl, optedOut, age, began, crashes, events>>
  BY DEF Transfer, BeginTransfer, NextUpload, CancelUpload, FinishRejected, DropPackage, StartUpload,
       Transmit, Acknowledge, RecordReceipt, CountVolume, LateReceipt, RefusedUpload, RetryLater,
       EndUploads, LockForDeletions, SendDeletion, EndCycle, notJobs, notBg, world
<1>3. /\ {"transfer", "upload", "relock", "deletions", "rest"} \cap AtWork = {}
      /\ Carrying \subseteq AtWork
  BY DEF AtWork, Processing, Carrying
<1>4. CASE BeginTransfer
  <2>1. PICK ready \in SUBSET In({"Eligible"}) :
          bg' = [bg EXCEPT !.pc = "upload", !.todo = ready, !.some = ready # {}]
    BY <1>4 DEF BeginTransfer
  <2>2. bg'.pc = "upload" /\ bg'.todo = ready /\ bg'.job = bg.job /\ ready \subseteq Sessions
    BY <1>1, <2>1 DEF BgShape, In
  <2>3. lock' \in {"free", "background"} /\ "upload" \notin AtWork
    BY <1>3, <1>4 DEF BeginTransfer, Hold
  <2>4. ThreadTypes'
    BY <1>2, <2>2, <2>3 DEF ThreadTypes
  <2>5. server' \in Service(MaxGrants)
    BY <1>1, <1>4, ServiceTypes DEF BeginTransfer
  <2> QED
    BY <1>2, <1>4, <2>4, <2>5 DEF BeginTransfer, persisted, StoreTypes, WorldTypes
<1>5. CASE NextUpload
  <2>1. PICK s \in bg.todo, pc \in {"cancel", "upload", "relock", "send", "finish"} :
          bg' = [bg EXCEPT !.todo = @ \ {s}, !.job = s, !.pc = pc]
    BY <1>5 DEF NextUpload
  <2>2. bg'.pc = pc /\ bg'.todo = bg.todo \ {s} /\ bg'.job = s /\ s \in Sessions /\ bg.pc = "upload"
    BY <1>1, <1>5, <2>1 DEF BgShape, NextUpload, At, ThreadTypes
  <2>3. UNCHANGED lock
    BY <1>5 DEF NextUpload
  <2>4. ThreadTypes'
    BY <1>2, <2>2, <2>3 DEF ThreadTypes
  <2> QED
    BY <1>5, <2>4 DEF NextUpload, notJobs, notBg, world, StoreTypes, WorldTypes
<1>6. CASE \/ CancelUpload \/ FinishRejected \/ DropPackage \/ StartUpload \/ Acknowledge \/ RecordReceipt
           \/ CountVolume \/ LateReceipt \/ RefusedUpload \/ RetryLater
  <2>1. bg.pc \in Carrying
    BY <1>6 DEF CancelUpload, FinishRejected, DropPackage, StartUpload, Acknowledge, RecordReceipt,
         CountVolume, LateReceipt, RefusedUpload, RetryLater, At, Carrying
  <2>2. bg.job \in Sessions /\ bg.pc \in AtWork /\ bg.pc # "deletions"
    BY <1>3, <2>1 DEF ThreadTypes, Carrying
  <2>3. UNCHANGED <<lock, server>> /\ \E pc : Goto(pc)
    BY <1>6 DEF CancelUpload, FinishRejected, DropPackage, StartUpload, Acknowledge, RecordReceipt,
         CountVolume, LateReceipt, RefusedUpload, RetryLater, notJobs, notBg, persisted, world
  <2>4. ThreadTypes'
    BY <1>1, <1>2, <2>2, <2>3, GotoTypes
  <2>5. StoreTypes'
    <3>1. /\ raw' = raw /\ package' \in {package, package \ {bg.job}}
          /\ deletions' \in {deletions, deletions \cup {bg.job}} /\ volume' \in {volume, volume + 1}
          /\ \E r \in {"none", "accepted", "late"} : receipts' \in {receipts, [receipts EXCEPT ![bg.job] = r]}
      <4>1. receipts[bg.job] \in {"none", "accepted", "late"}
        BY <2>2 DEF StoreTypes
      <4>2. CASE RecordReceipt
        BY <1>6, <4>1, <4>2 DEF RecordReceipt
      <4>3. CASE LateReceipt
        BY <1>6, <4>1, <4>3 DEF LateReceipt
      <4>4. CASE CancelUpload \/ FinishRejected \/ StartUpload \/ Acknowledge \/ RefusedUpload \/ RetryLater
        BY <4>4 DEF CancelUpload, FinishRejected, StartUpload, Acknowledge, RefusedUpload, RetryLater, notJobs, persisted
      <4>5. CASE DropPackage \/ CountVolume
        BY <4>5 DEF DropPackage, CountVolume
      <4> QED
        BY <1>6, <4>2, <4>3, <4>4, <4>5
    <3> QED
      BY <2>2, <3>1 DEF StoreTypes
  <2>6. acked' \in {acked, acked + 1}
    BY <1>6 DEF CancelUpload, FinishRejected, DropPackage, StartUpload, Acknowledge, RecordReceipt,
         CountVolume, LateReceipt, RefusedUpload, RetryLater, notJobs, notBg, world
  <2> QED
    BY <1>2, <2>3, <2>4, <2>5, <2>6 DEF WorldTypes
<1>7. CASE Transmit
  <2>1. PICK answer : bg' = [bg EXCEPT !.pc = "answered", !.answer = answer]
    BY <1>7 DEF Transmit
  <2>2. bg'.pc = "answered" /\ bg'.job = bg.job /\ bg'.todo = bg.todo
    BY <1>1, <2>1 DEF BgShape
  <2>3. bg.job \in Sessions /\ bg.pc # "deletions"
    BY <1>3, <1>7 DEF Transmit, At, Carrying, ThreadTypes
  <2>4. ThreadTypes'
    BY <1>2, <1>7, <2>2, <2>3 DEF Transmit, ThreadTypes
  <2>5. server' \in Service(MaxGrants)
    BY <1>1, <1>7, <2>3, ServiceTypes DEF Transmit
  <2> QED
    BY <1>7, <2>4, <2>5 DEF Transmit, persisted, StoreTypes, WorldTypes
<1>8. CASE EndUploads
  <2>1. bg.pc = "upload" /\ Goto("relock") /\ lock' \in {lock, "free"}
    BY <1>8 DEF EndUploads, At, Unlock
  <2>2. ThreadTypes'
    BY <1>1, <1>2, <1>3, <2>1, GotoTypes
  <2> QED
    BY <1>8, <2>2 DEF EndUploads, persisted, notBg, world, StoreTypes, WorldTypes
<1>9. CASE LockForDeletions
  <2>1. bg'.pc = "deletions" /\ bg'.job = bg.job /\ bg'.todo = deletions
    BY <1>1, <1>9 DEF LockForDeletions, BgShape
  <2>2. ThreadTypes'
    BY <1>2, <1>3, <1>9, <2>1 DEF LockForDeletions, Hold, ThreadTypes, StoreTypes
  <2> QED
    BY <1>9, <2>2 DEF LockForDeletions, persisted, notBg, world, StoreTypes, WorldTypes
<1>10. CASE SendDeletion
  <2>1. PICK scope \in bg.todo :
          /\ bg' = [bg EXCEPT !.todo = @ \ {scope}]
          /\ \/ UNCHANGED <<server, deletions>>
             \/ /\ server' = IF scope = Everything THEN DeleteEverything(server) ELSE DeleteReceipt(server, scope)
                /\ deletions' \in {deletions, deletions \ {scope}}
    BY <1>10 DEF SendDeletion
  <2>2. bg'.pc = "deletions" /\ bg'.job = bg.job /\ bg'.todo = bg.todo \ {scope} /\ UNCHANGED lock
    BY <1>1, <1>10, <2>1 DEF SendDeletion, At, BgShape
  <2>3. scope \in Sessions \cup {Everything}
    BY DEF ThreadTypes
  <2>4. \/ server' = server
        \/ server' = DeleteReceipt(server, scope) /\ scope \in Sessions
        \/ server' = DeleteEverything(server)
    BY <2>1, <2>3
  <2>5. server' \in Service(MaxGrants)
    BY <1>1, <2>4, ServiceTypes
  <2>6. ThreadTypes'
    BY <1>2, <1>3, <2>2 DEF ThreadTypes
  <2>7. StoreTypes'
    BY <1>10, <2>1 DEF SendDeletion, StoreTypes
  <2> QED
    BY <1>2, <1>10, <2>5, <2>6, <2>7 DEF SendDeletion, WorldTypes
<1>11. CASE EndCycle
  <2>1. bg'.pc = "rest" /\ bg'.job = Nobody /\ bg'.todo = {} /\ lock' = "free"
    BY <1>11 DEF EndCycle, RestingBg, Unlock
  <2>2. ThreadTypes'
    BY <1>2, <1>3, <2>1 DEF ThreadTypes
  <2> QED
    BY <1>11, <2>2 DEF EndCycle, persisted, notBg, world, StoreTypes, WorldTypes
<1> QED
  BY <1>4, <1>5, <1>6, <1>7, <1>8, <1>9, <1>10, <1>11 DEF Transfer

\* A command that leaves the other threads alone.
LEMMA UiTypes ==
  ASSUME ThreadTypes, UNCHANGED <<bg, ctl, lock>>,
         ui' = [pc |-> ui'.pc, consent |-> ui'.consent, jobs |-> ui'.jobs],
         ui'.consent \in 0..MaxGrants, ui'.jobs \in SUBSET Sessions, optedOut' \in SUBSET Sessions
  PROVE  ThreadTypes'
BY DEF ThreadTypes

LEMMA CommandTypes == ASSUME Types, JobsInv, Command PROVE Types'
<1> USE DEF Types
<1>1. /\ UNCHANGED <<bg, ctl, lock, age, began, acked, crashes, receipts, volume>>
      /\ events' \in 0..MaxEvents
  <2>1. events \in 0..MaxEvents
    BY DEF WorldTypes
  <2>2. ASSUME Event PROVE events' \in 0..MaxEvents
    BY <2>1, <2>2 DEF Event
  <2>3. UNCHANGED <<bg, ctl, lock, age, began, acked, crashes, receipts, volume>> /\ (Event \/ UNCHANGED events)
    BY DEF Command, Grant, RegisterGrant, SetPaused, BeginWithdraw, Revoke, BeginDeletion, CancelAllJobs,
         DropCancelledRaw, NotifyServer, RequestDeletion, OptOut, OptOutQueue, OptOutRaw, notUi, persisted,
         Begin, Continue
  <2> QED
    BY <2>1, <2>2, <2>3
<1>2. StoreTypes'
  <2>1. /\ raw' \in {raw, raw \ ui.jobs} /\ deletions' \in {deletions, deletions \cup {Everything}}
        /\ package' \subseteq package
    BY DEF Command, Grant, RegisterGrant, SetPaused, BeginWithdraw, Revoke, BeginDeletion, CancelAllJobs,
         DropCancelledRaw, NotifyServer, RequestDeletion, OptOut, OptOutQueue, OptOutRaw, persisted
  <2> QED
    BY <1>1, <2>1 DEF StoreTypes
<1>3. server' \in Service(MaxGrants)
  <2>1. server \in Service(MaxGrants)
    BY DEF WorldTypes
  <2>4. CASE RegisterGrant
    BY <2>1, <2>4, ServiceTypes DEF RegisterGrant
  <2>5. CASE NotifyServer
    BY <2>1, <2>5, ServiceTypes DEF NotifyServer
  <2>6. CASE Command /\ ~RegisterGrant /\ ~NotifyServer
    BY <2>1, <2>6 DEF Command, Grant, SetPaused, BeginWithdraw, Revoke, BeginDeletion, CancelAllJobs,
         DropCancelledRaw, RequestDeletion, OptOut, OptOutQueue, OptOutRaw
  <2> QED
    BY <2>4, <2>5, <2>6
<1>4. WorldTypes'
  BY <1>1, <1>3 DEF WorldTypes
<1>5. /\ ui = [pc |-> ui.pc, consent |-> ui.consent, jobs |-> ui.jobs]
      /\ ui.consent \in 0..MaxGrants /\ ui.jobs \in SUBSET Sessions /\ optedOut \in SUBSET Sessions
  BY DEF ThreadTypes
<1>6. /\ RestingUi = [pc |-> RestingUi.pc, consent |-> RestingUi.consent, jobs |-> RestingUi.jobs]
      /\ RestingUi.consent \in 0..MaxGrants /\ RestingUi.jobs = {}
  BY DEF RestingUi
<1>7. ASSUME NEW pc, ui' = [ui EXCEPT !.pc = pc], UNCHANGED optedOut PROVE ThreadTypes'
  <2>1. ui' = [pc |-> pc, consent |-> ui.consent, jobs |-> ui.jobs]
    BY <1>5, <1>7
  <2> QED
    BY <1>1, <1>5, <1>7, <2>1, UiTypes
<1>8. ASSUME ui' = RestingUi \/ UNCHANGED ui, UNCHANGED optedOut PROVE ThreadTypes'
  BY <1>1, <1>5, <1>6, <1>8, UiTypes
<1>9. CASE Grant \/ Revoke \/ BeginDeletion \/ DropCancelledRaw \/ OptOutQueue
  BY <1>7, <1>9, <1>2, <1>4 DEF Grant, Revoke, BeginDeletion, DropCancelledRaw, OptOutQueue, notUi
<1>10. CASE RegisterGrant \/ RequestDeletion \/ OptOutRaw \/ \E paused \in BOOLEAN : SetPaused(paused)
  BY <1>8, <1>10, <1>2, <1>4 DEF RegisterGrant, RequestDeletion, OptOutRaw, SetPaused, notUi
<1>11. CASE NotifyServer
  BY <1>7, <1>8, <1>11, <1>2, <1>4 DEF NotifyServer, notUi
<1>12. CASE BeginWithdraw
  <2>1. PICK pc : ui' = [ui EXCEPT !.consent = Current(consents), !.pc = pc]
    BY <1>12 DEF BeginWithdraw
  <2>2. Current(consents) \in 0..MaxGrants
    BY DEF JobsInv, Current
  <2>3. ui' = [pc |-> pc, consent |-> Current(consents), jobs |-> ui.jobs] /\ UNCHANGED optedOut
    BY <1>5, <1>12, <2>1 DEF BeginWithdraw, notUi
  <2> QED
    BY <1>1, <1>2, <1>4, <1>5, <2>2, <2>3, UiTypes
<1>13. CASE CancelAllJobs
  <2>1. ui' = [pc |-> "dropRaw", consent |-> ui.consent, jobs |-> In(Cancellable)] /\ UNCHANGED optedOut
    BY <1>5, <1>13 DEF CancelAllJobs, notUi
  <2>2. In(Cancellable) \in SUBSET Sessions
    BY DEF In
  <2> QED
    BY <1>1, <1>2, <1>4, <1>5, <2>1, <2>2, UiTypes
<1>14. ASSUME NEW s \in Sessions, OptOut(s) PROVE Types'
  <2>1. ui' = [pc |-> "optOutQueue", consent |-> ui.consent, jobs |-> {s}] /\ optedOut' = optedOut \cup {s}
    BY <1>5, <1>14 DEF OptOut
  <2> QED
    BY <1>1, <1>2, <1>4, <1>5, <2>1, UiTypes
<1> QED
  BY <1>9, <1>10, <1>11, <1>12, <1>13, <1>14 DEF Command

LEMMA EnvironmentTypes == ASSUME Types, Environment PROVE Types'
<1> USE DEF Types
<1>1. ASSUME Event PROVE events' \in 0..MaxEvents
  BY <1>1 DEF Event, WorldTypes
<1>2. CASE ConsentExpires \/ Midnight
  BY <1>1, <1>2 DEF ConsentExpires, Midnight, notTime, StoreTypes, ThreadTypes, WorldTypes
<1>3. ASSUME NEW s \in Sessions, Grow(s) PROVE Types'
  <2>1. age' \in [Sessions -> {"fresh", "day", "week"}]
    BY <1>3 DEF Grow, WorldTypes
  <2> QED
    BY <1>1, <1>3, <2>1 DEF Grow, notTime, StoreTypes, ThreadTypes, WorldTypes
<1>4. CASE Crash
  <2>1. crashes' \in 0..MaxCrashes
    BY <1>4 DEF Crash, WorldTypes
  <2>2. "rest" \notin AtWork
    BY DEF AtWork, Processing, Carrying
  <2>3. ThreadTypes'
    BY <1>4, <2>2 DEF Crash, RestingBg, RestingUi, RestingCtl, ThreadTypes
  <2> QED
    BY <1>1, <1>4, <2>1, <2>3 DEF Crash, persisted, StoreTypes, WorldTypes
<1> QED
  BY <1>2, <1>3, <1>4 DEF Environment

\* Every variable keeps its type; in particular no transfer is tried more often than
\* RetrySettings allows, as long as it allows one: a job that is put off, or taken back
\* when dictation begins, has an attempt left.
THEOREM TypeCorrect == MaxAttempts # 0 => (Spec => []TypeOK)
<1> SUFFICES ASSUME MaxAttempts # 0 PROVE Spec => []TypeOK
  OBVIOUS
<1> DEFINE Inv == HandInv /\ TriesInv /\ Types
<1>1. Init => Inv
  <2> SUFFICES ASSUME Init PROVE TriesInv /\ Types
    BY HandStart
  <2>1. NoJob.consent = 0 /\ NoJob.attempts = 0 /\ 0 < MaxAttempts
    BY DEF NoJob
  <2>2. TriesInv
    BY <2>1 DEF Init, TriesInv, Tries
  <2>3. NoService(MaxGrants) \in Service(MaxGrants)
    BY DEF NoService, Service
  <2>4. "rest" \notin AtWork
    BY DEF AtWork, Processing, Carrying
  <2> QED
    BY <2>2, <2>3, <2>4 DEF Init, Types, StoreTypes, ThreadTypes, WorldTypes, RestingBg, RestingUi, RestingCtl, NotBegun
<1>2. Inv /\ [Next]_vars => Inv'
  <2> SUFFICES ASSUME Inv, [Next]_vars PROVE TriesInv' /\ Types'
    BY HandSteps
  <2>1. JobsInv
    BY DEF HandInv
  <2>2. CASE UNCHANGED vars
    BY <2>2, StillTries DEF vars, persisted, world, Types, StoreTypes, ThreadTypes, WorldTypes
  <2>3. CASE Next
    BY <2>1, <2>3, ProcessTries, TransferTries, OthersTries, ControllerTypes, ProcessTypes, TransferTypes,
       CommandTypes, EnvironmentTypes DEF Next, Background
  <2> QED
    BY <2>2, <2>3
<1>3. Inv => TypeOK
  <2> SUFFICES ASSUME Inv PROVE TypeOK
    OBVIOUS
  <2>1. consents \in Seq(ConsentStatus) /\ Len(consents) \in 0..MaxGrants
    BY DEF HandInv, JobsInv
  <2>2. jobs \in [Sessions -> Job]
    BY DEF HandInv, JobsInv, TriesInv, Tries, JobLike, Job
  <2> QED
    BY <2>1, <2>2 DEF TypeOK, Types, StoreTypes, ThreadTypes, WorldTypes
<1> QED
  BY <1>1, <1>2, <1>3, PTL DEF Spec
=============================================================================
