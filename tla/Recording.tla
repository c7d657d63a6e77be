----------------------------- MODULE Recording ------------------------------
(***************************************************************************)
(* The pure recording state machine of dictation-core (recording.rs).      *)
(*                                                                         *)
(* The machine performs no I/O: handling an event yields an Outcome, which *)
(* is the next machine, the effects the caller has to perform, and whether *)
(* the event was accepted, ignored, or an invalid transition (the code's   *)
(* Err).  Every operator below is one method of RecordingStateMachine.     *)
(* RecordingMachine puts the machine among arbitrary callers; Controller   *)
(* puts it under the desktop's serialized control loop.                    *)
(*                                                                         *)
(* A definition whose name ends in _Mut is a mutated form of the one that  *)
(* follows it: a bug the properties must detect, used by no specification. *)
(***************************************************************************)
EXTENDS Sequences

CONSTANTS Sessions,   \* the session identifiers a caller can present
          NoSession   \* None

ASSUME SessionAssumption == NoSession \notin Sessions

State == {"Idle", "Starting", "RecordingHeld", "RecordingLocked",
          "Finalizing", "Delivering", "Cancelled", "Error"}

Event == {"HoldDown", "HoldUp", "Toggle", "Lock", "Stop", "Cancel",
          "CaptureStarted", "Finalized", "Delivered", "Failed",
          "DurationLimit", "Reset"}

Effect == {"StartCapture", "StopCapture", "FinalizeTranscript", "DeliverText",
           "DiscardSession", "AnnounceState", "WarnDurationLimit",
           "ReleaseResources"}

Recording == {"RecordingHeld", "RecordingLocked"}
ActiveState == Recording \cup {"Starting", "Finalizing", "Delivering"}

\* The four flag bits are fields; started_at_ms is set and cleared with the
\* session identifier, and the time itself is the caller's choice in Tick.
Machine == [state : State, session : Sessions \cup {NoSession},
            cancelRequested : BOOLEAN, pendingLocked : BOOLEAN,
            pendingStop : BOOLEAN, warned : BOOLEAN]

NewMachine == [state |-> "Idle", session |-> NoSession,
               cancelRequested |-> FALSE, pendingLocked |-> FALSE,
               pendingStop |-> FALSE, warned |-> FALSE]

-----------------------------------------------------------------------------
Accepted(m, effects) == [verdict |-> "accepted", m |-> m, effects |-> effects]
Ignored(m) == [verdict |-> "ignored", m |-> m, effects |-> << >>]
Invalid(m) == [verdict |-> "invalid", m |-> m, effects |-> << >>]

Abandon_MutStop == <<"DiscardSession", "AnnounceState", "ReleaseResources">>
Abandon_MutRelease == <<"StopCapture", "DiscardSession", "AnnounceState">>
Abandon == <<"StopCapture", "DiscardSession", "AnnounceState", "ReleaseResources">>

BeginFinalize_Mut(m) ==
  Accepted([m EXCEPT !.state = "Finalizing"], <<"StopCapture", "AnnounceState">>)
BeginFinalize(m) ==
  Accepted([m EXCEPT !.state = "Finalizing"],
           <<"StopCapture", "FinalizeTranscript", "AnnounceState">>)

Start(m, locked, id) ==
  CASE m.state \in {"Starting", "Finalizing", "Delivering"} \cup Recording -> Ignored(m)
    [] m.state = "Idle" /\ id # NoSession ->
         Accepted([NewMachine EXCEPT !.state = "Starting", !.session = id,
                                     !.pendingLocked = locked],
                  <<"StartCapture", "AnnounceState">>)
    [] OTHER -> Invalid(m)

Toggle(m, id) ==
  CASE m.state = "Idle"       -> Start(m, TRUE, id)
    [] m.state = "Starting"   -> Accepted([m EXCEPT !.pendingStop = TRUE], << >>)
    [] m.state \in Recording  -> BeginFinalize(m)
    [] OTHER                  -> Ignored(m)

HoldUp_Mut(m) ==
  IF m.state = "Starting" THEN Accepted([m EXCEPT !.pendingStop = TRUE], << >>) ELSE Ignored(m)
HoldUp(m) ==
  CASE m.state = "RecordingHeld" -> BeginFinalize(m)
    [] m.state = "Starting" /\ ~m.pendingLocked ->
         Accepted([m EXCEPT !.pendingStop = TRUE], << >>)
    [] OTHER -> Ignored(m)

Lock(m) ==
  CASE m.state = "RecordingHeld" ->
         Accepted([m EXCEPT !.state = "RecordingLocked"], <<"AnnounceState">>)
    [] m.state = "Starting" -> Accepted([m EXCEPT !.pendingLocked = TRUE], << >>)
    [] OTHER -> Ignored(m)

Stop_Mut(m) ==
  IF m.state \in Recording \cup {"Finalizing"} THEN BeginFinalize(m) ELSE Ignored(m)
Stop(m) ==
  CASE m.state \in Recording -> BeginFinalize(m)
    [] m.state = "Starting"  -> Accepted([m EXCEPT !.pendingStop = TRUE], << >>)
    [] OTHER -> Ignored(m)

Cancel(m) ==
  IF m.state \in {"Idle", "Cancelled"}
  THEN Ignored(m)
  ELSE Accepted([m EXCEPT !.cancelRequested = TRUE, !.state = "Cancelled"], Abandon)

CaptureStarted_Mut(m) ==
  IF m.state = "Starting"
  THEN Accepted([m EXCEPT !.state = "RecordingHeld"], <<"AnnounceState">>) ELSE Ignored(m)
CaptureStarted(m) ==
  LET recording == [m EXCEPT !.state = IF m.pendingLocked THEN "RecordingLocked"
                                                          ELSE "RecordingHeld"]
  IN  CASE m.state # "Starting" -> Ignored(m)
        [] m.state = "Starting" /\ m.pendingStop ->
             BeginFinalize([recording EXCEPT !.pendingStop = FALSE])
        [] OTHER -> Accepted(recording, <<"AnnounceState">>)

Finalized_Mut(m) ==
  IF m.state = "Idle" THEN Ignored(m)
  ELSE Accepted([m EXCEPT !.state = "Delivering"], <<"DeliverText">>)
Finalized(m) ==
  CASE m.state # "Finalizing" -> Ignored(m)
    [] m.state = "Finalizing" /\ m.cancelRequested ->
         Accepted([m EXCEPT !.state = "Cancelled"], <<"DiscardSession">>)
    [] OTHER -> Accepted([m EXCEPT !.state = "Delivering"], <<"DeliverText">>)

Delivered(m) ==
  IF m.state = "Delivering"
  THEN Accepted([m EXCEPT !.state = "Idle", !.session = NoSession],
                <<"AnnounceState", "ReleaseResources">>)
  ELSE Ignored(m)

Failed(m) ==
  IF m.state = "Idle" THEN Ignored(m)
                      ELSE Accepted([m EXCEPT !.state = "Error"], Abandon)

DurationLimit(m) == IF m.state \in Recording THEN BeginFinalize(m) ELSE Ignored(m)

Reset(m) ==
  CASE m.state \in {"Cancelled", "Error"} -> Accepted(NewMachine, <<"AnnounceState">>)
    [] m.state = "Idle" -> Ignored(m)
    [] OTHER -> Invalid(m)

\* RecordingStateMachine::handle.  id is looked at by the starting events only.
Handle(m, event, id) ==
  CASE event = "HoldDown"       -> Start(m, FALSE, id)
    [] event = "HoldUp"         -> HoldUp(m)
    [] event = "Toggle"         -> Toggle(m, id)
    [] event = "Lock"           -> Lock(m)
    [] event = "Stop"           -> Stop(m)
    [] event = "Cancel"         -> Cancel(m)
    [] event = "CaptureStarted" -> CaptureStarted(m)
    [] event = "Finalized"      -> Finalized(m)
    [] event = "Delivered"      -> Delivered(m)
    [] event = "Failed"         -> Failed(m)
    [] event = "DurationLimit"  -> DurationLimit(m)
    [] event = "Reset"          -> Reset(m)

\* RecordingStateMachine::tick.  elapsed says which threshold the session's
\* age has passed: none, the warning, or the limit.
Elapsed == {"within", "warning", "limit"}

Tick_Mut(m, elapsed) ==
  IF m.state = "RecordingHeld" /\ elapsed = "limit" THEN DurationLimit(m) ELSE Ignored(m)
Tick(m, elapsed) ==
  CASE m.state \in Recording /\ elapsed = "limit" -> DurationLimit(m)
    [] m.state \in Recording /\ elapsed = "warning" /\ ~m.warned ->
         Accepted([m EXCEPT !.warned = TRUE], <<"WarnDurationLimit">>)
    [] OTHER -> Ignored(m)
=============================================================================
