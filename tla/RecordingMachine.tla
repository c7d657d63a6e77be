-------------------------- MODULE RecordingMachine --------------------------
(***************************************************************************)
(* The recording state machine among arbitrary callers: any event may be   *)
(* presented in any state, and the effects of an accepted event are        *)
(* issued to a performer.  The performer's side is the record io: what     *)
(* the effects issued so far amount to for the current session.  This is   *)
(* the contract every driver of the machine relies on, whatever the order  *)
(* in which shortcuts, API calls, worker results and timers reach it.      *)
(***************************************************************************)
EXTENDS Recording, Naturals

VARIABLES m,    \* the machine
          io    \* what the issued effects add up to

machineVars == <<m, io>>

\* capturing: StartCapture not yet followed by StopCapture; held: resources
\* taken by StartCapture and not released; discarded, deliveries: what was
\* issued for the session since its StartCapture.
NoIO == [capturing |-> FALSE, held |-> FALSE, discarded |-> FALSE, deliveries |-> 0]

Issue(x, effects) ==
  LET issued(effect) == \E i \in DOMAIN effects : effects[i] = effect
  IN  IF issued("StartCapture")
      THEN [NoIO EXCEPT !.capturing = TRUE, !.held = TRUE]
      ELSE [capturing  |-> x.capturing /\ ~issued("StopCapture"),
            held       |-> x.held /\ ~issued("ReleaseResources"),
            discarded  |-> x.discarded \/ issued("DiscardSession"),
            deliveries |-> x.deliveries + (IF issued("DeliverText") THEN 1 ELSE 0)]

Take(outcome) ==
  /\ outcome.verdict = "accepted"
  /\ m' = outcome.m
  /\ io' = Issue(io, outcome.effects)

-----------------------------------------------------------------------------
MachineInit == m = NewMachine /\ io = NoIO

Present(event) == \E id \in Sessions \cup {NoSession} : Take(Handle(m, event, id))
Clock(elapsed) == Take(Tick(m, elapsed))

MachineNext == \/ \E event \in Event : Present(event)
        \/ \E elapsed \in Elapsed : Clock(elapsed)

MachineSpec == MachineInit /\ [][MachineNext]_machineVars

-----------------------------------------------------------------------------
\* Types; the effects issued never push a session past one delivery.
MachineTypeOK == /\ m \in Machine
          /\ io \in [capturing : BOOLEAN, held : BOOLEAN, discarded : BOOLEAN,
                     deliveries : {0, 1}]

\* The microphone has been told to run exactly while the machine is starting or
\* recording: no order of events leaves it running after a stop, a cancel or an
\* error, and no session starts capture while another one's is still running.
CaptureTracksState == io.capturing <=> m.state \in Recording \cup {"Starting"}

\* Whatever way a session ended, its resources have been released by the time
\* the machine is idle again and may start the next one.
IdleMeansReleased ==
  /\ m.state = "Idle" => ~io.held
  /\ m.state \in {"Cancelled", "Error"} => ~io.held /\ io.discarded

\* "Impossible for a late finalization to authorize delivery after
\* cancellation": text is authorized once per session at most, and never after
\* the session was discarded.
DeliverOnceUndiscarded ==
  [][io'.deliveries > io.deliveries
       => /\ ~io.discarded /\ ~m.cancelRequested
          /\ io.deliveries = 0
          /\ m'.session = m.session /\ m.session # NoSession]_machineVars

\* A release or stop that arrives before the microphone is up is not lost: the
\* session goes to finalization (or is abandoned) without ever recording on.
EarlyStopHonoured ==
  [][m.state = "Starting" /\ m.pendingStop /\ m'.state # "Starting"
       => m'.state \in {"Finalizing", "Cancelled", "Error"}]_machineVars

\* "Keeping stop/cancel idempotent": from every reachable state the second of
\* two stops, or of two cancels, changes nothing and asks for nothing.
RepeatIsSilent ==
  \A event \in {"Stop", "Cancel"} :
    LET once  == Handle(m, event, NoSession).m
        twice == Handle(once, event, NoSession)
    IN  twice.m = once /\ twice.effects = << >>
=============================================================================
