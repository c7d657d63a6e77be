----------------------- MODULE RecordingMachineProofs -----------------------
(***************************************************************************)
(* The contract of the recording machine, for every set of sessions.       *)
(***************************************************************************)
EXTENDS RecordingMachine, TLAPS

\* The inductive invariant: MachineTypeOK, CaptureTracksState and IdleMeansReleased,
\* and what they need of each other: a machine that can still reach delivery
\* has a session, was not asked to cancel, and nothing was issued for it yet
\* that discards or delivers.  It is this last part that makes the
\* cancelRequested branch of Finalized unreachable.
IInv ==
  /\ MachineTypeOK
  /\ CaptureTracksState
  /\ IdleMeansReleased
  /\ m.state \in Recording \cup {"Starting", "Finalizing"}
       => /\ ~m.cancelRequested
          /\ ~io.discarded
          /\ io.deliveries = 0
          /\ m.session # NoSession

-----------------------------------------------------------------------------
(* What issuing a sequence of effects depends on is the set of them.       *)
Issued(effects) == {effects[i] : i \in DOMAIN effects}

\* What an outcome's effects do to the performer depends on which effects there
\* are, not on their order (perform carries them out one by one).
LEMMA IssueBySet ==
  ASSUME NEW x, NEW effects
  PROVE  /\ "StartCapture" \in Issued(effects)
              => Issue(x, effects) = [capturing |-> TRUE, held |-> TRUE,
                                      discarded |-> FALSE, deliveries |-> 0]
         /\ "StartCapture" \notin Issued(effects)
              => Issue(x, effects) =
                   [capturing  |-> x.capturing /\ "StopCapture" \notin Issued(effects),
                    held       |-> x.held /\ "ReleaseResources" \notin Issued(effects),
                    discarded  |-> x.discarded \/ "DiscardSession" \in Issued(effects),
                    deliveries |-> x.deliveries + (IF "DeliverText" \in Issued(effects)
                                                   THEN 1 ELSE 0)]
  BY DEF Issue, Issued, NoIO

\* The effects of every kind of outcome recording.rs builds, as sets.
LEMMA IssuedSets ==
  /\ Issued(Abandon) = {"StopCapture", "DiscardSession", "AnnounceState", "ReleaseResources"}
  /\ Issued(<<"StopCapture", "FinalizeTranscript", "AnnounceState">>)
       = {"StopCapture", "FinalizeTranscript", "AnnounceState"}
  /\ Issued(<<"StartCapture", "AnnounceState">>) = {"StartCapture", "AnnounceState"}
  /\ Issued(<<"AnnounceState", "ReleaseResources">>) = {"AnnounceState", "ReleaseResources"}
  /\ \A e : Issued(<<e>>) = {e}
  /\ Issued(<< >>) = {}
  BY DEF Issued, Abandon

-----------------------------------------------------------------------------
\* A new machine (RecordingStateMachine::new) satisfies the invariant.
LEMMA InitInv == MachineInit => IInv
  BY SessionAssumption
  DEF MachineInit, IInv, MachineTypeOK, Machine, NewMachine, NoIO, State, Recording,
      CaptureTracksState, IdleMeansReleased

(* The shapes an accepted outcome takes, and that each keeps the invariant. *)
Abandons(out) == /\ out.effects = Abandon
                 /\ out.m.state \in {"Cancelled", "Error"}

Finalizes(out) == /\ out.effects = <<"StopCapture", "FinalizeTranscript", "AnnounceState">>
                  /\ m.state \in Recording \cup {"Starting"}
                  /\ out.m.state = "Finalizing"
                  /\ out.m.cancelRequested = m.cancelRequested
                  /\ out.m.session = m.session

Starts(out) == /\ out.effects = <<"StartCapture", "AnnounceState">>
               /\ out.m.state = "Starting"
               /\ ~out.m.cancelRequested
               /\ out.m.session # NoSession

Completes(out) == /\ out.effects = <<"AnnounceState", "ReleaseResources">>
                  /\ m.state = "Delivering" /\ out.m.state = "Idle"

Delivers(out) == /\ out.effects = <<"DeliverText">>
                 /\ m.state = "Finalizing" /\ out.m.state = "Delivering"
                 /\ out.m.session = m.session

Listens(out) == /\ out.effects \in {<< >>, <<"AnnounceState">>, <<"WarnDurationLimit">>}
                /\ m.state \in Recording \cup {"Starting"}
                /\ (out.m.state = "Starting" <=> m.state = "Starting") \/ out.m.state \in Recording
                /\ out.m.state \in Recording \cup {"Starting"}
                /\ out.m.cancelRequested = m.cancelRequested
                /\ out.m.session = m.session

Rests(out) == /\ out.effects = <<"AnnounceState">>
              /\ m.state \in {"Cancelled", "Error"} /\ out.m.state = "Idle"

Shaped(out) == \/ Abandons(out) \/ Finalizes(out) \/ Starts(out) \/ Completes(out)
               \/ Delivers(out) \/ Listens(out) \/ Rests(out)

\* Taking an accepted outcome of one of these shapes preserves the invariant,
\* whichever method of the machine produced it.
LEMMA TakeInv ==
  ASSUME IInv, NEW out, Take(out), out.m \in Machine, Shaped(out)
  PROVE  IInv'
<1> DEFINE eff == Issued(out.effects)
<1>1. /\ m' = out.m
      /\ "StartCapture" \in eff
           => io' = [capturing |-> TRUE, held |-> TRUE, discarded |-> FALSE, deliveries |-> 0]
      /\ "StartCapture" \notin eff
           => io' = [capturing  |-> io.capturing /\ "StopCapture" \notin eff,
                     held       |-> io.held /\ "ReleaseResources" \notin eff,
                     discarded  |-> io.discarded \/ "DiscardSession" \in eff,
                     deliveries |-> io.deliveries + (IF "DeliverText" \in eff THEN 1 ELSE 0)]
  BY IssueBySet DEF Take
<1> USE DEF IInv, MachineTypeOK, CaptureTracksState, IdleMeansReleased, Recording
<1>2. CASE Abandons(out)
  <2>1. io' = [capturing |-> FALSE, held |-> FALSE, discarded |-> TRUE, deliveries |-> io.deliveries]
    <3>1. eff = {"StopCapture", "DiscardSession", "AnnounceState", "ReleaseResources"}
      BY <1>2, IssuedSets DEF Abandons
    <3>2. io' = [capturing  |-> io.capturing /\ FALSE,
                 held       |-> io.held /\ FALSE,
                 discarded  |-> io.discarded \/ TRUE,
                 deliveries |-> io.deliveries + 0]
      BY <1>1, <3>1
    <3>3. (io.capturing /\ FALSE) = FALSE /\ (io.held /\ FALSE) = FALSE
          /\ (io.discarded \/ TRUE) = TRUE
      OBVIOUS
    <3>4. io.deliveries + 0 = io.deliveries
      OBVIOUS
    <3> QED
      BY <3>2, <3>3, <3>4, Zenon
  <2> QED
    BY <1>1, <1>2, <2>1 DEF Abandons
<1>3. CASE Finalizes(out)
  <2>1. io' = [capturing |-> FALSE, held |-> io.held, discarded |-> io.discarded, deliveries |-> io.deliveries]
    BY <1>1, <1>3, IssuedSets DEF Finalizes
  <2> QED
    BY <1>1, <1>3, <2>1 DEF Finalizes
<1>4. CASE Starts(out)
  <2>1. io' = [capturing |-> TRUE, held |-> TRUE, discarded |-> FALSE, deliveries |-> 0]
    BY <1>1, <1>4, IssuedSets DEF Starts
  <2> QED
    BY <1>1, <1>4, <2>1 DEF Starts
<1>5. CASE Completes(out)
  <2>1. io' = [capturing |-> io.capturing, held |-> FALSE, discarded |-> io.discarded, deliveries |-> io.deliveries]
    BY <1>1, <1>5, IssuedSets DEF Completes
  <2> QED
    BY <1>1, <1>5, <2>1 DEF Completes
<1>6. CASE Delivers(out)
  <2>1. io' = [capturing |-> io.capturing, held |-> io.held, discarded |-> io.discarded, deliveries |-> 1]
    BY <1>1, <1>6, IssuedSets DEF Delivers
  <2> QED
    BY <1>1, <1>6, <2>1 DEF Delivers
<1>7. CASE Listens(out)
  <2>1. io' = io
    BY <1>1, <1>7, IssuedSets DEF Listens
  <2> QED
    BY <1>1, <1>7, <2>1 DEF Listens
<1>8. CASE Rests(out)
  <2>1. io' = io
    BY <1>1, <1>8, IssuedSets DEF Rests
  <2> QED
    BY <1>1, <1>8, <2>1 DEF Rests
<1> QED
  BY <1>2, <1>3, <1>4, <1>5, <1>6, <1>7, <1>8 DEF Shaped

-----------------------------------------------------------------------------
(* Every accepted outcome has one of the shapes: one step per event.        *)
\* Outcome::accepted, Outcome::ignored and Err are told apart by their verdict.
LEMMA BuiltOutcomes ==
  ASSUME NEW n, NEW effects
  PROVE  /\ Accepted(n, effects).m = n
         /\ Accepted(n, effects).effects = effects
         /\ Ignored(n).verdict # "accepted"
         /\ Invalid(n).verdict # "accepted"
  BY DEF Accepted, Ignored, Invalid

\* begin_finalize, from a recording or starting machine, yields a Finalizes.
LEMMA FinalizeShape ==
  ASSUME m \in Machine, m.state \in Recording
  PROVE  BeginFinalize(m).m \in Machine /\ Finalizes(BeginFinalize(m))
<1> DEFINE n == [m EXCEPT !.state = "Finalizing"]
<1>1. /\ n \in Machine /\ n.state = "Finalizing"
      /\ n.cancelRequested = m.cancelRequested /\ n.session = m.session
  BY DEF Machine, State
<1> QED
  <2>1. BeginFinalize(m) = Accepted(n, <<"StopCapture", "FinalizeTranscript", "AnnounceState">>)
    BY DEF BeginFinalize
  <2> HIDE DEF n
  <2> QED
    BY <1>1, <2>1, BuiltOutcomes DEF Finalizes

\* An accepted start yields a Starts, for either starting event.
LEMMA StartShape ==
  ASSUME m \in Machine, NEW id \in Sessions \cup {NoSession}, NEW locked \in BOOLEAN,
         Start(m, locked, id).verdict = "accepted"
  PROVE  Start(m, locked, id).m \in Machine /\ Starts(Start(m, locked, id))
<1> DEFINE n == [NewMachine EXCEPT !.state = "Starting", !.session = id,
                                   !.pendingLocked = locked]
<1>1. id # NoSession /\ Start(m, locked, id) = Accepted(n, <<"StartCapture", "AnnounceState">>)
  BY BuiltOutcomes DEF Start
<1>2. n \in Machine /\ n.state = "Starting" /\ ~n.cancelRequested /\ n.session = id
  BY DEF Machine, State, NewMachine
<1> HIDE DEF n
<1> QED
  BY <1>1, <1>2, BuiltOutcomes DEF Starts

\* Every event handle accepts, in any state the invariant allows, yields an
\* outcome of one of the shapes: no method hands out effects its state forbids.
LEMMA PresentShape ==
  ASSUME IInv, NEW event \in Event, NEW id \in Sessions \cup {NoSession},
         Handle(m, event, id).verdict = "accepted"
  PROVE  Handle(m, event, id).m \in Machine /\ Shaped(Handle(m, event, id))
<1> DEFINE out == Handle(m, event, id)
<1>1. m \in Machine
  BY DEF IInv, MachineTypeOK
<1>2. CASE event = "Cancel"
  <2>1. out = Cancel(m)
    BY <1>2 DEF Handle
  <2> DEFINE n == [m EXCEPT !.cancelRequested = TRUE, !.state = "Cancelled"]
  <2>2. out = Accepted(n, Abandon)
    BY <2>1, BuiltOutcomes DEF Cancel
  <2>3. n \in Machine /\ n.state = "Cancelled"
    BY <1>1 DEF Machine, State
  <2> HIDE DEF n
  <2> QED
    BY <2>2, <2>3, BuiltOutcomes DEF Abandons, Shaped, Recording
<1>3. CASE event = "Failed"
  <2>1. out = Failed(m)
    BY <1>3 DEF Handle
  <2> DEFINE n == [m EXCEPT !.state = "Error"]
  <2>2. out = Accepted(n, Abandon)
    BY <2>1, BuiltOutcomes DEF Failed
  <2>3. n \in Machine /\ n.state = "Error"
    BY <1>1 DEF Machine, State
  <2> HIDE DEF n
  <2> QED
    BY <2>2, <2>3, BuiltOutcomes DEF Abandons, Shaped, Recording
<1>4. CASE event = "HoldDown"
  <2>1. out = Start(m, FALSE, id)
    BY <1>4 DEF Handle
  <2> QED
    BY <2>1, <1>1, StartShape DEF Shaped
<1>5. CASE event = "HoldUp"
  <2>1. out = HoldUp(m)
    BY <1>5 DEF Handle
  <2>2. CASE m.state \in Recording
    BY <2>1, <2>2, <1>1, FinalizeShape, BuiltOutcomes DEF HoldUp, Shaped, Recording
  <2>3. CASE m.state \notin Recording
    <3> DEFINE n == [m EXCEPT !.pendingStop = TRUE]
    <3>2. m.state = "Starting" /\ out = Accepted(n, << >>)
      BY <2>1, <2>3, BuiltOutcomes DEF HoldUp, Recording
    <3>3. n \in Machine /\ n.state = m.state /\ n.cancelRequested = m.cancelRequested /\ n.session = m.session
      BY <1>1 DEF Machine, State
    <3> HIDE DEF n
    <3> QED
      BY <3>2, <3>3, <2>3, BuiltOutcomes DEF Listens, Shaped, Recording
  <2> QED
    BY <2>2, <2>3
<1>6. CASE event = "Stop"
  <2>1. out = Stop(m)
    BY <1>6 DEF Handle
  <2>2. CASE m.state \in Recording
    BY <2>1, <2>2, <1>1, FinalizeShape DEF Stop, Shaped, Recording
  <2>3. CASE m.state \notin Recording
    <3> DEFINE n == [m EXCEPT !.pendingStop = TRUE]
    <3>2. m.state = "Starting" /\ out = Accepted(n, << >>)
      BY <2>1, <2>3, BuiltOutcomes DEF Stop, Recording
    <3>3. n \in Machine /\ n.state = m.state /\ n.cancelRequested = m.cancelRequested /\ n.session = m.session
      BY <1>1 DEF Machine, State
    <3> HIDE DEF n
    <3> QED
      BY <3>2, <3>3, <2>3, BuiltOutcomes DEF Listens, Shaped, Recording
  <2> QED
    BY <2>2, <2>3
<1>7. CASE event = "Toggle"
  <2>1. out = Toggle(m, id)
    BY <1>7 DEF Handle
  <2>2. CASE m.state \in Recording
    BY <2>1, <2>2, <1>1, FinalizeShape DEF Toggle, Shaped, Recording
  <2>3. CASE m.state \notin Recording \cup {"Idle"}
    <3> DEFINE n == [m EXCEPT !.pendingStop = TRUE]
    <3>2. m.state = "Starting" /\ out = Accepted(n, << >>)
      BY <2>1, <2>3, BuiltOutcomes DEF Toggle, Recording
    <3>3. n \in Machine /\ n.state = m.state /\ n.cancelRequested = m.cancelRequested /\ n.session = m.session
      BY <1>1 DEF Machine, State
    <3> HIDE DEF n
    <3> QED
      BY <3>2, <3>3, <2>3, BuiltOutcomes DEF Listens, Shaped, Recording
  <2>4. CASE m.state = "Idle"
    <3>1. out = Start(m, TRUE, id)
      BY <2>1, <2>4 DEF Toggle, Recording
    <3> QED
      BY <3>1, <1>1, StartShape DEF Shaped
  <2> QED
    BY <2>2, <2>3, <2>4
<1>8. CASE event = "Lock"
  <2>1. out = Lock(m)
    BY <1>8 DEF Handle
  <2>2. CASE m.state = "Starting"
    <3> DEFINE n == [m EXCEPT !.pendingLocked = TRUE]
    <3>2. out = Accepted(n, << >>)
      BY <2>1, <2>2, BuiltOutcomes DEF Lock
    <3>3. n \in Machine /\ n.state = m.state /\ n.cancelRequested = m.cancelRequested /\ n.session = m.session
      BY <1>1 DEF Machine, State
    <3> HIDE DEF n
    <3> QED
      BY <3>2, <3>3, <2>2, BuiltOutcomes DEF Listens, Shaped, Recording
  <2>3. CASE m.state # "Starting"
    <3> DEFINE n == [m EXCEPT !.state = "RecordingLocked"]
    <3>2. m.state = "RecordingHeld" /\ out = Accepted(n, <<"AnnounceState">>)
      BY <2>1, <2>3, BuiltOutcomes DEF Lock
    <3>3. n \in Machine /\ n.state = "RecordingLocked" /\ n.cancelRequested = m.cancelRequested /\ n.session = m.session
      BY <1>1 DEF Machine, State
    <3> HIDE DEF n
    <3> QED
      BY <3>2, <3>3, <2>3, BuiltOutcomes DEF Listens, Shaped, Recording
  <2> QED
    BY <2>2, <2>3
<1>9. CASE event = "CaptureStarted"
  <2>1. out = CaptureStarted(m)
    BY <1>9 DEF Handle
  <2>2. CASE m.pendingStop
    <3> DEFINE r == [m EXCEPT !.state = IF m.pendingLocked THEN "RecordingLocked"
                                                          ELSE "RecordingHeld"]
    <3> DEFINE n == [[r EXCEPT !.pendingStop = FALSE] EXCEPT !.state = "Finalizing"]
    <3>2. m.state = "Starting"
          /\ out = Accepted(n, <<"StopCapture", "FinalizeTranscript", "AnnounceState">>)
      BY <2>1, <2>2, BuiltOutcomes DEF CaptureStarted, BeginFinalize
    <3>3. n \in Machine /\ n.state = "Finalizing" /\ n.cancelRequested = m.cancelRequested /\ n.session = m.session
      BY <1>1 DEF Machine, State
    <3> HIDE DEF n
    <3> QED
      BY <3>2, <3>3, BuiltOutcomes DEF Finalizes, Shaped
  <2>3. CASE ~m.pendingStop
    <3> DEFINE n == [m EXCEPT !.state = IF m.pendingLocked THEN "RecordingLocked"
                                                              ELSE "RecordingHeld"]
    <3>2. m.state = "Starting" /\ out = Accepted(n, <<"AnnounceState">>)
      BY <2>1, <2>3, BuiltOutcomes DEF CaptureStarted
    <3>3. n \in Machine /\ n.state \in Recording /\ n.cancelRequested = m.cancelRequested /\ n.session = m.session
      BY <1>1 DEF Machine, State, Recording
    <3> HIDE DEF n
    <3> QED
      BY <3>2, <3>3, <2>3, BuiltOutcomes DEF Listens, Shaped, Recording
  <2> QED
    BY <2>2, <2>3
<1>10. CASE event = "Finalized"
  <2>1. out = Finalized(m)
    BY <1>10 DEF Handle
  <2> DEFINE n == [m EXCEPT !.state = "Delivering"]
  <2>2. m.state = "Finalizing" /\ out = Accepted(n, <<"DeliverText">>)
    BY <2>1, BuiltOutcomes DEF Finalized, IInv
  <2>3. n \in Machine /\ n.state = "Delivering" /\ n.session = m.session
    BY <1>1 DEF Machine, State
  <2> HIDE DEF n
  <2> QED
    BY <2>2, <2>3, BuiltOutcomes DEF Delivers, Shaped, Recording
<1>11. CASE event = "Delivered"
  <2>1. out = Delivered(m)
    BY <1>11 DEF Handle
  <2> DEFINE n == [m EXCEPT !.state = "Idle", !.session = NoSession]
  <2>2. m.state = "Delivering" /\ out = Accepted(n, <<"AnnounceState", "ReleaseResources">>)
    BY <2>1, BuiltOutcomes DEF Delivered
  <2>3. n \in Machine /\ n.state = "Idle"
    BY <1>1 DEF Machine, State
  <2> HIDE DEF n
  <2> QED
    BY <2>2, <2>3, BuiltOutcomes DEF Completes, Shaped, Recording
<1>12. CASE event = "DurationLimit"
  <2>1. out = DurationLimit(m)
    BY <1>12 DEF Handle
  <2> QED
    BY <2>1, <1>1, BuiltOutcomes, FinalizeShape DEF DurationLimit, Shaped
<1>13. CASE event = "Reset"
  <2>1. out = Reset(m)
    BY <1>13 DEF Handle
  <2> DEFINE n == NewMachine
  <2>2. m.state \in {"Cancelled", "Error"} /\ out = Accepted(n, <<"AnnounceState">>)
    BY <2>1, BuiltOutcomes DEF Reset
  <2>3. n \in Machine /\ n.state = "Idle"
    BY <1>1 DEF Machine, State, NewMachine
  <2> HIDE DEF n
  <2> QED
    BY <2>2, <2>3, BuiltOutcomes DEF Rests, Shaped, Recording
<1> QED
  BY <1>2, <1>3, <1>4, <1>5, <1>6, <1>7, <1>8, <1>9, <1>10, <1>11, <1>12, <1>13 DEF Event

\* The same for tick: the duration limit finalizes, the warning only listens.
LEMMA ClockShape ==
  ASSUME IInv, NEW elapsed, Tick(m, elapsed).verdict = "accepted"
  PROVE  Tick(m, elapsed).m \in Machine /\ Shaped(Tick(m, elapsed))
<1> DEFINE out == Tick(m, elapsed)
<1>1. m \in Machine
  BY DEF IInv, MachineTypeOK
<1>2. CASE m.state \in Recording /\ elapsed = "limit"
  BY <1>1, <1>2, FinalizeShape DEF Tick, DurationLimit, Shaped
<1>3. CASE ~(m.state \in Recording /\ elapsed = "limit")
  <2> DEFINE n == [m EXCEPT !.warned = TRUE]
  <2>1. m.state \in Recording /\ out = Accepted(n, <<"WarnDurationLimit">>)
    BY <1>3, BuiltOutcomes DEF Tick
  <2>2. n \in Machine /\ n.state = m.state /\ n.cancelRequested = m.cancelRequested /\ n.session = m.session
    BY <1>1 DEF Machine
  <2> HIDE DEF n
  <2> QED
    BY <2>1, <2>2, BuiltOutcomes DEF Listens, Shaped, Recording
<1> QED
  BY <1>2, <1>3

-----------------------------------------------------------------------------
\* So every step of the machine takes an outcome of one of the shapes.
LEMMA NextShape ==
  ASSUME IInv, MachineNext
  PROVE  \E out : Take(out) /\ out.m \in Machine /\ Shaped(out)
<1>1. ASSUME NEW event \in Event, Present(event)
      PROVE  \E out : Take(out) /\ out.m \in Machine /\ Shaped(out)
  BY <1>1, PresentShape DEF Present, Take
<1>2. ASSUME NEW elapsed \in Elapsed, Clock(elapsed)
      PROVE  \E out : Take(out) /\ out.m \in Machine /\ Shaped(out)
  BY <1>2, ClockShape DEF Clock, Take
<1> QED
  BY <1>1, <1>2 DEF MachineNext

\* The invariant holds whatever events the machine of recording.rs is presented.
LEMMA Inductive == MachineSpec => []IInv
<1>1. IInv /\ [MachineNext]_machineVars => IInv'
  <2> SUFFICES ASSUME IInv, [MachineNext]_machineVars PROVE IInv'
    OBVIOUS
  <2>1. CASE MachineNext
    BY <2>1, NextShape, TakeInv
  <2>2. CASE UNCHANGED machineVars
    BY <2>2 DEF machineVars, IInv, MachineTypeOK, CaptureTracksState, IdleMeansReleased
  <2> QED
    BY <2>1, <2>2
<1> QED
  BY InitInv, <1>1, PTL DEF MachineSpec

\* recording.rs keeps its fields in range whatever it is told, and asks for at
\* most one delivery per session.
THEOREM MachineTypeCorrect == MachineSpec => []MachineTypeOK
<1>1. IInv => MachineTypeOK
  BY DEF IInv
<1> QED
  BY <1>1, Inductive, PTL

\* recording.rs, for every order of events: the microphone runs exactly while the
\* machine is starting or recording.
THEOREM MicrophoneFollowsState == MachineSpec => []CaptureTracksState
<1>1. IInv => CaptureTracksState
  BY DEF IInv
<1> QED
  BY <1>1, Inductive, PTL

\* And whatever ended a session, what it took has been given back.
THEOREM ResourcesComeBack == MachineSpec => []IdleMeansReleased
<1>1. IInv => IdleMeansReleased
  BY DEF IInv
<1> QED
  BY <1>1, Inductive, PTL

\* The module comment of recording.rs, for every order of events: a late
\* finalization never authorizes delivery after cancellation, and no session is
\* delivered twice.
THEOREM NoLateDelivery == MachineSpec => DeliverOnceUndiscarded
<1> DEFINE Late == io'.deliveries > io.deliveries
                     => /\ ~io.discarded /\ ~m.cancelRequested
                        /\ io.deliveries = 0
                        /\ m'.session = m.session /\ m.session # NoSession
<1>1. IInv /\ [MachineNext]_machineVars => [Late]_machineVars
  <2> SUFFICES ASSUME IInv, MachineNext PROVE Late
    OBVIOUS
  <2>1. PICK out : Take(out) /\ out.m \in Machine /\ Shaped(out)
    BY NextShape
  <2>2. "DeliverText" \notin Issued(out.effects) => ~(io'.deliveries > io.deliveries)
    <3> SUFFICES ASSUME "DeliverText" \notin Issued(out.effects)
                 PROVE  io'.deliveries \in {0, io.deliveries}
      BY DEF IInv, MachineTypeOK
    <3>1. io' = Issue(io, out.effects)
      BY <2>1 DEF Take
    <3>2. io.deliveries + 0 = io.deliveries
      BY DEF IInv, MachineTypeOK
    <3> QED
      BY <3>1, <3>2, IssueBySet
  <2>3. "DeliverText" \in Issued(out.effects) => Delivers(out)
    <3>1. Abandons(out) \/ Finalizes(out) => "DeliverText" \notin Issued(out.effects)
      BY IssuedSets DEF Abandons, Finalizes
    <3>2. Starts(out) \/ Completes(out) => "DeliverText" \notin Issued(out.effects)
      BY IssuedSets DEF Starts, Completes
    <3>3. Listens(out) \/ Rests(out) => "DeliverText" \notin Issued(out.effects)
      <4>1. /\ "DeliverText" \notin Issued(<< >>)
            /\ "DeliverText" \notin Issued(<<"AnnounceState">>)
            /\ "DeliverText" \notin Issued(<<"WarnDurationLimit">>)
        BY IssuedSets
      <4> QED
        BY <4>1 DEF Listens, Rests
    <3> QED
      BY <2>1, <3>1, <3>2, <3>3 DEF Shaped
  <2>4. Delivers(out) => Late
    BY <2>1 DEF Delivers, Take, IInv
  <2> QED
    BY <2>2, <2>3, <2>4
<1> QED
  BY <1>1, Inductive, PTL DEF MachineSpec, DeliverOnceUndiscarded

-----------------------------------------------------------------------------
(* What the user's keys are promised                                        *)

\* Where each event leaves a starting machine.
LEMMA StartingLeads ==
  ASSUME m \in Machine, m.state = "Starting", m.pendingStop, NEW event \in Event,
         NEW id \in Sessions \cup {NoSession}, Handle(m, event, id).verdict = "accepted"
  PROVE  Handle(m, event, id).m.state \in {"Starting", "Finalizing", "Cancelled", "Error"}
<1> DEFINE out == Handle(m, event, id)
<1>1. CASE event \in {"HoldDown", "Toggle", "HoldUp", "Lock", "Stop"}
  <2> DEFINE stop == [m EXCEPT !.pendingStop = TRUE]
             lock == [m EXCEPT !.pendingLocked = TRUE]
  <2>1. out \in {Ignored(m), Accepted(stop, << >>), Accepted(lock, << >>)}
    BY <1>1 DEF Handle, Start, Toggle, HoldUp, Lock, Stop, Recording
  <2>2. stop.state = "Starting" /\ lock.state = "Starting"
    BY DEF Machine
  <2> HIDE DEF stop, lock, out
  <2> QED
    BY <2>1, <2>2, BuiltOutcomes DEF out
<1>2. CASE event \in {"Cancel", "Failed"}
  <2> DEFINE cancelled == [m EXCEPT !.cancelRequested = TRUE, !.state = "Cancelled"]
             failed == [m EXCEPT !.state = "Error"]
  <2>1. out \in {Accepted(cancelled, Abandon), Accepted(failed, Abandon)}
    BY <1>2 DEF Handle, Cancel, Failed
  <2>2. cancelled.state = "Cancelled" /\ failed.state = "Error"
    BY DEF Machine
  <2> HIDE DEF cancelled, failed, out
  <2> QED
    BY <2>1, <2>2, BuiltOutcomes DEF out
<1>3. CASE event = "CaptureStarted"
  <2> DEFINE r == [m EXCEPT !.state = IF m.pendingLocked THEN "RecordingLocked" ELSE "RecordingHeld"]
             n == [[r EXCEPT !.pendingStop = FALSE] EXCEPT !.state = "Finalizing"]
  <2>1. out = Accepted(n, <<"StopCapture", "FinalizeTranscript", "AnnounceState">>)
    BY <1>3 DEF Handle, CaptureStarted, BeginFinalize
  <2>2. n.state = "Finalizing"
    BY DEF Machine
  <2> HIDE DEF n, out
  <2> QED
    BY <2>1, <2>2, BuiltOutcomes DEF out
<1>4. CASE event \in {"Finalized", "Delivered", "DurationLimit", "Reset"}
  <2>1. out \in {Ignored(m), Invalid(m)}
    BY <1>4 DEF Handle, Finalized, Delivered, DurationLimit, Reset, Recording
  <2> QED
    BY <2>1, BuiltOutcomes
<1> QED
  BY <1>1, <1>2, <1>3, <1>4 DEF Event

\* A key released or a stop given before the microphone came up is never lost: the
\* session is transcribed or given up, and never goes on recording with nobody
\* holding the key.
THEOREM EarlyStopCounts == MachineSpec => EarlyStopHonoured
<1>1. IInv /\ [MachineNext]_machineVars
        => [m.state = "Starting" /\ m.pendingStop /\ m'.state # "Starting"
              => m'.state \in {"Finalizing", "Cancelled", "Error"}]_machineVars
  <2> SUFFICES ASSUME IInv, MachineNext, m.state = "Starting", m.pendingStop, m'.state # "Starting"
               PROVE  m'.state \in {"Finalizing", "Cancelled", "Error"}
    OBVIOUS
  <2>1. m \in Machine
    BY DEF IInv, MachineTypeOK
  <2>2. ASSUME NEW event \in Event, Present(event)
        PROVE  m'.state \in {"Finalizing", "Cancelled", "Error"}
    BY <2>1, <2>2, StartingLeads DEF Present, Take
  <2>3. ASSUME NEW elapsed \in Elapsed, Clock(elapsed) PROVE FALSE
    BY <2>3, BuiltOutcomes DEF Clock, Take, Tick, Recording
  <2> QED
    BY <2>2, <2>3 DEF MachineNext
<1> QED
  BY <1>1, Inductive, PTL DEF MachineSpec, EarlyStopHonoured

\* "Keeping stop/cancel idempotent", in every state the machine can be in.
THEOREM StopAndCancelIdempotent == MachineSpec => []RepeatIsSilent
<1>1. IInv => RepeatIsSilent
  <2> SUFFICES ASSUME IInv PROVE RepeatIsSilent
    OBVIOUS
  <2>1. m \in Machine
    BY DEF IInv, MachineTypeOK
  <2>2. ASSUME NEW n \in Machine, n.state \notin Recording \cup {"Starting"}
        PROVE  Stop(n).m = n /\ Stop(n).effects = << >>
    BY <2>2 DEF Stop, Ignored
  <2>3. ASSUME NEW n \in Machine, n.state \in {"Idle", "Cancelled"}
        PROVE  Cancel(n).m = n /\ Cancel(n).effects = << >>
    BY <2>3 DEF Cancel, Ignored
  <2>4. /\ Stop(Stop(m).m).m = Stop(m).m
        /\ Stop(Stop(m).m).effects = << >>
    <3>1. CASE m.state \in Recording
      <4> DEFINE n == [m EXCEPT !.state = "Finalizing"]
      <4>1. n \in Machine /\ n.state = "Finalizing"
        BY <2>1 DEF Machine, State
      <4>2. Stop(m) = Accepted(n, <<"StopCapture", "FinalizeTranscript", "AnnounceState">>)
        <5>1. Stop(m) = BeginFinalize(m)
          BY <3>1 DEF Stop, Recording
        <5> QED
          BY <5>1 DEF BeginFinalize
      <4> HIDE DEF n
      <4>3. Stop(m).m = n
        BY <4>2, BuiltOutcomes
      <4> QED
        BY <2>2, <4>1, <4>3 DEF Recording
    <3>2. CASE m.state = "Starting"
      <4> DEFINE n == [m EXCEPT !.pendingStop = TRUE]
      <4>1. Stop(m) = Accepted(n, << >>) /\ n.state = "Starting" /\ [n EXCEPT !.pendingStop = TRUE] = n
        BY <2>1, <3>2 DEF Stop, Recording, Machine
      <4> HIDE DEF n
      <4>2. Stop(n) = Accepted(n, << >>)
        BY <4>1 DEF Stop, Recording
      <4>3. Stop(m).m = n /\ Stop(n).m = n /\ Stop(n).effects = << >>
        BY <4>1, <4>2, BuiltOutcomes
      <4> QED
        BY <4>3
    <3>3. CASE m.state \notin Recording \cup {"Starting"}
      BY <2>1, <2>2, <3>3
    <3> QED
      BY <3>1, <3>2, <3>3
  <2>5. /\ Cancel(Cancel(m).m).m = Cancel(m).m
        /\ Cancel(Cancel(m).m).effects = << >>
    <3>1. CASE m.state \in {"Idle", "Cancelled"}
      BY <2>1, <2>3, <3>1
    <3>2. CASE m.state \notin {"Idle", "Cancelled"}
      <4> DEFINE n == [m EXCEPT !.cancelRequested = TRUE, !.state = "Cancelled"]
      <4>1. n \in Machine /\ n.state = "Cancelled"
        BY <2>1 DEF Machine, State
      <4>2. Cancel(m).m = n
        BY <3>2 DEF Cancel, Accepted
      <4> HIDE DEF n
      <4> QED
        BY <2>3, <4>1, <4>2
    <3> QED
      BY <3>1, <3>2
  <2>6. \A x : Handle(x, "Stop", NoSession) = Stop(x) /\ Handle(x, "Cancel", NoSession) = Cancel(x)
    BY DEF Handle
  <2> QED
    BY <2>4, <2>5, <2>6 DEF RepeatIsSilent
<1> QED
  BY <1>1, Inductive, PTL
=============================================================================
