----------------------------- MODULE Controller -----------------------------
(***************************************************************************)
(* The desktop's serialized recording control (src-tauri/src/controller.rs)*)
(* with the shortcut interpreter in front of it (dictation-core,           *)
(* shortcuts.rs) and the speech thread behind it (asr_thread.rs).          *)
(*                                                                         *)
(* One thread owns the machine.  A command, a reply of the speech thread   *)
(* or a timer starts an application of events: `queue' is apply's VecDeque *)
(* and `effects' what perform has left to do for the last accepted event.  *)
(* Each effect is a step of its own, because the other threads (speech,    *)
(* background work reading `preempt') run between them.  Commands and      *)
(* timers are looked at only when the loop is at rest.                     *)
(*                                                                         *)
(* The speech thread's channel and the replies are FIFO.  User, API and    *)
(* lifecycle commands share the reply channel in the code; here they are   *)
(* issued at any moment of rest, which covers every order of arrival.      *)
(***************************************************************************)
EXTENDS Recording, Naturals, FiniteSets

CONSTANTS Keys,      \* the shortcuts bound to a key, among ShortcutAction
          NoActive,  \* Option::None of Controller.active
          NoText     \* Option::None of Active.final_text, and of a failed result

VARIABLES
  m,           \* the recording machine
  queue,       \* events apply has still to handle
  effects,     \* effects perform has still to do
  last,        \* the event of the newest transition in the machine's history
  active,      \* NoActive, or the session being captured or transcribed
  epoch,       \* Controller.epoch
  asr,         \* requests on the speech thread's channel
  replies,     \* its replies on the controller's channel
  preempt,     \* Shared.preemption: background work must give way
  errorShown,  \* error_since is Some
  alive,       \* Shutdown has not been received
  keys,        \* the shortcut interpreter
  used,        \* session identifiers drawn so far
  log          \* what the outside saw: events published, text handed over, copies

control == <<m, queue, effects, last, alive, used>>
vars == <<control, active, epoch, asr, replies, preempt, errorShown, keys, log>>

-----------------------------------------------------------------------------
(* Values *)

\* u64::MAX, which self.epoch never reaches: the epoch of a discarded session.
Discarded == 0

Silence == "silence"    \* an empty transcript
Pcm == {"none", "silent", "speech"}

\* A text is known by the session whose audio it was recognized from.
Text == Sessions \cup {NoText, Silence}

ActiveSession == [session : Sessions, epoch : Nat, capturing : BOOLEAN,
                  pcm : Pcm, partialInFlight : BOOLEAN, text : Text]

ASSUME NoActiveAssumption == NoActive \notin ActiveSession

Request == [kind : {"partial", "final"}, epoch : Nat, of : Sessions]
Reply   == [kind : {"partial", "final"}, epoch : Nat, text : Text]

ShortcutAction == {"Hold", "Toggle", "Lock", "Cancel"}
ASSUME KeysAssumption == Keys \subseteq ShortcutAction
ApiEvent == {"started", "stopped", "cancelled", "error"}

\* Where Event::HoldDown and Event::Toggle draw a fresh random identifier; the
\* other events carry none.  Only an idle machine looks at it.
Drawn(event) == IF event \in {"HoldDown", "Toggle"} /\ m.state = "Idle"
                THEN Sessions \ used ELSE {NoSession}

AtRest == queue = << >> /\ effects = << >>
Capturing == active # NoActive /\ active.capturing

Init ==
  /\ m = NewMachine /\ queue = << >> /\ effects = << >> /\ last = "Reset"
  /\ active = NoActive /\ epoch = 0 /\ asr = << >> /\ replies = << >>
  /\ preempt = FALSE /\ errorShown = FALSE /\ alive = TRUE
  /\ keys = [down |-> {}, holdUpDue |-> FALSE, releasedIn |-> NoSession]
  /\ used = {}
  /\ log = [published |-> [s \in Sessions |-> {}], handed |-> {}, copies |-> {}]

-----------------------------------------------------------------------------
(* Inputs.  Apply(event) hands one event to apply.                          *)
Apply_Mut(event) ==
  /\ alive /\ queue = << >>
  /\ Drawn(event) # {}
  /\ queue' = <<event>>
  /\ UNCHANGED <<m, effects, last, alive, used>>
Apply(event) ==
  /\ alive /\ AtRest
  /\ Drawn(event) # {}
  /\ queue' = <<event>>
  /\ UNCHANGED <<m, effects, last, alive, used>>

others == <<active, epoch, asr, replies, preempt, errorShown, log>>

\* Buttons and tray: Command::Ui.
Ui(event) == /\ event \in {"Toggle", "Stop", "Cancel", "Lock"}
             /\ Apply(event)
             /\ UNCHANGED <<others, keys>>

\* Command::Api.  A stop or cancel naming a session that is not the active one
\* is answered without touching the machine.
ApiStart == /\ m.state \notin ActiveState
            /\ Apply("Toggle")
            /\ UNCHANGED <<others, keys>>

ApiEnd(s, event) == /\ event \in {"Stop", "Cancel"}
                    /\ active # NoActive /\ active.session = s
                    /\ Apply(event)
                    /\ UNCHANGED <<others, keys>>

\* Command::Lifecycle: screen lock, sleep, device loss.
Lifecycle == Apply("Cancel") /\ UNCHANGED <<others, keys>>

\* Presses that supersede a deferred release of the hold key.
Supersedes_Mut(action) == action = "Lock"
Supersedes(action) == action \in {"Hold", "Lock"}

\* A key that is already down is auto-repeat and ignored.
Press(action) ==
  /\ action \notin keys.down
  /\ Apply(IF action = "Hold" THEN "HoldDown" ELSE action)
  /\ keys' = [keys EXCEPT !.down = @ \cup {action},
                          !.holdUpDue = @ /\ ~Supersedes(action),
                          !.releasedIn = IF Supersedes(action) THEN NoSession ELSE @]
  /\ UNCHANGED others

\* The release of the hold key is deferred, so that a lock can supersede it.
Release(action) ==
  /\ alive /\ AtRest
  /\ action \in keys.down
  /\ keys' = IF action = "Hold"
             THEN [keys EXCEPT !.down = @ \ {action}, !.holdUpDue = TRUE,
                               !.releasedIn = m.session]
             ELSE [keys EXCEPT !.down = @ \ {action}]
  /\ UNCHANGED <<control, others>>

\* ShortcutInterpreter::poll, once the grace window has passed.
HoldUpDue == /\ keys.holdUpDue
             /\ Apply("HoldUp")
             /\ keys' = [keys EXCEPT !.holdUpDue = FALSE, !.releasedIn = NoSession]
             /\ UNCHANGED others

Shutdown == /\ alive /\ AtRest
            /\ alive' = FALSE
            /\ queue' = <<"Cancel">>
            /\ UNCHANGED <<m, effects, last, used, others, keys>>

-----------------------------------------------------------------------------
(* The timers of Controller::tick; each is one of its conditional parts.    *)

\* machine.tick: the duration limit, or the one warning (only a notice).
TickMachine(elapsed) ==
  LET out == Tick(m, elapsed)
  IN  /\ alive /\ AtRest
      /\ out.verdict = "accepted"
      /\ m' = out.m
      /\ IF "WarnDurationLimit" \in {out.effects[i] : i \in DOMAIN out.effects}
         THEN UNCHANGED <<effects, last>>
         ELSE effects' = out.effects /\ last' = "DurationLimit"
      /\ UNCHANGED <<queue, alive, used, others, keys>>

\* The microphone reports a stream error while recording.
CaptureError == /\ m.state \in Recording
                /\ Capturing
                /\ Apply("Cancel")
                /\ UNCHANGED <<others, keys>>

SchedulePartial ==
  /\ alive /\ AtRest
  /\ m.state \in Recording
  /\ Capturing /\ ~active.partialInFlight
  /\ active' = [active EXCEPT !.partialInFlight = TRUE]
  /\ asr' = Append(asr, [kind |-> "partial", epoch |-> active.epoch, of |-> active.session])
  /\ UNCHANGED <<control, epoch, replies, preempt, errorShown, keys, log>>

ErrorTimeout == /\ errorShown
                /\ Apply("Reset")
                /\ errorShown' = FALSE
                /\ UNCHANGED <<active, epoch, asr, replies, preempt, keys, log>>

-----------------------------------------------------------------------------
(* One iteration of apply's loop: an error or an ignored event is skipped.  *)
HandleEvent ==
  /\ effects = << >> /\ queue # << >>
  /\ queue' = Tail(queue)
  /\ \E id \in Drawn(Head(queue)) :
       LET out == Handle(m, Head(queue), id)
       IN  IF out.verdict = "accepted"
           THEN /\ m' = out.m
                /\ effects' = out.effects
                /\ last' = Head(queue)
                /\ used' = used \cup ({out.m.session} \ {NoSession})
           ELSE UNCHANGED <<m, effects, last, used>>
  /\ UNCHANGED <<alive, others, keys>>

\* perform: the next effect, and the events it makes apply handle later.
Perform(effect, follow) ==
  /\ effects # << >> /\ Head(effects) = effect
  /\ effects' = Tail(effects)
  /\ queue' = queue \o follow
  /\ UNCHANGED <<m, last, alive, used, keys>>

StartCapture ==
  /\ epoch' = epoch + 1
  /\ preempt' = TRUE
  /\ \/ /\ active' = [session |-> m.session, epoch |-> epoch + 1, capturing |-> TRUE,
                      pcm |-> "none", partialInFlight |-> FALSE, text |-> NoText]
        /\ Perform("StartCapture", <<"CaptureStarted">>)
     \/ /\ Perform("StartCapture", <<"Failed">>)         \* no microphone
        /\ UNCHANGED active
  /\ UNCHANGED <<asr, replies, errorShown, log>>

StopCapture ==
  /\ \/ /\ ~Capturing
        /\ Perform("StopCapture", << >>)
        /\ UNCHANGED active
     \/ /\ Capturing
        /\ \E pcm \in Pcm :
             active' = [active EXCEPT !.capturing = FALSE, !.pcm = pcm]
        /\ Perform("StopCapture", << >>)
     \/ /\ Capturing         \* the stream failed
        /\ active' = [active EXCEPT !.capturing = FALSE, !.pcm = "none"]
        /\ Perform("StopCapture", IF m.state = "Finalizing" THEN <<"Failed">> ELSE << >>)
  /\ UNCHANGED <<epoch, asr, replies, preempt, errorShown, log>>

\* Silence never becomes text: only speech goes to the recognizer.
FinalizeTranscript ==
  /\ \/ /\ active = NoActive
        /\ Perform("FinalizeTranscript", <<"Failed">>)
        /\ UNCHANGED <<active, asr>>
     \/ /\ active # NoActive /\ active.pcm # "speech"
        /\ active' = [active EXCEPT !.text = Silence]
        /\ Perform("FinalizeTranscript", <<"Finalized">>)
        /\ UNCHANGED asr
     \/ /\ active # NoActive /\ active.pcm = "speech"
        /\ asr' = Append(asr, [kind |-> "final", epoch |-> active.epoch,
                               of |-> active.session])
        /\ Perform("FinalizeTranscript", << >>)
        /\ UNCHANGED active
  /\ UNCHANGED <<epoch, replies, preempt, errorShown, log>>

DeliverText ==
  /\ Perform("DeliverText", <<"Delivered">>)
  /\ log' = IF active # NoActive /\ active.text \notin {NoText, Silence}
            THEN [log EXCEPT !.handed = @ \cup {[session |-> active.session,
                                                 of |-> active.text]}]
            ELSE log
  /\ UNCHANGED <<active, epoch, asr, replies, preempt, errorShown>>

DiscardSession ==
  /\ Perform("DiscardSession", << >>)
  /\ active' = IF active = NoActive THEN active
               ELSE [active EXCEPT !.pcm = "none", !.text = NoText, !.epoch = Discarded]
  /\ UNCHANGED <<epoch, asr, replies, preempt, errorShown, log>>

\* The API event published for the newest transition.
Published_Mut(event) == {event}
Published(event) == CASE event = "CaptureStarted" -> {"started"}
                      [] event = "Delivered"      -> {"stopped"}
                      [] event = "Cancel"         -> {"cancelled"}
                      [] event = "Failed"         -> {"error"}
                      [] OTHER                    -> {}

\* A cancelled session is reset at once.
AnnounceState ==
  LET about == IF active # NoActive THEN active.session ELSE m.session
  IN  /\ Perform("AnnounceState", IF m.state = "Cancelled" THEN <<"Reset">> ELSE << >>)
      /\ errorShown' = (errorShown \/ m.state = "Error")
      /\ log' = IF about = NoSession THEN log
                ELSE [log EXCEPT !.published[about] = @ \cup Published(last)]
      /\ UNCHANGED <<active, epoch, asr, replies, preempt>>

\* Active.final_text is there and not empty, and so is Active.pcm.
Copyable_Mut == m.state = "Idle" /\ active.text # NoText
Copyable == /\ m.state = "Idle"
            /\ active.text \notin {NoText, Silence} /\ active.pcm # "none"

\* The training copy of a delivered session is offered to the queue here; the
\* user's settings and consent decide, which is the choice in the middle.
ReleaseResources ==
  /\ Perform("ReleaseResources", << >>)
  /\ active' = NoActive
  /\ \/ log' = log
     \/ /\ active # NoActive /\ Copyable
        /\ log' = [log EXCEPT !.copies = @ \cup {active.session}]
  /\ preempt' = FALSE
  /\ UNCHANGED <<epoch, asr, replies, errorShown>>

-----------------------------------------------------------------------------
(* The speech thread answers every request in order: with segments, which   *)
(* may all be empty or filtered away, or with an error (NoText).            *)
Recognize ==
  /\ asr # << >>
  /\ \E text \in {Head(asr).of, Silence, NoText} :
       replies' = Append(replies, [kind |-> Head(asr).kind, epoch |-> Head(asr).epoch,
                                   text |-> text])
  /\ asr' = Tail(asr)
  /\ UNCHANGED <<control, active, epoch, preempt, errorShown, keys, log>>

OnPartial ==
  /\ alive /\ AtRest
  /\ replies # << >> /\ Head(replies).kind = "partial"
  /\ replies' = Tail(replies)
  /\ active' = IF active # NoActive /\ active.epoch = Head(replies).epoch
               THEN [active EXCEPT !.partialInFlight = FALSE] ELSE active
  /\ UNCHANGED <<control, epoch, asr, preempt, errorShown, keys, log>>

\* A reply for an older or discarded session is stale and dropped.
Awaited_Mut(reply) == active # NoActive /\ m.state = "Finalizing"
Awaited(reply) == /\ active # NoActive /\ active.epoch = reply.epoch
                  /\ m.state = "Finalizing"

OnFinal ==
  /\ alive /\ AtRest
  /\ replies # << >> /\ Head(replies).kind = "final"
  /\ replies' = Tail(replies)
  /\ LET reply == Head(replies)
     IN  IF Awaited(reply)
         THEN /\ queue' = IF reply.text = NoText THEN <<"Failed">> ELSE <<"Finalized">>
              /\ active' = [active EXCEPT !.text = reply.text]
         ELSE UNCHANGED <<queue, active>>
  /\ UNCHANGED <<m, effects, last, alive, used, epoch, asr, preempt, errorShown, keys, log>>

-----------------------------------------------------------------------------
Command == \/ \E event \in Event : Ui(event)
           \/ ApiStart
           \/ \E s \in Sessions, event \in Event : ApiEnd(s, event)
           \/ Lifecycle
           \/ \E action \in Keys : Press(action) \/ Release(action)
           \/ Shutdown

Timer == \/ HoldUpDue \/ CaptureError \/ SchedulePartial \/ ErrorTimeout
         \/ \E elapsed \in Elapsed : TickMachine(elapsed)

PerformEffect == \/ StartCapture \/ StopCapture \/ FinalizeTranscript \/ DeliverText
                 \/ DiscardSession \/ AnnounceState \/ ReleaseResources

Next == Command \/ Timer \/ HandleEvent \/ PerformEffect \/ Recognize \/ OnPartial \/ OnFinal

Spec == Init /\ [][Next]_vars
-----------------------------------------------------------------------------
(* Properties *)

Handed == {h.session : h \in log.handed}
Dropped == {s \in Sessions : \/ log.published[s] \cap {"cancelled", "error"} # {}
                             \/ s = m.session /\ m.state \in {"Cancelled", "Error"}}

\* "A result for an older or cancelled session is discarded": what is handed to
\* the user's application for a session was recognized from that session's own
\* audio, however late the speech thread answers an earlier one.
OwnSpeechOnly == \A h \in log.handed : h.of = h.session

\* Between commands nothing is left behind: a session object exists exactly
\* while the machine records or finalizes, the microphone runs exactly while it
\* records, and background work is held back exactly as long.  A session waiting
\* for its transcript is waiting for something: exactly one request or reply of
\* its epoch is under way.
RestIsClean ==
  AtRest =>
    /\ active # NoActive <=> m.state \in Recording \cup {"Finalizing"}
    /\ active # NoActive => /\ active.session = m.session
                            /\ active.capturing <=> m.state \in Recording
    /\ preempt <=> active # NoActive
    /\ m.state = "Finalizing" =>
         LET final(q) == {i \in DOMAIN q : q[i].kind = "final" /\ q[i].epoch = active.epoch}
         IN  Cardinality(final(asr)) + Cardinality(final(replies)) = 1

\* Push to talk: a recording that was not locked never goes on with the key up,
\* whatever other keys, buttons and API calls came in between; at most the
\* deferred release is still due.
HeldNeedsKey ==
  AtRest /\ m.state = "RecordingHeld" => "Hold" \in keys.down \/ keys.holdUpDue

\* A deferred release never ends a held session other than the one during which
\* the key was released.
ReleaseEndsItsOwnSession ==
  keys.holdUpDue /\ m.state = "RecordingHeld" /\ AtRest => keys.releasedIn = m.session

\* The desktop implements Dictation: one session at a time, each ending in one way
\* ("so a cancelled session is never also reported as stopped"), and
\* (training_copy.rs, "only after delivery") a copy taken only of a session whose
\* text was handed over.  A dropped session that was handed over or reported as
\* stopped has no phase there.
phase == [s \in Sessions |->
            IF s \in Dropped
            THEN IF s \in Handed \/ "stopped" \in log.published[s] THEN "torn" ELSE "dropped"
            ELSE IF s \in Handed THEN "delivered"
            ELSE IF s = m.session /\ m.state \in ActiveState THEN "open"
            ELSE IF s \notin used THEN "unused" ELSE "silent"]

D == INSTANCE Dictation WITH copied <- log.copies
Refines == D!Spec

-----------------------------------------------------------------------------
(* The loop runs until its queue is empty and the speech thread bounds every *)
(* request by a timeout (weak fairness).  Replies and the tick are reached   *)
(* after finitely many commands, as the channel is FIFO and the tick follows *)
(* every command; commands can only interrupt them, hence strong fairness.   *)
(* The user, the API client and the system owe nothing.                      *)
Fairness == /\ WF_vars(HandleEvent) /\ WF_vars(PerformEffect) /\ WF_vars(Recognize)
            /\ SF_vars(OnPartial) /\ SF_vars(OnFinal)
            /\ SF_vars(TickMachine("limit")) /\ SF_vars(ErrorTimeout)

FairSpec == Spec /\ Fairness

\* Background work is never held back for ever, even if the user walks away
\* from a locked recording or the recognizer fails.
BackgroundResumes == preempt ~> ~preempt
=============================================================================
