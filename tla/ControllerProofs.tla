--------------------------- MODULE ControllerProofs ---------------------------
(***************************************************************************)
(* The control loop, for any sessions and keys and any number of sessions, *)
(* commands and answers of the speech thread: what is handed over for a    *)
(* session was recognized from its own audio; each session ends in one way,*)
(* as in Dictation; a held recording ends with its key; and between        *)
(* commands nothing is left behind.                                        *)
(***************************************************************************)
EXTENDS Controller, FiniteSetTheorems, TLAPS

Named == Sessions \cup {NoSession}

\* A machine that can still deliver was not asked to cancel, so that Finalized never
\* discards a session by itself.
MachineInv ==
  /\ m \in Machine /\ (m.state \in ActiveState => ~m.cancelRequested)
  /\ queue \in Seq(Event)

\* perform discards a session only after it stopped the microphone, and never in the
\* course of starting it; quiet says that the microphone is off already.
Orderly(todo, quiet) ==
  /\ todo \in Seq(Effect)
  /\ \A i \in DOMAIN todo :
       todo[i] = "DiscardSession" => quiet \/ \E j \in 1..(i - 1) : todo[j] = "StopCapture"
  /\ \A i, j \in DOMAIN todo : ~(todo[i] = "StartCapture" /\ todo[j] = "DiscardSession")

AnyActive  == [session : Named, epoch : Nat, capturing : BOOLEAN, pcm : Pcm,
               partialInFlight : BOOLEAN, text : Named \cup {NoText, Silence}]
AnyRequest == [kind : {"partial", "final"}, epoch : Nat, of : Named]
AnyReply   == [kind : {"partial", "final"}, epoch : Nat, text : Named \cup {NoText, Silence}]

\* Only a session that was not discarded has audio to come or to be recognized.
ActiveInv ==
  active # NoActive =>
    /\ active \in AnyActive /\ active.epoch <= epoch
    /\ active.capturing \/ active.pcm = "speech" => active.epoch >= 1
    /\ active.text \in {NoText, Silence, active.session}

\* A request under way has the epoch of a session that was started: of the active one
\* only if it is about the active one's audio.  So has a reply.
SpeechInv ==
  /\ epoch \in Nat /\ asr \in Seq(AnyRequest) /\ replies \in Seq(AnyReply)
  /\ \A i \in DOMAIN asr : asr[i].kind = "final" =>
       /\ asr[i].epoch \in 1..epoch
       /\ active # NoActive /\ asr[i].epoch = active.epoch => asr[i].of = active.session
  /\ \A i \in DOMAIN replies : replies[i].kind = "final" =>
       /\ replies[i].epoch \in 1..epoch
       /\ active # NoActive /\ replies[i].epoch = active.epoch
            => replies[i].text \in {NoText, Silence, active.session}

LogShape == log = [published |-> log.published, handed |-> log.handed, copies |-> log.copies]

ControlInv == /\ MachineInv /\ Orderly(effects, ~Capturing) /\ ActiveInv /\ SpeechInv
              /\ LogShape /\ OwnSpeechOnly

-----------------------------------------------------------------------------
(* Orders of effects *)

LEMMA OrdersOfOutcomes ==
  /\ Orderly(<< >>, FALSE) /\ Orderly(Abandon, FALSE)
  /\ Orderly(<<"StopCapture", "FinalizeTranscript", "AnnounceState">>, FALSE)
  /\ Orderly(<<"StartCapture", "AnnounceState">>, FALSE)
  /\ Orderly(<<"AnnounceState">>, FALSE) /\ Orderly(<<"DeliverText">>, FALSE)
  /\ Orderly(<<"AnnounceState", "ReleaseResources">>, FALSE)
  /\ Orderly(<<"WarnDurationLimit">>, FALSE)
<1> USE DEF Effect
<1>1. Orderly(<< >>, FALSE)
  BY DEF Orderly
<1>2. Orderly(Abandon, FALSE)
  BY DEF Orderly, Abandon
<1>3. Orderly(<<"StopCapture", "FinalizeTranscript", "AnnounceState">>, FALSE)
  BY DEF Orderly
<1>4. Orderly(<<"StartCapture", "AnnounceState">>, FALSE)
  BY DEF Orderly
<1>5. Orderly(<<"AnnounceState">>, FALSE) /\ Orderly(<<"DeliverText">>, FALSE)
      /\ Orderly(<<"WarnDurationLimit">>, FALSE)
  BY DEF Orderly
<1>6. Orderly(<<"AnnounceState", "ReleaseResources">>, FALSE)
  BY DEF Orderly
<1> QED
  BY <1>1, <1>2, <1>3, <1>4, <1>5, <1>6

LEMMA OrderlyAnyway == ASSUME NEW todo, Orderly(todo, FALSE), NEW quiet PROVE Orderly(todo, quiet)
BY DEF Orderly

LEMMA TailOrderly ==
  ASSUME NEW todo, NEW quiet, Orderly(todo, quiet), todo # << >>, NEW after,
         \/ after
         \/ Head(todo) = "StartCapture"
         \/ Head(todo) # "StopCapture" /\ (quiet => after)
  PROVE  Orderly(Tail(todo), after)
<1> USE DEF Orderly
<1>1. /\ Tail(todo) \in Seq(Effect) /\ Len(todo) \in Nat \ {0} /\ Len(Tail(todo)) = Len(todo) - 1
      /\ DOMAIN todo = 1..Len(todo) /\ DOMAIN Tail(todo) = 1..(Len(todo) - 1)
      /\ \A i \in DOMAIN Tail(todo) : Tail(todo)[i] = todo[i + 1]
      /\ Head(todo) = todo[1]
  OBVIOUS
<1>2. \A i, j \in DOMAIN Tail(todo) :
        ~(Tail(todo)[i] = "StartCapture" /\ Tail(todo)[j] = "DiscardSession")
  BY <1>1
<1>3. ASSUME NEW i \in DOMAIN Tail(todo), Tail(todo)[i] = "DiscardSession", ~after
      PROVE  \E j \in 1..(i - 1) : Tail(todo)[j] = "StopCapture"
  <2>1. i + 1 \in DOMAIN todo /\ todo[i + 1] = "DiscardSession" /\ i \in Nat \ {0}
    BY <1>1, <1>3
  <2>2. todo[1] # "StartCapture"
    BY <1>1, <2>1
  <2>3. PICK j \in 1..i : todo[j] = "StopCapture"
    BY <1>1, <1>3, <2>1, <2>2
  <2>4. j # 1
    BY <1>1, <1>3, <2>2, <2>3
  <2>5. j - 1 \in 1..(i - 1) /\ Tail(todo)[j - 1] = todo[j]
    BY <1>1, <2>1, <2>3, <2>4
  <2> QED
    BY <2>3, <2>5
<1> QED
  BY <1>1, <1>2, <1>3

-----------------------------------------------------------------------------
(* The machine's outcomes *)

Fine(out) ==
  /\ out.m \in Machine /\ (out.m.state \in ActiveState => ~out.m.cancelRequested)
  /\ Orderly(out.effects, FALSE)

LEMMA HandleIsFine ==
  ASSUME NEW x \in Machine, x.state \in ActiveState => ~x.cancelRequested,
         NEW event \in Event, NEW id \in Named
  PROVE  Fine(Handle(x, event, id))
<1> USE DEF ActiveState, Recording
<1>1. ASSUME NEW y \in Machine, y.state \in ActiveState => ~y.cancelRequested,
             NEW todo, Orderly(todo, FALSE)
      PROVE  Fine(Accepted(y, todo))
  BY <1>1 DEF Fine, Accepted
<1>2. Fine(Ignored(x)) /\ Fine(Invalid(x))
  BY OrdersOfOutcomes DEF Fine, Ignored, Invalid
<1>3. \A y \in Machine : ~y.cancelRequested => Fine(BeginFinalize(y))
  BY <1>1, OrdersOfOutcomes DEF BeginFinalize, Machine, State
<1>4. ASSUME NEW locked \in BOOLEAN PROVE Fine(Start(x, locked, id))
  <2>1. CASE x.state = "Idle" /\ id # NoSession
    <3> DEFINE y == [NewMachine EXCEPT !.state = "Starting", !.session = id, !.pendingLocked = locked]
    <3>1. y \in Machine /\ ~y.cancelRequested
      BY DEF NewMachine, Machine, State, Named
    <3> HIDE DEF y
    <3>2. Fine(Accepted(y, <<"StartCapture", "AnnounceState">>))
      BY <1>1, <3>1, OrdersOfOutcomes
    <3>3. Start(x, locked, id) = Accepted(y, <<"StartCapture", "AnnounceState">>)
      BY <2>1 DEF Start, y
    <3> QED
      BY <3>2, <3>3
  <2>2. CASE ~(x.state = "Idle" /\ id # NoSession)
    BY <1>2, <2>2 DEF Start
  <2> QED
    BY <2>1, <2>2
<1>5. /\ Fine(Accepted([x EXCEPT !.pendingStop = TRUE], << >>))
      /\ Fine(Accepted([x EXCEPT !.pendingLocked = TRUE], << >>))
  BY <1>1, OrdersOfOutcomes DEF Machine
<1>6. Fine(Toggle(x, id))
  BY <1>2, <1>3, <1>4, <1>5 DEF Toggle
<1>7. Fine(HoldUp(x)) /\ Fine(Stop(x)) /\ Fine(DurationLimit(x))
  BY <1>2, <1>3, <1>5 DEF HoldUp, Stop, DurationLimit
<1>8. Fine(Lock(x))
  <2>1. x.state = "RecordingHeld" => Fine(Accepted([x EXCEPT !.state = "RecordingLocked"], <<"AnnounceState">>))
    BY <1>1, OrdersOfOutcomes DEF Machine, State
  <2> QED
    BY <1>2, <1>5, <2>1 DEF Lock
<1>9. Fine(Cancel(x))
  <2>1. Fine(Accepted([x EXCEPT !.cancelRequested = TRUE, !.state = "Cancelled"], Abandon))
    BY <1>1, OrdersOfOutcomes DEF Machine, State
  <2> QED
    BY <1>2, <2>1 DEF Cancel
<1>10. Fine(CaptureStarted(x))
  <2> DEFINE y == [x EXCEPT !.state = IF x.pendingLocked THEN "RecordingLocked" ELSE "RecordingHeld"]
             z == [y EXCEPT !.pendingStop = FALSE]
  <2>1. CASE x.state # "Starting"
    BY <1>2, <2>1 DEF CaptureStarted
  <2>2. CASE x.state = "Starting"
    <3>1. /\ y \in Machine /\ ~y.cancelRequested /\ z \in Machine /\ ~z.cancelRequested
      BY <2>2 DEF Machine, State
    <3> HIDE DEF y, z
    <3>2. Fine(BeginFinalize(z)) /\ Fine(Accepted(y, <<"AnnounceState">>))
      BY <1>1, <1>3, <3>1, OrdersOfOutcomes
    <3> QED
      BY <2>2, <3>2 DEF CaptureStarted, y, z
  <2> QED
    BY <2>1, <2>2
<1>11. Fine(Finalized(x))
  <2>1. x.state = "Finalizing" => Fine(Accepted([x EXCEPT !.state = "Delivering"], <<"DeliverText">>))
    BY <1>1, OrdersOfOutcomes DEF Machine, State
  <2> QED
    BY <1>2, <2>1 DEF Finalized
<1>12. Fine(Delivered(x)) /\ Fine(Failed(x)) /\ Fine(Reset(x))
  <2>1. Fine(Accepted([x EXCEPT !.state = "Idle", !.session = NoSession], <<"AnnounceState", "ReleaseResources">>))
    BY <1>1, OrdersOfOutcomes DEF Machine, State
  <2>2. Fine(Accepted([x EXCEPT !.state = "Error"], Abandon))
    BY <1>1, OrdersOfOutcomes DEF Machine, State
  <2>3. Fine(Accepted(NewMachine, <<"AnnounceState">>))
    BY <1>1, OrdersOfOutcomes DEF Machine, State, NewMachine
  <2> QED
    BY <1>2, <2>1, <2>2, <2>3 DEF Delivered, Failed, Reset
<1> QED
  BY <1>4, <1>6, <1>7, <1>8, <1>9, <1>10, <1>11, <1>12 DEF Handle, Event

LEMMA TickIsFine ==
  ASSUME NEW x \in Machine, x.state \in ActiveState => ~x.cancelRequested, NEW elapsed
  PROVE  Fine(Tick(x, elapsed))
<1>1. Fine(DurationLimit(x))
  <2>1. Handle(x, "DurationLimit", NoSession) = DurationLimit(x)
    BY DEF Handle
  <2> QED
    BY <2>1, HandleIsFine DEF Named, Event
<1>2. Fine(Accepted([x EXCEPT !.warned = TRUE], <<"WarnDurationLimit">>)) /\ Fine(Ignored(x))
  BY OrdersOfOutcomes DEF Fine, Accepted, Ignored, Machine
<1> QED
  BY <1>1, <1>2 DEF Tick

-----------------------------------------------------------------------------
(* The steps *)

LEMMA OneEvent == ASSUME NEW event \in Event PROVE <<event>> \in Seq(Event)
OBVIOUS

LEMMA MoreEvents ==
  ASSUME NEW q \in Seq(Event), NEW event \in Event
  PROVE  q \o <<event>> \in Seq(Event)
OBVIOUS

LEMMA NoMoreEvents == ASSUME NEW q \in Seq(Event) PROVE q \o << >> \in Seq(Event)
OBVIOUS

\* What is said of the active session holds of one that has nothing new to say.
SameOwner ==
  active' # NoActive => /\ active # NoActive /\ active'.session = active.session
                        /\ active'.epoch \in {active.epoch, Discarded}

LEMMA RequestsStay ==
  ASSUME SpeechInv, UNCHANGED <<epoch, asr, replies>>, SameOwner
  PROVE  SpeechInv'
BY DEF SpeechInv, SameOwner, Discarded

\* Steps that leave the session, its requests and what was handed over alone.
LEMMA StillSpeech ==
  ASSUME ControlInv, UNCHANGED <<active, epoch, asr, replies, log>>, MachineInv',
         Orderly(effects', ~Capturing)
  PROVE  ControlInv'
<1>1. SpeechInv'
  BY DEF ControlInv, SpeechInv
<1>2. ActiveInv' /\ Capturing' = Capturing /\ OwnSpeechOnly' /\ LogShape'
  BY DEF ControlInv, ActiveInv, Capturing, OwnSpeechOnly, LogShape
<1> QED
  BY <1>1, <1>2 DEF ControlInv

LEMMA ApplyKeeps ==
  ASSUME ControlInv, NEW event \in Event, Apply(event), UNCHANGED <<active, epoch, asr, replies, log>>
  PROVE  ControlInv'
<1>1. UNCHANGED <<m, effects>> /\ queue' \in Seq(Event)
  BY OneEvent DEF Apply
<1> QED
  BY <1>1, StillSpeech DEF ControlInv, MachineInv

LEMMA CommandKeeps == ASSUME ControlInv, Command PROVE ControlInv'
<1>1. ASSUME NEW event \in Event, Ui(event) \/ \E s \in Sessions : ApiEnd(s, event)
      PROVE  ControlInv'
  BY <1>1, ApplyKeeps DEF Ui, ApiEnd, others
<1>2. CASE ApiStart \/ Lifecycle
  <2>1. {"Toggle", "Cancel"} \subseteq Event
    BY DEF Event
  <2> QED
    BY <1>2, <2>1, ApplyKeeps DEF ApiStart, Lifecycle, others
<1>3. ASSUME NEW action \in Keys, Press(action) PROVE ControlInv'
  <2>1. (IF action = "Hold" THEN "HoldDown" ELSE action) \in Event
    BY KeysAssumption DEF ShortcutAction, Event
  <2> QED
    BY <1>3, <2>1, ApplyKeeps DEF Press, others
<1>4. ASSUME NEW action \in Keys, Release(action) PROVE ControlInv'
  <2>1. UNCHANGED <<m, queue, effects, active, epoch, asr, replies, log>>
    BY <1>4 DEF Release, control, others
  <2> QED
    BY <2>1, StillSpeech DEF ControlInv, MachineInv
<1>5. CASE Shutdown
  <2>1. UNCHANGED <<m, effects, active, epoch, asr, replies, log>> /\ queue' \in Seq(Event)
    BY <1>5, OneEvent DEF Shutdown, others, Event
  <2> QED
    BY <2>1, StillSpeech DEF ControlInv, MachineInv
<1> QED
  BY <1>1, <1>2, <1>3, <1>4, <1>5 DEF Command

LEMMA TimerKeeps == ASSUME ControlInv, Timer PROVE ControlInv'
<1>1. CASE HoldUpDue \/ CaptureError \/ ErrorTimeout
  <2>1. {"HoldUp", "Cancel", "Reset"} \subseteq Event
    BY DEF Event
  <2> QED
    BY <1>1, <2>1, ApplyKeeps DEF HoldUpDue, CaptureError, ErrorTimeout, others
<1>2. CASE SchedulePartial
  <2>1. /\ UNCHANGED <<m, queue, effects, epoch, replies, log>> /\ active # NoActive
        /\ active' = [active EXCEPT !.partialInFlight = TRUE]
        /\ asr' = Append(asr, [kind |-> "partial", epoch |-> active.epoch, of |-> active.session])
    BY <1>2 DEF SchedulePartial, Capturing, control
  <2>2. ActiveInv /\ SpeechInv /\ active \in AnyActive
    BY <2>1 DEF ControlInv, ActiveInv
  <2>3. /\ active' \in AnyActive /\ active'.session = active.session /\ active'.epoch = active.epoch
        /\ active'.capturing = active.capturing /\ active'.pcm = active.pcm /\ active'.text = active.text
    BY <2>1, <2>2 DEF AnyActive
  <2>4. ActiveInv'
    BY <2>1, <2>2, <2>3 DEF ActiveInv
  <2>5. SpeechInv'
    <3> DEFINE request == [kind |-> "partial", epoch |-> active.epoch, of |-> active.session]
    <3>1. request \in AnyRequest /\ request.kind # "final"
      BY <2>2 DEF AnyRequest, AnyActive
    <3>2. /\ asr' \in Seq(AnyRequest) /\ DOMAIN asr' = 1..(Len(asr) + 1) /\ DOMAIN asr = 1..Len(asr)
          /\ \A i \in DOMAIN asr : asr'[i] = asr[i]
          /\ asr'[Len(asr) + 1] = request
      BY <2>1, <2>2, <3>1 DEF SpeechInv
    <3> HIDE DEF request
    <3>3. \A i \in DOMAIN asr' : asr'[i].kind = "final" => i \in DOMAIN asr
      BY <2>2, <3>1, <3>2 DEF SpeechInv
    <3> QED
      BY <2>1, <2>2, <2>3, <3>2, <3>3 DEF SpeechInv
  <2>6. Capturing' => Capturing
    BY <2>1, <2>3 DEF Capturing
  <2>7. Orderly(effects', ~Capturing') /\ MachineInv' /\ OwnSpeechOnly' /\ LogShape'
    BY <2>1, <2>6 DEF ControlInv, Orderly, MachineInv, OwnSpeechOnly, LogShape
  <2> QED
    BY <2>4, <2>5, <2>7 DEF ControlInv
<1>3. ASSUME NEW elapsed \in Elapsed, TickMachine(elapsed) PROVE ControlInv'
  <2>1. /\ UNCHANGED <<queue, active, epoch, asr, replies, log>>
        /\ m' = Tick(m, elapsed).m
        /\ effects' \in {effects, Tick(m, elapsed).effects}
    BY <1>3 DEF TickMachine, others
  <2>2. Fine(Tick(m, elapsed))
    BY TickIsFine DEF ControlInv, MachineInv
  <2>3. MachineInv'
    BY <2>1, <2>2 DEF ControlInv, MachineInv, Fine
  <2>4. Orderly(effects', ~Capturing)
    BY <2>1, <2>2, OrderlyAnyway DEF ControlInv, Fine
  <2> QED
    BY <2>1, <2>3, <2>4, StillSpeech
<1> QED
  BY <1>1, <1>2, <1>3 DEF Timer

LEMMA HandleKeeps == ASSUME ControlInv, HandleEvent PROVE ControlInv'
<1>1. /\ UNCHANGED <<active, epoch, asr, replies, log>> /\ queue # << >> /\ queue' = Tail(queue)
      /\ \E id \in Drawn(Head(queue)) :
           LET out == Handle(m, Head(queue), id)
           IN  \/ m' = out.m /\ effects' = out.effects
               \/ UNCHANGED <<m, effects>>
  BY DEF HandleEvent, others
<1>2. Head(queue) \in Event /\ queue' \in Seq(Event)
  BY <1>1 DEF ControlInv, MachineInv
<1>3. PICK id \in Named :
        \/ m' = Handle(m, Head(queue), id).m /\ effects' = Handle(m, Head(queue), id).effects
        \/ UNCHANGED <<m, effects>>
  BY <1>1 DEF Drawn, Named
<1>4. Fine(Handle(m, Head(queue), id))
  BY <1>2, HandleIsFine DEF ControlInv, MachineInv
<1>5. MachineInv'
  BY <1>2, <1>3, <1>4 DEF ControlInv, MachineInv, Fine
<1>6. Orderly(effects', ~Capturing)
  BY <1>3, <1>4, OrderlyAnyway DEF ControlInv, Fine
<1> QED
  BY <1>1, <1>5, <1>6, StillSpeech

-----------------------------------------------------------------------------
(* What perform does *)

\* Every effect but the stop of the microphone leaves the rest as orderly as it was,
\* and the machine alone; what follows are events.
LEMMA PerformShape ==
  ASSUME ControlInv, NEW effect, NEW follow, Perform(effect, follow),
         follow = << >> \/ \E event \in Event : follow = <<event>>
  PROVE  /\ MachineInv' /\ effects # << >> /\ Head(effects) = effect /\ effects' = Tail(effects)
         /\ effect # "StopCapture" /\ (Capturing' => Capturing) => Orderly(effects', ~Capturing')
<1>1. /\ effects # << >> /\ Head(effects) = effect /\ effects' = Tail(effects)
      /\ UNCHANGED m /\ queue' = queue \o follow
  BY DEF Perform
<1>2. queue' \in Seq(Event)
  <2>1. queue \in Seq(Event)
    BY DEF ControlInv, MachineInv
  <2>2. CASE follow = << >>
    BY <1>1, <2>1, <2>2, NoMoreEvents
  <2>3. ASSUME NEW event \in Event, follow = <<event>> PROVE queue' \in Seq(Event)
    BY <1>1, <2>1, <2>3, MoreEvents
  <2> QED
    BY <2>2, <2>3
<1>3. ASSUME effect # "StopCapture", Capturing' => Capturing
      PROVE  Orderly(effects', ~Capturing')
  BY <1>1, <1>3, TailOrderly DEF ControlInv
<1> QED
  BY <1>1, <1>2, <1>3 DEF ControlInv, MachineInv

EventOrNone(follow) == follow = << >> \/ \E event \in Event : follow = <<event>>

LEMMA Follows ==
  /\ EventOrNone(<< >>) /\ EventOrNone(<<"CaptureStarted">>) /\ EventOrNone(<<"Failed">>)
  /\ EventOrNone(<<"Finalized">>) /\ EventOrNone(<<"Delivered">>) /\ EventOrNone(<<"Reset">>)
BY DEF EventOrNone, Event

LEMMA StartKeeps == ASSUME ControlInv, StartCapture PROVE ControlInv'
<1>1. /\ epoch' = epoch + 1 /\ UNCHANGED <<asr, replies, log>>
      /\ \/ /\ active' = [session |-> m.session, epoch |-> epoch + 1, capturing |-> TRUE,
                          pcm |-> "none", partialInFlight |-> FALSE, text |-> NoText]
            /\ Perform("StartCapture", <<"CaptureStarted">>)
         \/ Perform("StartCapture", <<"Failed">>) /\ UNCHANGED active
  BY DEF StartCapture
<1>2. MachineInv' /\ Orderly(effects', ~Capturing')
  <2>1. /\ MachineInv' /\ effects # << >> /\ Head(effects) = "StartCapture" /\ effects' = Tail(effects)
    BY <1>1, PerformShape, Follows DEF EventOrNone
  <2> QED
    BY <2>1, TailOrderly DEF ControlInv
<1>3. m.session \in Named /\ epoch \in Nat
  BY DEF ControlInv, MachineInv, SpeechInv, Machine, Named
<1>4. CASE UNCHANGED active
  <2>1. ActiveInv' /\ SpeechInv'
    BY <1>1, <1>3, <1>4 DEF ControlInv, ActiveInv, SpeechInv, AnyActive
  <2> QED
    BY <1>1, <1>2, <2>1 DEF ControlInv, OwnSpeechOnly, LogShape
<1>5. CASE active' = [session |-> m.session, epoch |-> epoch + 1, capturing |-> TRUE,
                      pcm |-> "none", partialInFlight |-> FALSE, text |-> NoText]
  <2>1. active' \in AnyActive /\ active'.epoch = epoch + 1 /\ active'.text = NoText
    BY <1>3, <1>5 DEF AnyActive, Pcm
  <2>2. ActiveInv'
    BY <1>1, <1>3, <2>1 DEF ActiveInv
  <2>3. SpeechInv'
    BY <1>1, <1>3, <2>1 DEF ControlInv, SpeechInv
  <2> QED
    BY <1>1, <1>2, <2>2, <2>3 DEF ControlInv, OwnSpeechOnly, LogShape
<1> QED
  BY <1>1, <1>4, <1>5

LEMMA StopKeeps == ASSUME ControlInv, StopCapture PROVE ControlInv'
<1>1. /\ UNCHANGED <<epoch, asr, replies, log>>
      /\ \E follow : Perform("StopCapture", follow) /\ EventOrNone(follow)
      /\ \/ ~Capturing /\ UNCHANGED active
         \/ Capturing /\ \E pcm \in Pcm : active' = [active EXCEPT !.capturing = FALSE, !.pcm = pcm]
  BY Follows DEF StopCapture, Pcm
<1>2. /\ active' # NoActive => active # NoActive
      /\ ~Capturing'
  BY <1>1 DEF ControlInv, ActiveInv, AnyActive, Capturing
<1>3. MachineInv' /\ Orderly(effects', ~Capturing')
  <2>1. MachineInv' /\ effects # << >> /\ effects' = Tail(effects)
    BY <1>1, PerformShape DEF EventOrNone
  <2> QED
    BY <1>2, <2>1, TailOrderly DEF ControlInv
<1>4. ActiveInv' /\ SameOwner
  BY <1>1 DEF ControlInv, ActiveInv, AnyActive, Capturing, SameOwner
<1> QED
  BY <1>1, <1>3, <1>4, RequestsStay DEF ControlInv, OwnSpeechOnly, LogShape

LEMMA FinalizeKeeps == ASSUME ControlInv, FinalizeTranscript PROVE ControlInv'
<1>1. /\ UNCHANGED <<epoch, replies, log>>
      /\ \E follow : Perform("FinalizeTranscript", follow) /\ EventOrNone(follow)
  BY Follows DEF FinalizeTranscript
<1>2. MachineInv' /\ ((Capturing' => Capturing) => Orderly(effects', ~Capturing'))
  BY <1>1, PerformShape DEF EventOrNone
<1>3. CASE UNCHANGED <<active, asr>>
  <2>1. ActiveInv' /\ SameOwner /\ Capturing' = Capturing
    BY <1>1, <1>3 DEF ControlInv, ActiveInv, SameOwner, Capturing
  <2> QED
    BY <1>1, <1>2, <1>3, <2>1, RequestsStay DEF ControlInv, OwnSpeechOnly, LogShape
<1>4. CASE active # NoActive /\ active' = [active EXCEPT !.text = Silence] /\ UNCHANGED asr
  <2>1. ActiveInv' /\ SameOwner /\ (Capturing' => Capturing)
    BY <1>1, <1>4 DEF ControlInv, ActiveInv, AnyActive, SameOwner, Capturing
  <2> QED
    BY <1>1, <1>2, <1>4, <2>1, RequestsStay DEF ControlInv, OwnSpeechOnly, LogShape
<1>5. CASE /\ active # NoActive /\ active.pcm = "speech" /\ UNCHANGED active
           /\ asr' = Append(asr, [kind |-> "final", epoch |-> active.epoch, of |-> active.session])
  <2> DEFINE request == [kind |-> "final", epoch |-> active.epoch, of |-> active.session]
  <2>1. /\ request \in AnyRequest /\ request.epoch \in 1..epoch
        /\ request.epoch = active.epoch /\ request.of = active.session
    BY <1>5 DEF ControlInv, ActiveInv, SpeechInv, AnyRequest, AnyActive
  <2>2. asr \in Seq(AnyRequest)
    BY DEF ControlInv, SpeechInv
  <2>3. /\ asr' \in Seq(AnyRequest) /\ DOMAIN asr' = 1..(Len(asr) + 1) /\ DOMAIN asr = 1..Len(asr)
        /\ \A i \in DOMAIN asr : asr'[i] = asr[i]
        /\ asr'[Len(asr) + 1] = request
    BY <1>5, <2>1, <2>2
  <2> HIDE DEF request
  <2>4. \A i \in DOMAIN asr' : i \in DOMAIN asr \/ asr'[i] = request
    BY <2>2, <2>3
  <2>5. SpeechInv'
    BY <1>1, <1>5, <2>1, <2>3, <2>4 DEF ControlInv, SpeechInv
  <2>6. ActiveInv' /\ Capturing' = Capturing
    BY <1>1, <1>5 DEF ControlInv, ActiveInv, Capturing
  <2> QED
    BY <1>1, <1>2, <2>5, <2>6 DEF ControlInv, OwnSpeechOnly, LogShape
<1> QED
  BY <1>3, <1>4, <1>5 DEF FinalizeTranscript

LEMMA OtherEffectsKeep ==
  ASSUME ControlInv, DeliverText \/ DiscardSession \/ AnnounceState \/ ReleaseResources
  PROVE  ControlInv'
<1>1. CASE DeliverText
  <2>1. /\ UNCHANGED <<active, epoch, asr, replies>> /\ Perform("DeliverText", <<"Delivered">>)
    BY <1>1 DEF DeliverText
  <2>2. MachineInv' /\ Orderly(effects', ~Capturing')
    BY <2>1, PerformShape, Follows DEF EventOrNone, Capturing
  <2>3. ActiveInv' /\ SpeechInv'
    BY <2>1, RequestsStay DEF ControlInv, ActiveInv, SpeechInv, SameOwner
  <2>4. OwnSpeechOnly' /\ LogShape'
    <3>1. CASE UNCHANGED log
      BY <3>1 DEF ControlInv, OwnSpeechOnly, LogShape
    <3>2. CASE /\ active # NoActive /\ active.text \notin {NoText, Silence}
               /\ log' = [log EXCEPT !.handed = @ \cup {[session |-> active.session, of |-> active.text]}]
      <4>1. active.text = active.session
        BY <3>2 DEF ControlInv, ActiveInv
      <4>2. /\ LogShape'
            /\ \A h \in log'.handed : h \in log.handed \/ h = [session |-> active.session, of |-> active.text]
        BY <3>2 DEF ControlInv, LogShape
      <4> QED
        BY <4>1, <4>2 DEF ControlInv, OwnSpeechOnly, LogShape
    <3> QED
      BY <1>1, <3>1, <3>2 DEF DeliverText
  <2> QED
    BY <2>2, <2>3, <2>4 DEF ControlInv
<1>2. CASE DiscardSession
  <2>1. /\ UNCHANGED <<epoch, asr, replies, log>> /\ Perform("DiscardSession", << >>)
        /\ active' = IF active = NoActive THEN active
                     ELSE [active EXCEPT !.pcm = "none", !.text = NoText, !.epoch = Discarded]
    BY <1>2 DEF DiscardSession
  <2>2. ~Capturing
    <3>1. effects # << >> /\ Head(effects) = "DiscardSession" /\ effects \in Seq(Effect)
      BY <2>1 DEF Perform, ControlInv, Orderly
    <3>2. 1 \in DOMAIN effects /\ effects[1] = "DiscardSession"
      BY <3>1
    <3> QED
      BY <3>2 DEF ControlInv, Orderly
  <2>3. ActiveInv' /\ SameOwner /\ (Capturing' => Capturing)
    <3>1. CASE active = NoActive
      BY <2>1, <3>1 DEF ActiveInv, SameOwner, Capturing
    <3>2. CASE active # NoActive
      <4>1. /\ active \in AnyActive /\ active.capturing = FALSE /\ epoch \in Nat
            /\ active' = [active EXCEPT !.pcm = "none", !.text = NoText, !.epoch = Discarded]
        BY <2>1, <2>2, <3>2 DEF ControlInv, ActiveInv, SpeechInv, Capturing, AnyActive
      <4>2. /\ active' \in AnyActive /\ active'.session = active.session /\ active'.epoch = Discarded
            /\ active'.capturing = FALSE /\ active'.pcm = "none" /\ active'.text = NoText
        BY <4>1 DEF AnyActive, Pcm, Discarded
      <4> QED
        BY <2>1, <3>2, <4>1, <4>2 DEF ActiveInv, SameOwner, Capturing, Discarded
    <3> QED
      BY <3>1, <3>2
  <2>4. MachineInv' /\ Orderly(effects', ~Capturing')
    BY <2>1, <2>3, PerformShape
  <2> QED
    BY <2>1, <2>3, <2>4, RequestsStay DEF ControlInv, OwnSpeechOnly, LogShape
<1>3. CASE AnnounceState
  <2>1. /\ UNCHANGED <<active, epoch, asr, replies>>
        /\ \E follow : Perform("AnnounceState", follow) /\ EventOrNone(follow)
    BY <1>3, Follows DEF AnnounceState
  <2>2. MachineInv' /\ Orderly(effects', ~Capturing')
    BY <2>1, PerformShape DEF EventOrNone, Capturing
  <2>3. ActiveInv' /\ SpeechInv'
    BY <2>1, RequestsStay DEF ControlInv, ActiveInv, SpeechInv, SameOwner
  <2>4. UNCHANGED log \/ \E about, events : log' = [log EXCEPT !.published[about] = @ \cup events]
    BY <1>3 DEF AnnounceState
  <2>5. OwnSpeechOnly' /\ LogShape'
    BY <2>4 DEF ControlInv, OwnSpeechOnly, LogShape
  <2> QED
    BY <2>2, <2>3, <2>5 DEF ControlInv
<1>4. CASE ReleaseResources
  <2>1. /\ UNCHANGED <<epoch, asr, replies>> /\ active' = NoActive
        /\ Perform("ReleaseResources", << >>)
        /\ log' = log \/ log' = [log EXCEPT !.copies = @ \cup {active.session}]
    BY <1>4 DEF ReleaseResources
  <2>2. MachineInv' /\ Orderly(effects', ~Capturing')
    BY <2>1, PerformShape DEF Capturing
  <2>3. ActiveInv' /\ SpeechInv'
    BY <2>1, RequestsStay DEF ControlInv, ActiveInv, SameOwner
  <2>4. OwnSpeechOnly' /\ LogShape'
    BY <2>1 DEF ControlInv, OwnSpeechOnly, LogShape
  <2> QED
    BY <2>2, <2>3, <2>4 DEF ControlInv
<1> QED
  BY <1>1, <1>2, <1>3, <1>4

LEMMA EffectKeeps == ASSUME ControlInv, PerformEffect PROVE ControlInv'
BY StartKeeps, StopKeeps, FinalizeKeeps, OtherEffectsKeep DEF PerformEffect

-----------------------------------------------------------------------------
(* The answers of the speech thread *)

LEMMA AnswersKeep == ASSUME ControlInv, Recognize \/ OnPartial \/ OnFinal PROVE ControlInv'
<1>1. CASE Recognize
  <2>1. /\ UNCHANGED <<m, queue, effects, active, epoch, log>> /\ asr # << >> /\ asr' = Tail(asr)
    BY <1>1 DEF Recognize, control
  <2>2. PICK text \in {Head(asr).of, Silence, NoText} :
          replies' = Append(replies, [kind |-> Head(asr).kind, epoch |-> Head(asr).epoch, text |-> text])
    BY <1>1 DEF Recognize
  <2> DEFINE reply == [kind |-> Head(asr).kind, epoch |-> Head(asr).epoch, text |-> text]
  <2>3. asr \in Seq(AnyRequest) /\ replies \in Seq(AnyReply)
    BY DEF ControlInv, SpeechInv
  <2>4. /\ Head(asr) = asr[1] /\ Head(asr) \in AnyRequest /\ 1 \in DOMAIN asr
        /\ asr' \in Seq(AnyRequest)
        /\ \A i \in DOMAIN asr' : i + 1 \in DOMAIN asr /\ asr'[i] = asr[i + 1]
    BY <2>1, <2>3
  <2>5. reply \in AnyReply /\ reply.kind = Head(asr).kind /\ reply.epoch = Head(asr).epoch
        /\ reply.text = text
    BY <2>4 DEF AnyReply, AnyRequest
  <2>6. /\ replies' \in Seq(AnyReply) /\ DOMAIN replies' = 1..(Len(replies) + 1)
        /\ DOMAIN replies = 1..Len(replies) /\ Len(replies) \in Nat
        /\ \A i \in DOMAIN replies : replies'[i] = replies[i]
        /\ replies'[Len(replies) + 1] = reply
    BY <2>2, <2>3, <2>5
  <2> HIDE DEF reply
  <2>7. \A i \in DOMAIN replies' : i \in DOMAIN replies \/ replies'[i] = reply
    BY <2>6
  <2>8. reply.kind = "final" =>
          /\ reply.epoch \in 1..epoch
          /\ active # NoActive /\ reply.epoch = active.epoch => text \in {NoText, Silence, active.session}
    BY <2>4, <2>5 DEF ControlInv, SpeechInv
  <2>9. SpeechInv'
    BY <2>1, <2>4, <2>5, <2>6, <2>7, <2>8 DEF ControlInv, SpeechInv
  <2> QED
    BY <2>1, <2>9 DEF ControlInv, MachineInv, ActiveInv, Capturing, LogShape, OwnSpeechOnly
<1>2. CASE OnPartial \/ OnFinal
  <2>1. /\ UNCHANGED <<m, effects, epoch, asr, log>> /\ replies # << >> /\ replies' = Tail(replies)
    BY <1>2 DEF OnPartial, OnFinal, control
  <2>2. MachineInv'
    <3>1. queue' \in Seq(Event)
      BY <1>2, OneEvent DEF OnPartial, OnFinal, control, Event, ControlInv, MachineInv
    <3> QED
      BY <2>1, <3>1 DEF ControlInv, MachineInv
  <2>3. /\ Head(replies) = replies[1] /\ 1 \in DOMAIN replies /\ replies' \in Seq(AnyReply)
        /\ \A i \in DOMAIN replies' : i + 1 \in DOMAIN replies /\ replies'[i] = replies[i + 1]
    BY <2>1 DEF ControlInv, SpeechInv
  <2>4. \/ UNCHANGED active
        \/ active # NoActive /\ active' = [active EXCEPT !.partialInFlight = FALSE]
        \/ /\ Awaited(Head(replies)) /\ Head(replies).kind = "final"
           /\ active' = [active EXCEPT !.text = Head(replies).text]
    BY <1>2 DEF OnPartial, OnFinal
  <2>5. ActiveInv' /\ SameOwner /\ (Capturing' => Capturing)
    <3>1. CASE UNCHANGED active
      BY <2>1, <3>1 DEF ControlInv, ActiveInv, SameOwner, Capturing
    <3>2. CASE active # NoActive /\ active' = [active EXCEPT !.partialInFlight = FALSE]
      BY <2>1, <3>2 DEF ControlInv, ActiveInv, AnyActive, SameOwner, Capturing
    <3>3. CASE /\ Awaited(Head(replies)) /\ Head(replies).kind = "final"
               /\ active' = [active EXCEPT !.text = Head(replies).text]
      <4>1. active # NoActive /\ active \in AnyActive
        BY <3>3 DEF Awaited, ControlInv, ActiveInv
      <4>2. Head(replies).text \in {NoText, Silence, active.session}
        BY <2>3, <3>3 DEF Awaited, ControlInv, SpeechInv
      <4>3. Head(replies).text \in Named \cup {NoText, Silence}
        BY <4>1, <4>2 DEF AnyActive
      <4>4. /\ active' \in AnyActive /\ active'.text = Head(replies).text
            /\ active'.session = active.session /\ active'.epoch = active.epoch
            /\ active'.capturing = active.capturing /\ active'.pcm = active.pcm
        BY <3>3, <4>1, <4>3 DEF AnyActive
      <4> QED
        BY <2>1, <4>1, <4>2, <4>4 DEF ControlInv, ActiveInv, SameOwner, Capturing
    <3> QED
      BY <2>4, <3>1, <3>2, <3>3
  <2>6. SpeechInv'
    BY <2>1, <2>3, <2>5 DEF ControlInv, SpeechInv, SameOwner, Discarded
  <2>7. Orderly(effects', ~Capturing')
    BY <2>1, <2>5 DEF ControlInv, Orderly
  <2> QED
    BY <2>1, <2>2, <2>5, <2>6, <2>7 DEF ControlInv, LogShape, OwnSpeechOnly
<1> QED
  BY <1>1, <1>2

LEMMA ControlStarts == ASSUME Init PROVE ControlInv
<1>1. MachineInv
  BY DEF Init, MachineInv, Machine, NewMachine, State, ActiveState, Recording
<1>2. Orderly(effects, ~Capturing)
  BY OrdersOfOutcomes, OrderlyAnyway DEF Init
<1>3. ActiveInv /\ SpeechInv /\ LogShape /\ OwnSpeechOnly
  BY DEF Init, ActiveInv, SpeechInv, LogShape, OwnSpeechOnly
<1> QED
  BY <1>1, <1>2, <1>3 DEF ControlInv

LEMMA ControlStep == ASSUME ControlInv, [Next]_vars PROVE ControlInv'
<1>1. CASE UNCHANGED vars
  BY <1>1, StillSpeech DEF vars, control, ControlInv, MachineInv
<1> QED
  BY <1>1, CommandKeeps, TimerKeeps, HandleKeeps, EffectKeeps, AnswersKeep DEF Next

\* "A result for an older or cancelled session is discarded": whatever the user, the
\* API's clients, the timers and the microphone do while the speech thread works, and
\* however late it answers, no session's text is handed over for another session.
THEOREM SpeechStaysOwn == Spec => []OwnSpeechOnly
<1>1. Init => ControlInv
  BY ControlStarts
<1>2. ControlInv /\ [Next]_vars => ControlInv'
  BY ControlStep
<1>3. ControlInv => OwnSpeechOnly
  BY DEF ControlInv
<1> QED
  BY <1>1, <1>2, <1>3, PTL DEF Spec

-----------------------------------------------------------------------------
(* The controller implements Dictation                                      *)

\* What perform has left to do, by what it was asked for: Abandon step by step, the
\* opening of a session, its finalization, and its end.
Opening   == <<"StartCapture", "AnnounceState">>
Wrapping  == <<"StopCapture", "FinalizeTranscript", "AnnounceState">>
Wrapped   == <<"FinalizeTranscript", "AnnounceState">>
Dropping  == <<"DiscardSession", "AnnounceState", "ReleaseResources">>
Closing   == <<"AnnounceState", "ReleaseResources">>
Releasing == <<"ReleaseResources">>
Announcing == <<"AnnounceState">>
Handing   == <<"DeliverText">>

LEMMA NextEffects ==
  /\ Head(Abandon) = "StopCapture" /\ Tail(Abandon) = Dropping
  /\ Head(Opening) = "StartCapture" /\ Tail(Opening) = Announcing
  /\ Head(Wrapping) = "StopCapture" /\ Tail(Wrapping) = Wrapped
  /\ Head(Wrapped) = "FinalizeTranscript" /\ Tail(Wrapped) = Announcing
  /\ Head(Dropping) = "DiscardSession" /\ Tail(Dropping) = Closing
  /\ Head(Closing) = "AnnounceState" /\ Tail(Closing) = Releasing
  /\ Head(Releasing) = "ReleaseResources" /\ Tail(Releasing) = << >>
  /\ Head(Announcing) = "AnnounceState" /\ Tail(Announcing) = << >>
  /\ Head(Handing) = "DeliverText" /\ Tail(Handing) = << >>
BY DEF Abandon, Opening, Wrapping, Wrapped, Dropping, Closing, Releasing, Announcing, Handing

\* Told apart by their lengths, and by what comes first.
LEMMA EffectsDiffer ==
  /\ Len(Abandon) = 4 /\ Len(Wrapping) = 3 /\ Len(Dropping) = 3 /\ Len(Opening) = 2 /\ Len(Wrapped) = 2
  /\ Len(Closing) = 2 /\ Len(Releasing) = 1 /\ Len(Announcing) = 1 /\ Len(Handing) = 1 /\ Len(<< >>) = 0
BY DEF Abandon, Opening, Wrapping, Wrapped, Dropping, Closing, Releasing, Announcing, Handing

LEMMA QueueSteps ==
  ASSUME NEW e
  PROVE  /\ Head(<<e>>) = e /\ Tail(<<e>>) = << >> /\ <<e>> # << >>
         /\ << >> \o <<e>> = <<e>> /\ <<e>> \o << >> = <<e>>
         /\ Head(<<"Failed", e>>) = "Failed" /\ Tail(<<"Failed", e>>) = <<e>>
         /\ <<"Failed">> \o <<e>> = <<"Failed", e>> /\ <<"Failed", e>> \o << >> = <<"Failed", e>>
<1>1. Head(<<e>>) = e /\ Tail(<<e>>) = << >> /\ <<e>> # << >>
  OBVIOUS
<1>2. << >> \o <<e>> = <<e>>
  OBVIOUS
<1>3. <<e>> \o << >> = <<e>>
  OBVIOUS
<1>4. Head(<<"Failed", e>>) = "Failed" /\ Tail(<<"Failed", e>>) = <<e>>
  OBVIOUS
<1>5. <<"Failed">> \o <<e>> = <<"Failed", e>>
  <2> DEFINE q == <<"Failed">> \o <<e>>
  <2>1. <<"Failed">> \in Seq({"Failed"}) /\ Len(<<"Failed">>) = 1 /\ Len(<<e>>) = 1
    OBVIOUS
  <2>2. q \in Seq({"Failed", e}) /\ Len(q) = 2
    BY <2>1
  <2>3. q[1] = "Failed" /\ q[2] = e
    BY <2>1
  <2>4. DOMAIN q = 1..2 /\ DOMAIN <<"Failed", e>> = 1..2 /\ 1..2 = {1, 2}
    BY <2>2
  <2>5. q = [i \in 1..2 |-> q[i]] /\ <<"Failed", e>> = [i \in 1..2 |-> <<"Failed", e>>[i]]
    BY <2>2, <2>4
  <2> HIDE DEF q
  <2>6. <<"Failed", e>>[1] = "Failed" /\ <<"Failed", e>>[2] = e
    OBVIOUS
  <2>7. \A i \in 1..2 : q[i] = <<"Failed", e>>[i]
    BY <2>3, <2>4, <2>6
  <2>8. q = <<"Failed", e>>
    BY <2>5, <2>7
  <2> QED
    BY <2>8 DEF q
<1>6. <<"Failed", e>> \o << >> = <<"Failed", e>>
  OBVIOUS
<1> QED
  BY <1>1, <1>2, <1>3, <1>4, <1>5, <1>6

\* What an accepted event makes of the machine.
Means(x, event, id, out) ==
  \/ /\ event = "Cancel" /\ x.state # "Idle" /\ out.m.state = "Cancelled" /\ out.m.session = x.session
     /\ out.effects = Abandon
  \/ /\ event = "Failed" /\ x.state # "Idle" /\ out.m.state = "Error" /\ out.m.session = x.session
     /\ out.effects = Abandon
  \/ /\ event = "Delivered" /\ x.state = "Delivering" /\ out.m.state = "Idle" /\ out.m.session = NoSession
     /\ out.effects = Closing
  \/ /\ event = "Reset" /\ x.state \in {"Cancelled", "Error"} /\ out.m.state = "Idle"
     /\ out.m.session = NoSession /\ out.effects = Announcing
  \/ /\ event \in {"HoldDown", "Toggle"} /\ x.state = "Idle" /\ id # NoSession
     /\ out.m.state = "Starting" /\ out.m.session = id /\ out.effects = Opening
  \/ /\ event \notin {"Cancel", "Failed", "Delivered", "Reset"} /\ out.m.session = x.session
     /\ \/ /\ x.state = "Starting" /\ out.m.state = "Starting" /\ out.effects = << >>
           /\ event # "CaptureStarted"
        \/ /\ x.state \in Recording \cup {"Starting"}
           /\ \/ out.m.state \in Recording /\ out.effects = Announcing
              \/ out.m.state = "Finalizing" /\ out.effects = Wrapping
        \/ x.state = "Finalizing" /\ out.m.state = "Delivering" /\ out.effects = Handing

LEMMA HandleMeans ==
  ASSUME NEW x \in Machine, x.state \in ActiveState => ~x.cancelRequested,
         NEW event \in Event, NEW id \in Named, Handle(x, event, id).verdict = "accepted"
  PROVE  Means(x, event, id, Handle(x, event, id))
<1> DEFINE out == Handle(x, event, id)
<1>1. /\ \A y, todo : Accepted(y, todo).m = y /\ Accepted(y, todo).effects = todo
      /\ \A y : Ignored(y).verdict # "accepted" /\ Invalid(y).verdict # "accepted"
  BY DEF Accepted, Ignored, Invalid
<1>2. \A y \in Machine : /\ BeginFinalize(y).m.state = "Finalizing" /\ BeginFinalize(y).m.session = y.session
                         /\ BeginFinalize(y).effects = Wrapping
  BY DEF BeginFinalize, Accepted, Machine, Wrapping
<1>3. CASE event \in {"Cancel", "Failed"}
  <2>1. CASE event = "Cancel"
    <3> DEFINE y == [x EXCEPT !.cancelRequested = TRUE, !.state = "Cancelled"]
    <3>1. x.state # "Idle" /\ out = Accepted(y, Abandon)
      BY <1>1, <2>1 DEF Handle, Cancel
    <3>2. y.state = "Cancelled" /\ y.session = x.session
      BY DEF Machine
    <3>3. out.m = y /\ out.effects = Abandon
      BY <1>1, <3>1
    <3> HIDE DEF y
    <3> QED
      BY <2>1, <3>1, <3>2, <3>3 DEF Means
  <2>2. CASE event = "Failed"
    <3> DEFINE y == [x EXCEPT !.state = "Error"]
    <3>1. x.state # "Idle" /\ out = Accepted(y, Abandon)
      BY <1>1, <2>2 DEF Handle, Failed
    <3>2. y.state = "Error" /\ y.session = x.session
      BY DEF Machine
    <3>3. out.m = y /\ out.effects = Abandon
      BY <1>1, <3>1
    <3> HIDE DEF y
    <3> QED
      BY <2>2, <3>1, <3>2, <3>3 DEF Means
  <2> QED
    BY <1>3, <2>1, <2>2
<1>4. CASE event \in {"Delivered", "Reset"}
  <2>1. CASE event = "Delivered"
    <3> DEFINE y == [x EXCEPT !.state = "Idle", !.session = NoSession]
    <3>1. x.state = "Delivering" /\ out = Accepted(y, <<"AnnounceState", "ReleaseResources">>)
      BY <1>1, <2>1 DEF Handle, Delivered
    <3>2. y.state = "Idle" /\ y.session = NoSession
      BY DEF Machine
    <3>3. out.m = y /\ out.effects = Closing
      BY <1>1, <3>1 DEF Closing
    <3> HIDE DEF y
    <3> QED
      BY <2>1, <3>1, <3>2, <3>3 DEF Means
  <2>2. CASE event = "Reset"
    <3>1. x.state \in {"Cancelled", "Error"} /\ out = Accepted(NewMachine, <<"AnnounceState">>)
      BY <1>1, <2>2 DEF Handle, Reset
    <3>2. NewMachine.state = "Idle" /\ NewMachine.session = NoSession
      BY DEF NewMachine
    <3>3. out.m = NewMachine /\ out.effects = Announcing
      BY <1>1, <3>1 DEF Announcing
    <3> QED
      BY <2>2, <3>1, <3>2, <3>3 DEF Means
  <2> QED
    BY <1>4, <2>1, <2>2
<1>5. ASSUME event \in {"HoldDown", "Toggle"}, x.state = "Idle" PROVE Means(x, event, id, out)
  <2>1. ASSUME NEW locked \in BOOLEAN, out = Start(x, locked, id) PROVE Means(x, event, id, out)
    <3> DEFINE y == [NewMachine EXCEPT !.state = "Starting", !.session = id, !.pendingLocked = locked]
    <3>1. id # NoSession /\ out = Accepted(y, <<"StartCapture", "AnnounceState">>)
      BY <1>1, <1>5, <2>1 DEF Start, Recording
    <3>2. y.state = "Starting" /\ y.session = id
      BY DEF NewMachine
    <3>3. out.m = y /\ out.effects = Opening
      BY <1>1, <3>1 DEF Opening
    <3> HIDE DEF y
    <3> QED
      BY <1>5, <3>1, <3>2, <3>3 DEF Means
  <2>2. CASE event = "HoldDown"
    <3>1. out = Start(x, FALSE, id)
      BY <2>2 DEF Handle
    <3> QED
      BY <2>1, <3>1
  <2>3. CASE event = "Toggle"
    <3>1. Toggle(x, id) = Start(x, TRUE, id)
      BY <1>5 DEF Toggle, Recording
    <3>2. out = Toggle(x, id)
      BY <2>3 DEF Handle
    <3> QED
      BY <2>1, <3>1, <3>2
  <2> QED
    BY <1>5, <2>2, <2>3
<1>6. CASE event \in {"HoldDown", "HoldUp", "Toggle", "Stop", "DurationLimit"} /\ x.state # "Idle"
  <2> DEFINE y == [x EXCEPT !.pendingStop = TRUE]
  <2>1. y.state = x.state /\ y.session = x.session
    BY DEF Machine
  <2>2. \/ x.state \in Recording /\ out = BeginFinalize(x)
        \/ x.state = "Starting" /\ out = Accepted(y, << >>)
    BY <1>1, <1>6 DEF Handle, HoldUp, Toggle, Stop, DurationLimit, Start, Recording
  <2> HIDE DEF y
  <2> QED
    BY <1>1, <1>2, <1>6, <2>1, <2>2 DEF Means
<1>7. CASE event = "Lock"
  <2> DEFINE y == [x EXCEPT !.pendingLocked = TRUE]
             z == [x EXCEPT !.state = "RecordingLocked"]
  <2>1. y.state = x.state /\ y.session = x.session /\ z.state = "RecordingLocked" /\ z.session = x.session
    BY DEF Machine
  <2>2. \/ x.state = "RecordingHeld" /\ out = Accepted(z, <<"AnnounceState">>)
        \/ x.state = "Starting" /\ out = Accepted(y, << >>)
    BY <1>1, <1>7 DEF Handle, Lock
  <2> HIDE DEF y, z
  <2> QED
    BY <1>1, <1>7, <2>1, <2>2 DEF Means, Announcing, Recording
<1>8. CASE event = "CaptureStarted"
  <2> DEFINE y == [x EXCEPT !.state = IF x.pendingLocked THEN "RecordingLocked" ELSE "RecordingHeld"]
             z == [y EXCEPT !.pendingStop = FALSE]
  <2>1. y \in Machine /\ z \in Machine /\ y.state \in Recording /\ y.session = x.session /\ z.session = x.session
    BY DEF Machine, State, Recording
  <2> HIDE DEF y, z
  <2>2. x.state = "Starting" /\ (out = BeginFinalize(z) \/ out = Accepted(y, <<"AnnounceState">>))
    BY <1>1, <1>8 DEF Handle, CaptureStarted, y, z
  <2> QED
    BY <1>1, <1>2, <1>8, <2>1, <2>2 DEF Means, Announcing
<1>9. CASE event = "Finalized"
  <2> DEFINE y == [x EXCEPT !.state = "Delivering"]
  <2>1. y.state = "Delivering" /\ y.session = x.session
    BY DEF Machine
  <2>2. x.state = "Finalizing" /\ out = Accepted(y, <<"DeliverText">>)
    BY <1>1, <1>9 DEF Handle, Finalized, ActiveState
  <2> HIDE DEF y
  <2> QED
    BY <1>1, <1>9, <2>1, <2>2 DEF Means, Handing
<1>10. CASE event \in {"HoldUp", "Stop", "DurationLimit"} /\ x.state = "Idle"
  BY <1>1, <1>10 DEF Handle, HoldUp, Stop, DurationLimit, Recording
<1> QED
  BY <1>3, <1>4, <1>5, <1>6, <1>7, <1>8, <1>9, <1>10 DEF Event

-----------------------------------------------------------------------------
(* What the loop is about to do, and what became of the sessions            *)

Single(q) == q = << >> \/ \E event \in Event : q = <<event>>
Double(q) == \E event \in {"Failed", "Finalized"} : q = <<"Failed", event>>

\* What can be left to perform and to handle in each state of the machine.  Only a stop
\* that failed leaves two events, and nothing but the delivery follows the hand-over.
Plan(state, todo, q) ==
  \/ state = "Idle" /\ todo \in {<< >>, Announcing, Closing, Releasing} /\ Single(q)
  \/ state \in Recording /\ todo \in {<< >>, Announcing} /\ Single(q)
  \/ /\ state = "Starting"
     /\ \/ todo = Opening /\ q = << >>
        \/ todo \in {<< >>, Announcing} /\ Single(q)
  \/ /\ state = "Finalizing"
     /\ \/ todo = Wrapping /\ q = << >>
        \/ todo = Wrapped /\ q \in {<< >>, <<"Failed">>}
        \/ todo \in {<< >>, Announcing} /\ (Single(q) \/ Double(q))
  \/ /\ state = "Delivering"
     /\ \/ todo = Handing /\ q = << >>
        \/ todo = << >> /\ q = <<"Delivered">>
  \/ /\ state = "Cancelled"
     /\ \/ todo \in {Abandon, Dropping, Closing} /\ q = << >>
        \/ todo \in {<< >>, Releasing} /\ Single(q)
  \/ state = "Error" /\ todo \in {<< >>, Abandon, Dropping, Closing, Releasing} /\ Single(q)

\* The newest event tells how the machine came to rest, and the session object is the
\* machine's session until its resources are released.
LoopInv ==
  /\ Plan(m.state, effects, queue)
  /\ m.session = NoSession <=> m.state = "Idle"
  /\ last = "Cancel" <=> m.state = "Cancelled"
  /\ last = "Failed" <=> m.state = "Error"
  /\ last \in {"Delivered", "Reset"} <=> m.state = "Idle"
  /\ active # NoActive /\ m.state # "Idle" => active.session = m.session
  /\ \/ effects = Opening
     \/ m.state \in {"Idle", "Cancelled", "Error"} /\ effects \in {<< >>, Announcing}
     => active = NoActive

Over(s) == log.published[s] \cap {"cancelled", "error"} # {}
Spoken == active # NoActive /\ active.text \notin {NoText, Silence}

\* A session that ended in one way did not end in another: its end is announced before
\* the machine is idle again, and its text is handed over in one state of the loop only.
Story(s) ==
  /\ s \notin used => log.published[s] = {} /\ s \notin Handed
  /\ Over(s) => s \notin Handed /\ "stopped" \notin log.published[s]
  /\ s = m.session =>
       /\ s \in Handed => m.state = "Delivering" /\ effects = << >>
       /\ "stopped" \notin log.published[s]
       /\ Over(s) => m.state \in {"Cancelled", "Error"}
       /\ m.state \in {"Cancelled", "Error"} /\ effects \in {<< >>, Releasing} => Over(s)

StoryInv ==
  /\ used \subseteq Sessions /\ m.session \in used \cup {NoSession}
  /\ log.published \in [Sessions -> SUBSET ApiEvent]
  /\ \A s \in Sessions : Story(s)
  /\ active # NoActive =>
       /\ active.session \in used
       /\ m.state = "Idle" => ~Over(active.session)
  /\ Spoken /\ (m.state = "Idle" \/ (m.state = "Delivering" /\ effects = << >>))
       => active.session \in Handed

\* The phase of a session, when none is torn.
Fate(s) == IF Over(s) \/ (s = m.session /\ m.state \in {"Cancelled", "Error"}) THEN "dropped"
           ELSE IF s \in Handed THEN "delivered"
           ELSE IF s = m.session /\ m.state \in ActiveState THEN "open"
           ELSE IF s \notin used THEN "unused" ELSE "silent"

LEMMA PhaseIs == ASSUME StoryInv PROVE phase = [s \in Sessions |-> Fate(s)]
<1> SUFFICES ASSUME NEW s \in Sessions PROVE phase[s] = Fate(s)
  BY DEF phase
<1>1. Story(s) /\ (s \in Dropped <=> Over(s) \/ (s = m.session /\ m.state \in {"Cancelled", "Error"}))
  BY DEF StoryInv, Dropped, Over
<1>2. ~(s \in Dropped /\ (s \in Handed \/ "stopped" \in log.published[s]))
  BY <1>1 DEF Story
<1>3. phase[s] = IF s \in Dropped
                 THEN IF s \in Handed \/ "stopped" \in log.published[s] THEN "torn" ELSE "dropped"
                 ELSE IF s \in Handed THEN "delivered"
                 ELSE IF s = m.session /\ m.state \in ActiveState THEN "open"
                 ELSE IF s \notin used THEN "unused" ELSE "silent"
  BY DEF phase
<1> QED
  BY <1>1, <1>2, <1>3 DEF Fate

LEMMA PhaseIsNext == ASSUME StoryInv' PROVE phase' = [s \in Sessions |-> Fate(s)']
<1> SUFFICES ASSUME NEW s \in Sessions PROVE phase'[s] = Fate(s)'
  BY DEF phase
<1>1. Story(s)' /\ (s \in Dropped' <=> Over(s)' \/ (s = m'.session /\ m'.state \in {"Cancelled", "Error"}))
  BY DEF StoryInv, Dropped, Over
<1>2. ~(s \in Dropped' /\ (s \in Handed' \/ "stopped" \in log'.published[s]))
  BY <1>1 DEF Story
<1>3. phase'[s] = IF s \in Dropped'
                  THEN IF s \in Handed' \/ "stopped" \in log'.published[s] THEN "torn" ELSE "dropped"
                  ELSE IF s \in Handed' THEN "delivered"
                  ELSE IF s = m'.session /\ m'.state \in ActiveState THEN "open"
                  ELSE IF s \notin used' THEN "unused" ELSE "silent"
  BY DEF phase
<1> QED
  BY <1>1, <1>2, <1>3 DEF Fate

\* What a step means for the promise.
Promised == D!Next \/ UNCHANGED <<phase, log.copies>>

LEMMA SameFate ==
  ASSUME StoryInv, StoryInv', \A s \in Sessions : Fate(s)' = Fate(s), log'.copies = log.copies
  PROVE  Promised
<1>1. phase' = phase
  BY PhaseIs, PhaseIsNext
<1> QED
  BY <1>1 DEF Promised

\* One session changes its phase.
LEMMA OtherFate ==
  ASSUME StoryInv, StoryInv', NEW s \in Sessions, NEW was, NEW becomes,
         Fate(s) = was, Fate(s)' = becomes, \A r \in Sessions \ {s} : Fate(r)' = Fate(r)
  PROVE  phase[s] = was /\ phase' = [phase EXCEPT ![s] = becomes]
<1>1. phase = [r \in Sessions |-> Fate(r)] /\ phase' = [r \in Sessions |-> Fate(r)']
  BY PhaseIs, PhaseIsNext
<1> HIDE DEF phase
<1> QED
  BY <1>1

\* Steps that tell nobody anything and leave the machine where it is.
ActiveKept ==
  /\ active' # NoActive => \/ active'.session = m.session /\ m.state \notin {"Idle", "Delivering"}
                           \/ /\ active # NoActive /\ active'.session = active.session
                              /\ active'.text = active.text
  /\ active = NoActive => active' = NoActive \/ effects' # effects

LEMMA Frame ==
  ASSUME LoopInv, StoryInv, UNCHANGED <<m, last, used, log>>, Plan(m.state, effects', queue'), ActiveKept,
         \/ effects' = effects
         \/ effects' \in {Wrapped, Dropping, Closing} /\ m.state \in {"Finalizing", "Cancelled", "Error"}
         \/ effects' = Announcing /\ m.state \in {"Starting", "Finalizing"}
  PROVE  LoopInv' /\ StoryInv' /\ Promised
<1>1. Handed' = Handed /\ \A s : Over(s)' = Over(s) /\ log'.published = log.published
  BY DEF Handed, Over
<1>2. LoopInv'
  <2>1. active' # NoActive /\ m.state # "Idle" => active'.session = m.session
    BY DEF LoopInv, ActiveKept
  <2>2. \/ effects' = Opening
        \/ m.state \in {"Idle", "Cancelled", "Error"} /\ effects' \in {<< >>, Announcing}
        => active' = NoActive
    BY NextEffects, EffectsDiffer DEF LoopInv, ActiveKept
  <2> QED
    BY <2>1, <2>2 DEF LoopInv
<1>3. effects' # effects => effects' \notin {<< >>, Releasing}
  BY NextEffects, EffectsDiffer
<1>4. \A s \in Sessions : Story(s)'
  BY <1>1, <1>3 DEF StoryInv, Story, LoopInv
<1>5. StoryInv'
  BY <1>1, <1>2, <1>3, <1>4 DEF StoryInv, LoopInv, ActiveKept, Spoken
<1>6. \A s \in Sessions : Fate(s)' = Fate(s)
  BY <1>1 DEF Fate
<1> QED
  BY <1>2, <1>5, <1>6, SameFate

\* The session goes on: it is recorded, finalized, and its text is authorized.
LEMMA Onward ==
  ASSUME LoopInv, StoryInv, UNCHANGED <<active, used, log>>, m'.session = m.session,
         m.state \in ActiveState \ {"Delivering"}, m'.state \in ActiveState,
         last' \notin {"Cancel", "Failed", "Delivered", "Reset"},
         effects' # Opening, m'.state = "Delivering" => effects' = Handing,
         Plan(m'.state, effects', queue')
  PROVE  LoopInv' /\ StoryInv' /\ Promised
<1> USE DEF ActiveState, Recording
<1>1. Handed' = Handed /\ (\A s : Over(s)' = Over(s)) /\ Spoken' = Spoken
  BY DEF Handed, Over, Spoken
<1>2. LoopInv'
  BY DEF LoopInv
<1>3. \A s \in Sessions : Story(s)'
  BY <1>1 DEF StoryInv, Story, LoopInv
<1>4. Handing # << >>
  BY EffectsDiffer
<1>5. StoryInv'
  BY <1>1, <1>3, <1>4 DEF StoryInv, LoopInv
<1>6. \A s \in Sessions : Fate(s)' = Fate(s)
  BY <1>1 DEF Fate
<1> QED
  BY <1>2, <1>5, <1>6, SameFate

\* The session is cancelled or fails.
LEMMA Drops ==
  ASSUME LoopInv, StoryInv, UNCHANGED <<active, used, log>>, m'.session = m.session,
         m.state \in State \ {"Idle", "Delivering"},
         \/ m'.state = "Cancelled" /\ last' = "Cancel"
         \/ m'.state = "Error" /\ last' = "Failed",
         effects' = Abandon, Plan(m'.state, effects', queue')
  PROVE  LoopInv' /\ StoryInv' /\ Promised
<1>1. Handed' = Handed /\ (\A s : Over(s)' = Over(s)) /\ Spoken' = Spoken
  BY DEF Handed, Over, Spoken
<1>2. Abandon \notin {<< >>, Releasing, Announcing, Opening}
  BY EffectsDiffer
<1>3. LoopInv'
  BY <1>2 DEF LoopInv
<1>4. \A s \in Sessions : Story(s)'
  BY <1>1, <1>2 DEF StoryInv, Story, LoopInv
<1>5. StoryInv'
  BY <1>1, <1>2, <1>4 DEF StoryInv, LoopInv
<1>6. m.session \in Sessions
  BY DEF LoopInv, StoryInv
<1>7. \A r \in Sessions \ {m.session} : Fate(r)' = Fate(r)
  BY <1>1 DEF Fate
<1>8. Fate(m.session)' = "dropped"
  BY DEF Fate
<1>9. CASE m.state \in {"Cancelled", "Error"}
  <2>1. Fate(m.session) = "dropped"
    BY <1>9 DEF Fate
  <2> QED
    BY <1>3, <1>5, <1>7, <1>8, <2>1, SameFate
<1>10. CASE m.state \in ActiveState
  <2>1. Fate(m.session) = "open"
    BY <1>6, <1>10 DEF Fate, StoryInv, Story, ActiveState, Recording
  <2>2. phase[m.session] = "open" /\ phase' = [phase EXCEPT ![m.session] = "dropped"]
    BY <1>5, <1>6, <1>7, <1>8, <2>1, OtherFate
  <2>3. D!End(m.session, "dropped")
    BY <2>2 DEF D!End
  <2>4. D!Next
    BY <1>6, <2>3 DEF D!Next
  <2> QED
    BY <1>3, <1>5, <2>4 DEF Promised
<1> QED
  BY <1>9, <1>10 DEF State, ActiveState, Recording

\* A session begins, with an identifier never drawn before.
LEMMA Begins ==
  ASSUME LoopInv, StoryInv, UNCHANGED <<active, log>>, m.state = "Idle", effects = << >>,
         m'.state = "Starting", m'.session \in Sessions \ used, used' = used \cup {m'.session},
         last' \in {"HoldDown", "Toggle"}, effects' = Opening, Plan(m'.state, effects', queue')
  PROVE  LoopInv' /\ StoryInv' /\ Promised
<1>1. /\ Handed' = Handed /\ (\A s : Over(s)' = Over(s)) /\ Spoken' = Spoken
      /\ active = NoActive /\ m.session = NoSession /\ NoSession \notin Sessions
  BY SessionAssumption DEF Handed, Over, Spoken, LoopInv
<1>2. LoopInv'
  BY <1>1 DEF LoopInv
<1>3. /\ m'.session \notin Handed /\ ~Over(m'.session) /\ "stopped" \notin log.published[m'.session]
  BY DEF StoryInv, Story, Over
<1>4. \A s \in Sessions : Story(s)'
  BY <1>1, <1>3 DEF StoryInv, Story
<1>5. StoryInv'
  BY <1>1, <1>4 DEF StoryInv, Spoken
<1>6. PICK s \in Sessions : s = m'.session
  OBVIOUS
<1>7. Fate(s) = "unused" /\ Fate(s)' = "open" /\ \A r \in Sessions \ {s} : Fate(r)' = Fate(r)
  BY <1>1, <1>3, <1>6 DEF Fate, ActiveState
<1>8. phase[s] = "unused" /\ phase' = [phase EXCEPT ![s] = "open"]
  BY <1>5, <1>7, OtherFate
<1>9. \A other \in Sessions : phase[other] # "open"
  <2>1. \A other \in Sessions : Fate(other) # "open"
    BY DEF Fate, ActiveState, Recording
  <2> QED
    BY <2>1, PhaseIs
<1>10. D!Open(s)
  BY <1>8, <1>9 DEF D!Open
<1> QED
  BY <1>2, <1>5, <1>10 DEF Promised, D!Next

\* The delivery is done, with or without a text.
LEMMA Concludes ==
  ASSUME LoopInv, StoryInv, UNCHANGED <<active, used, log>>, m.state = "Delivering", effects = << >>,
         m'.state = "Idle", m'.session = NoSession, last' = "Delivered",
         effects' = Closing, Plan(m'.state, effects', queue')
  PROVE  LoopInv' /\ StoryInv' /\ Promised
<1>1. /\ Handed' = Handed /\ (\A s : Over(s)' = Over(s)) /\ Spoken' = Spoken /\ NoSession \notin Sessions
  BY SessionAssumption DEF Handed, Over, Spoken
<1>2. Closing \notin {<< >>, Opening, Announcing}
  BY NextEffects, EffectsDiffer
<1>3. LoopInv'
  BY <1>2 DEF LoopInv
<1>4. \A s \in Sessions : Story(s)'
  BY <1>1 DEF StoryInv, Story
<1>5. m.session \in Sessions /\ m.session \in used /\ ~Over(m.session)
  BY DEF LoopInv, StoryInv, Story
<1>6. StoryInv'
  BY <1>1, <1>4, <1>5 DEF StoryInv, LoopInv
<1>7. PICK s \in Sessions : s = m.session
  BY <1>5
<1>8. \A r \in Sessions \ {s} : Fate(r)' = Fate(r)
  BY <1>1, <1>7 DEF Fate
<1>9. CASE s \in Handed
  <2>1. Fate(s) = "delivered" /\ Fate(s)' = "delivered"
    BY <1>1, <1>5, <1>7, <1>9 DEF Fate
  <2> QED
    BY <1>3, <1>6, <1>8, <2>1, SameFate
<1>10. CASE s \notin Handed
  <2>1. Fate(s) = "open" /\ Fate(s)' = "silent"
    BY <1>1, <1>5, <1>7, <1>10 DEF Fate, ActiveState
  <2>2. phase[s] = "open" /\ phase' = [phase EXCEPT ![s] = "silent"]
    BY <1>6, <1>8, <2>1, OtherFate
  <2>3. D!End(s, "silent")
    BY <2>2 DEF D!End
  <2> QED
    BY <1>3, <1>6, <2>3 DEF Promised, D!Next
<1> QED
  BY <1>9, <1>10

\* A cancelled or failed session, announced as such, makes way for the next.
LEMMA Resets ==
  ASSUME LoopInv, StoryInv, UNCHANGED <<active, used, log>>, m.state \in {"Cancelled", "Error"},
         effects = << >>, m'.state = "Idle", m'.session = NoSession, last' = "Reset",
         effects' = Announcing, Plan(m'.state, effects', queue')
  PROVE  LoopInv' /\ StoryInv' /\ Promised
<1>1. /\ Handed' = Handed /\ (\A s : Over(s)' = Over(s)) /\ active = NoActive /\ ~Spoken'
      /\ NoSession \notin Sessions
  BY SessionAssumption DEF Handed, Over, Spoken, LoopInv
<1>2. LoopInv'
  BY <1>1 DEF LoopInv
<1>3. \A s \in Sessions : Story(s)'
  BY <1>1 DEF StoryInv, Story
<1>4. StoryInv'
  BY <1>1, <1>3 DEF StoryInv
<1>5. \A s \in Sessions : Fate(s)' = Fate(s)
  BY <1>1 DEF Fate, StoryInv, Story
<1> QED
  BY <1>2, <1>4, <1>5, SameFate

LEMMA PlanNeverEmpty ==
  ASSUME NEW q, Single(q) \/ Double(q), q # << >>
  PROVE  /\ Head(q) \in Event
         /\ Single(q) => q = <<Head(q)>> /\ Tail(q) = << >>
         /\ Double(q) => Head(q) = "Failed" /\ Tail(q) \in {<<"Failed">>, <<"Finalized">>} /\ Single(Tail(q))
<1>1. ASSUME NEW event \in Event, q = <<event>>
      PROVE  Head(q) = event /\ Tail(q) = << >>
  BY <1>1, QueueSteps
<1>2. ASSUME NEW event \in {"Failed", "Finalized"}, q = <<"Failed", event>>
      PROVE  Head(q) = "Failed" /\ Tail(q) = <<event>>
  BY <1>2, QueueSteps
<1>3. {"Failed", "Finalized"} \subseteq Event
  BY DEF Event
<1> QED
  BY <1>1, <1>2, <1>3 DEF Single, Double

LEMMA HandlePromises ==
  ASSUME ControlInv, LoopInv, StoryInv, HandleEvent
  PROVE  LoopInv' /\ StoryInv' /\ Promised
<1> DEFINE event == Head(queue)
<1>1. /\ effects = << >> /\ queue # << >> /\ queue' = Tail(queue) /\ UNCHANGED <<active, log>>
      /\ \E id \in Drawn(event) :
           LET out == Handle(m, event, id)
           IN  IF out.verdict = "accepted"
               THEN /\ m' = out.m /\ effects' = out.effects /\ last' = event
                    /\ used' = used \cup ({out.m.session} \ {NoSession})
               ELSE UNCHANGED <<m, effects, last, used>>
  BY DEF HandleEvent, others
<1>2. /\ m \in Machine /\ (m.state \in ActiveState => ~m.cancelRequested) /\ m.state \in State
      /\ Plan(m.state, << >>, queue)
  BY <1>1 DEF ControlInv, MachineInv, Machine, LoopInv
<1>3. /\ Single(queue) \/ (Double(queue) /\ m.state = "Finalizing")
      /\ m.state = "Delivering" => queue = <<"Delivered">>
  <2>1. Single(<<"Delivered">>)
    BY DEF Single, Event
  <2>2. << >> \notin {Opening, Wrapping, Wrapped, Handing, Abandon, Dropping, Closing}
    BY EffectsDiffer
  <2> QED
    BY <1>1, <1>2, <2>1, <2>2 DEF Plan, Recording
<1>4. /\ event \in Event
      /\ Single(queue) => queue' = << >>
      /\ Double(queue) => event = "Failed" /\ Single(queue')
      /\ m.state = "Delivering" => event = "Delivered"
  BY <1>1, <1>3, PlanNeverEmpty, QueueSteps
<1>5. Single(<< >>)
  BY DEF Single
<1>6. PICK id \in Drawn(event) :
        \/ /\ Handle(m, event, id).verdict = "accepted"
           /\ m' = Handle(m, event, id).m /\ effects' = Handle(m, event, id).effects /\ last' = event
           /\ used' = used \cup ({Handle(m, event, id).m.session} \ {NoSession})
        \/ /\ Handle(m, event, id).verdict # "accepted"
           /\ UNCHANGED <<m, effects, last, used>>
  BY <1>1
<1>7. id \in Named /\ (event \in {"HoldDown", "Toggle"} /\ m.state = "Idle" => id \in Sessions \ used)
  BY DEF Drawn, Named
<1> DEFINE out == Handle(m, event, id)
<1>8. CASE out.verdict # "accepted"
  <2>1. m.state # "Delivering"
    <3>1. "Delivered" \in Event /\ (m.state = "Delivering" => Handle(m, "Delivered", id).verdict = "accepted")
      BY DEF Event, Handle, Delivered, Accepted
    <3> QED
      BY <1>4, <1>8, <3>1
  <2>2. UNCHANGED <<m, effects, last, used>>
    BY <1>6, <1>8
  <2>3. Plan(m.state, effects', queue')
    BY <1>1, <1>2, <1>3, <1>4, <1>5, <2>1, <2>2, EffectsDiffer DEF Plan, Single
  <2> QED
    BY <1>1, <2>2, <2>3, Frame DEF ActiveKept
<1>9. CASE out.verdict = "accepted"
  <2> HIDE DEF event
  <2>1. Means(m, event, id, out)
    BY <1>2, <1>4, <1>7, <1>9, HandleMeans
  <2> HIDE DEF out
  <2>2. /\ m' = out.m /\ effects' = out.effects /\ last' = event
        /\ used' = used \cup ({out.m.session} \ {NoSession})
    BY <1>6, <1>9 DEF out
  <2>3. out.m.session = m.session => used' = used
    BY <2>2 DEF StoryInv
  <2>4. event # "Failed" => queue' = << >>
    BY <1>3, <1>4
  <2>5. Single(queue')
    BY <1>3, <1>4, <1>5
  <2>6. CASE /\ event = "Cancel" /\ m.state # "Idle" /\ out.m.state = "Cancelled"
             /\ out.m.session = m.session /\ out.effects = Abandon
    <3>1. Plan(m'.state, effects', queue')
      BY <2>2, <2>4, <2>6 DEF Plan
    <3>2. m.state \in State \ {"Idle", "Delivering"}
      BY <1>2, <1>4, <2>6
    <3> QED
      BY <1>1, <2>2, <2>3, <2>6, <3>1, <3>2, Drops
  <2>7. CASE /\ event = "Failed" /\ m.state # "Idle" /\ out.m.state = "Error"
             /\ out.m.session = m.session /\ out.effects = Abandon
    <3>1. Plan(m'.state, effects', queue')
      BY <2>2, <2>5, <2>7 DEF Plan
    <3>2. m.state \in State \ {"Idle", "Delivering"}
      BY <1>2, <1>4, <2>7
    <3> QED
      BY <1>1, <2>2, <2>3, <2>7, <3>1, <3>2, Drops
  <2>8. CASE /\ event = "Delivered" /\ m.state = "Delivering" /\ out.m.state = "Idle"
             /\ out.m.session = NoSession /\ out.effects = Closing
    <3>1. Plan(m'.state, effects', queue')
      BY <2>2, <2>5, <2>8 DEF Plan
    <3>2. used' = used
      BY <2>2, <2>8
    <3> QED
      BY <1>1, <2>2, <2>8, <3>1, <3>2, Concludes
  <2>9. CASE /\ event = "Reset" /\ m.state \in {"Cancelled", "Error"} /\ out.m.state = "Idle"
             /\ out.m.session = NoSession /\ out.effects = Announcing
    <3>1. Plan(m'.state, effects', queue')
      BY <2>2, <2>5, <2>9 DEF Plan
    <3>2. used' = used
      BY <2>2, <2>9
    <3> QED
      BY <1>1, <2>2, <2>9, <3>1, <3>2, Resets
  <2>10. CASE /\ event \in {"HoldDown", "Toggle"} /\ m.state = "Idle" /\ id # NoSession
              /\ out.m.state = "Starting" /\ out.m.session = id /\ out.effects = Opening
    <3>1. Plan(m'.state, effects', queue')
      BY <2>2, <2>4, <2>10 DEF Plan
    <3>2. m'.session = id /\ id \in Sessions \ used /\ used' = used \cup {m'.session}
      BY <1>7, <2>2, <2>10
    <3> QED
      BY <1>1, <2>2, <2>10, <3>1, <3>2, Begins
  <2>11. ASSUME event \notin {"Cancel", "Failed", "Delivered", "Reset"}, out.m.session = m.session,
                \/ /\ m.state = "Starting" /\ out.m.state = "Starting" /\ out.effects = << >>
                \/ /\ m.state \in Recording \cup {"Starting"}
                   /\ \/ out.m.state \in Recording /\ out.effects = Announcing
                      \/ out.m.state = "Finalizing" /\ out.effects = Wrapping
                \/ m.state = "Finalizing" /\ out.m.state = "Delivering" /\ out.effects = Handing
         PROVE  LoopInv' /\ StoryInv' /\ Promised
    <3>1. queue' = << >>
      BY <2>4, <2>11
    <3>2. Plan(m'.state, effects', queue') /\ (m'.state = "Delivering" => effects' = Handing)
      BY <1>5, <2>2, <2>11, <3>1 DEF Plan, Recording
    <3>3. m.state \in ActiveState \ {"Delivering"} /\ m'.state \in ActiveState
      BY <2>2, <2>11 DEF ActiveState, Recording
    <3>4. effects' # Opening
      BY <2>2, <2>11, NextEffects, EffectsDiffer
    <3> QED
      BY <1>1, <2>2, <2>3, <2>11, <3>2, <3>3, <3>4, Onward
  <2> QED
    BY <2>1, <2>6, <2>7, <2>8, <2>9, <2>10, <2>11 DEF Means
<1> QED
  BY <1>8, <1>9

-----------------------------------------------------------------------------
(* Commands, timers and answers                                             *)

LEMMA InputPromises ==
  ASSUME LoopInv, StoryInv, AtRest, NEW event \in Event, queue' = <<event>>,
         UNCHANGED <<m, effects, last, used, log>>, ActiveKept
  PROVE  LoopInv' /\ StoryInv' /\ Promised
<1>1. queue = << >> /\ effects = << >> /\ <<event>> # << >> /\ Single(queue')
  BY QueueSteps DEF AtRest, Single
<1>2. << >> # <<"Delivered">>
  BY QueueSteps
<1>3. Plan(m.state, effects', queue')
  BY <1>1, <1>2, EffectsDiffer DEF LoopInv, Plan
<1> QED
  BY <1>3, Frame

LEMMA QuietPromises ==
  ASSUME LoopInv, StoryInv, UNCHANGED <<m, queue, effects, last, used, log>>, ActiveKept
  PROVE  LoopInv' /\ StoryInv' /\ Promised
<1>1. Plan(m.state, effects', queue')
  BY DEF LoopInv
<1> QED
  BY <1>1, Frame

LEMMA SameActiveKept == ASSUME UNCHANGED active PROVE ActiveKept
BY DEF ActiveKept

LEMMA ApplyPromises ==
  ASSUME LoopInv, StoryInv, NEW event \in Event, Apply(event), UNCHANGED <<active, log>>
  PROVE  LoopInv' /\ StoryInv' /\ Promised
<1>1. AtRest /\ queue' = <<event>> /\ UNCHANGED <<m, effects, last, used, log>>
  BY DEF Apply
<1> QED
  BY <1>1, InputPromises, SameActiveKept

LEMMA CommandPromises ==
  ASSUME ControlInv, LoopInv, StoryInv, Command PROVE LoopInv' /\ StoryInv' /\ Promised
<1>1. ASSUME NEW event \in Event, Ui(event) \/ \E s \in Sessions : ApiEnd(s, event)
      PROVE  LoopInv' /\ StoryInv' /\ Promised
  BY <1>1, ApplyPromises DEF Ui, ApiEnd, others
<1>2. CASE ApiStart \/ Lifecycle
  <2>1. {"Toggle", "Cancel"} \subseteq Event
    BY DEF Event
  <2> QED
    BY <1>2, <2>1, ApplyPromises DEF ApiStart, Lifecycle, others
<1>3. ASSUME NEW action \in Keys, Press(action) PROVE LoopInv' /\ StoryInv' /\ Promised
  <2>1. (IF action = "Hold" THEN "HoldDown" ELSE action) \in Event
    BY KeysAssumption DEF ShortcutAction, Event
  <2> QED
    BY <1>3, <2>1, ApplyPromises DEF Press, others
<1>4. ASSUME NEW action \in Keys, Release(action) PROVE LoopInv' /\ StoryInv' /\ Promised
  <2>1. UNCHANGED <<m, queue, effects, last, used, log, active>>
    BY <1>4 DEF Release, control, others
  <2> QED
    BY <2>1, QuietPromises, SameActiveKept
<1>5. CASE Shutdown
  <2>1. /\ UNCHANGED <<m, effects, last, used, log, active>> /\ AtRest
        /\ queue' = <<"Cancel">> /\ "Cancel" \in Event
    BY <1>5 DEF Shutdown, others, Event
  <2> QED
    BY <2>1, InputPromises, SameActiveKept
<1> QED
  BY <1>1, <1>2, <1>3, <1>4, <1>5 DEF Command

LEMMA TickPromises ==
  ASSUME ControlInv, LoopInv, StoryInv, NEW elapsed \in Elapsed, TickMachine(elapsed)
  PROVE  LoopInv' /\ StoryInv' /\ Promised
<1> DEFINE out == Tick(m, elapsed)
           warned == [m EXCEPT !.warned = TRUE]
<1>1. /\ queue = << >> /\ effects = << >> /\ out.verdict = "accepted" /\ m' = out.m
      /\ UNCHANGED <<queue, used, active, log>>
      /\ IF "WarnDurationLimit" \in {out.effects[i] : i \in DOMAIN out.effects}
         THEN UNCHANGED <<effects, last>>
         ELSE effects' = out.effects /\ last' = "DurationLimit"
  BY DEF TickMachine, AtRest, others
<1>2. m \in Machine /\ Single(<< >>)
  BY DEF ControlInv, MachineInv, Single
<1>3. /\ m.state \in Recording
      /\ \/ out = BeginFinalize(m)
         \/ out = Accepted(warned, <<"WarnDurationLimit">>)
  BY <1>1 DEF Tick, DurationLimit, Ignored, Accepted
<1>4. CASE out = Accepted(warned, <<"WarnDurationLimit">>)
  <2>1. out.m = warned /\ out.effects = <<"WarnDurationLimit">>
    BY <1>4 DEF Accepted
  <2>2. warned.state = m.state /\ warned.session = m.session
    BY <1>2 DEF Machine
  <2> HIDE DEF out, warned
  <2>3. "WarnDurationLimit" \in {out.effects[i] : i \in DOMAIN out.effects}
    BY <2>1
  <2>4. UNCHANGED <<effects, last>> /\ m'.state = m.state /\ m'.session = m.session
    BY <1>1, <2>1, <2>2, <2>3
  <2>5. Plan(m'.state, effects', queue')
    BY <1>1, <2>4 DEF LoopInv
  <2>6. /\ last' \notin {"Cancel", "Failed", "Delivered", "Reset"}
        /\ m.state \in ActiveState \ {"Delivering"}
    BY <1>3, <2>4 DEF LoopInv, Recording, ActiveState
  <2>7. << >> # Opening
    BY EffectsDiffer
  <2> QED
    BY <1>1, <1>3, <2>4, <2>5, <2>6, <2>7, Onward DEF Recording
<1>5. CASE out = BeginFinalize(m)
  <2> DEFINE y == [m EXCEPT !.state = "Finalizing"]
  <2>1. out = Accepted(y, Wrapping)
    BY <1>5 DEF BeginFinalize, Wrapping
  <2>2. y.state = "Finalizing" /\ y.session = m.session
    BY <1>2 DEF Machine
  <2>3. out.m = y /\ out.effects = Wrapping
    BY <2>1 DEF Accepted
  <2> HIDE DEF out, y
  <2>4. "WarnDurationLimit" \notin {out.effects[i] : i \in DOMAIN out.effects}
    BY <2>3 DEF Wrapping
  <2>5. effects' = Wrapping /\ last' = "DurationLimit" /\ m'.state = "Finalizing" /\ m'.session = m.session
    BY <1>1, <2>2, <2>3, <2>4
  <2>6. Plan(m'.state, effects', queue')
    BY <1>1, <2>5 DEF Plan
  <2>7. m.state \in ActiveState \ {"Delivering"} /\ m'.state \in ActiveState
    BY <1>3, <2>5 DEF Recording, ActiveState
  <2>8. Wrapping # Opening
    BY EffectsDiffer
  <2> QED
    BY <1>1, <2>5, <2>6, <2>7, <2>8, Onward
<1> QED
  BY <1>3, <1>4, <1>5

LEMMA TimerPromises ==
  ASSUME ControlInv, LoopInv, StoryInv, Timer PROVE LoopInv' /\ StoryInv' /\ Promised
<1>1. CASE HoldUpDue \/ CaptureError \/ ErrorTimeout
  <2>1. {"HoldUp", "Cancel", "Reset"} \subseteq Event
    BY DEF Event
  <2> QED
    BY <1>1, <2>1, ApplyPromises DEF HoldUpDue, CaptureError, ErrorTimeout, others
<1>2. CASE SchedulePartial
  <2>1. /\ UNCHANGED <<m, queue, effects, last, used, log>> /\ active # NoActive
        /\ active' = [active EXCEPT !.partialInFlight = TRUE]
    BY <1>2 DEF SchedulePartial, Capturing, control
  <2>2. active'.session = active.session /\ active'.text = active.text
    BY <2>1 DEF ControlInv, ActiveInv, AnyActive
  <2> QED
    BY <2>1, <2>2, QuietPromises DEF ActiveKept
<1> QED
  BY <1>1, <1>2, TickPromises DEF Timer

LEMMA AnswerPromises ==
  ASSUME ControlInv, LoopInv, StoryInv, Recognize \/ OnPartial \/ OnFinal
  PROVE  LoopInv' /\ StoryInv' /\ Promised
<1>1. CASE Recognize
  <2>1. UNCHANGED <<m, queue, effects, last, used, log, active>>
    BY <1>1 DEF Recognize, control
  <2> QED
    BY <2>1, QuietPromises, SameActiveKept
<1>2. CASE OnPartial
  <2>1. /\ UNCHANGED <<m, queue, effects, last, used, log>>
        /\ \/ UNCHANGED active
           \/ active # NoActive /\ active' = [active EXCEPT !.partialInFlight = FALSE]
    BY <1>2 DEF OnPartial, control
  <2>2. ActiveKept
    BY <2>1 DEF ActiveKept, ControlInv, ActiveInv, AnyActive
  <2> QED
    BY <2>1, <2>2, QuietPromises
<1>3. CASE OnFinal
  <2>1. /\ UNCHANGED <<m, effects, last, used, log>> /\ AtRest
        /\ \/ UNCHANGED <<queue, active>>
           \/ /\ Awaited(Head(replies)) /\ queue' \in {<<"Failed">>, <<"Finalized">>}
              /\ active' = [active EXCEPT !.text = Head(replies).text]
    BY <1>3 DEF OnFinal
  <2>2. CASE UNCHANGED <<queue, active>>
    BY <2>1, <2>2, QuietPromises, SameActiveKept
  <2>3. CASE /\ Awaited(Head(replies)) /\ queue' \in {<<"Failed">>, <<"Finalized">>}
             /\ active' = [active EXCEPT !.text = Head(replies).text]
    <3>1. /\ active # NoActive /\ m.state = "Finalizing" /\ active.session = m.session
          /\ active'.session = active.session
      BY <2>3 DEF Awaited, LoopInv, ControlInv, ActiveInv, AnyActive
    <3>2. ActiveKept
      BY <3>1 DEF ActiveKept
    <3>3. {"Failed", "Finalized"} \subseteq Event
      BY DEF Event
    <3> QED
      BY <2>1, <2>3, <3>2, <3>3, InputPromises
  <2> QED
    BY <2>1, <2>2, <2>3
<1> QED
  BY <1>1, <1>2, <1>3

-----------------------------------------------------------------------------
(* Effects                                                                  *)

\* Where each effect comes up.
LEMMA EffectsPlanned ==
  ASSUME Plan(m.state, effects, queue), effects # << >>
  PROVE  /\ Head(effects) = "StartCapture" =>
              effects = Opening /\ m.state = "Starting" /\ queue = << >>
         /\ Head(effects) = "StopCapture" =>
              \/ effects = Wrapping /\ m.state = "Finalizing" /\ queue = << >>
              \/ effects = Abandon /\ m.state = "Cancelled" /\ queue = << >>
              \/ effects = Abandon /\ m.state = "Error" /\ Single(queue)
         /\ Head(effects) = "FinalizeTranscript" =>
              effects = Wrapped /\ m.state = "Finalizing" /\ queue \in {<< >>, <<"Failed">>}
         /\ Head(effects) = "DeliverText" =>
              effects = Handing /\ m.state = "Delivering" /\ queue = << >>
         /\ Head(effects) = "DiscardSession" =>
              /\ effects = Dropping
              /\ \/ m.state = "Cancelled" /\ queue = << >>
                 \/ m.state = "Error" /\ Single(queue)
         /\ Head(effects) = "AnnounceState" =>
              \/ /\ effects = Closing
                 /\ \/ m.state = "Cancelled" /\ queue = << >>
                    \/ m.state \in {"Idle", "Error"} /\ Single(queue)
              \/ /\ effects = Announcing
                 /\ \/ m.state \in Recording \cup {"Idle", "Starting"} /\ Single(queue)
                    \/ m.state = "Finalizing" /\ (Single(queue) \/ Double(queue))
         /\ Head(effects) = "ReleaseResources" =>
              effects = Releasing /\ m.state \in {"Idle", "Cancelled", "Error"} /\ Single(queue)
BY NextEffects, EffectsDiffer DEF Plan, Recording

LEMMA NothingFollows ==
  ASSUME NEW q, Single(q) \/ Double(q) PROVE q \o << >> = q
<1>1. << >> \o << >> = << >>
  OBVIOUS
<1> QED
  BY <1>1, QueueSteps DEF Single, Double

LEMMA CapturePromises ==
  ASSUME ControlInv, LoopInv, StoryInv,
         StartCapture \/ StopCapture \/ FinalizeTranscript \/ DiscardSession
  PROVE  LoopInv' /\ StoryInv' /\ Promised
<1> USE DEF Perform
<1>1. Plan(m.state, effects, queue)
  BY DEF LoopInv
<1>2. CASE StartCapture
  <2>1. /\ UNCHANGED <<m, last, used, log>> /\ effects # << >> /\ Head(effects) = "StartCapture"
        /\ effects' = Tail(effects)
        /\ queue' \in {queue \o <<"CaptureStarted">>, queue \o <<"Failed">>}
        /\ \/ UNCHANGED active
           \/ active' = [session |-> m.session, epoch |-> epoch + 1, capturing |-> TRUE,
                         pcm |-> "none", partialInFlight |-> FALSE, text |-> NoText]
    BY <1>2 DEF StartCapture
  <2>2. effects = Opening /\ effects' = Announcing /\ m.state = "Starting" /\ queue = << >>
    BY <1>1, <2>1, EffectsPlanned, NextEffects
  <2>3. queue' \in {<<"CaptureStarted">>, <<"Failed">>}
    BY <2>1, <2>2, QueueSteps
  <2>4. Single(queue')
    BY <2>3 DEF Single, Event
  <2>5. Plan(m.state, effects', queue')
    BY <2>2, <2>4 DEF Plan
  <2>6. effects' # effects
    <3>1. Announcing # Opening
      BY EffectsDiffer
    <3> QED
      BY <2>2, <3>1
  <2>7. ActiveKept
    <3>1. CASE UNCHANGED active
      BY <3>1, SameActiveKept
    <3>2. CASE active' = [session |-> m.session, epoch |-> epoch + 1, capturing |-> TRUE,
                          pcm |-> "none", partialInFlight |-> FALSE, text |-> NoText]
      BY <2>2, <2>6, <3>2 DEF ActiveKept
    <3> QED
      BY <2>1, <3>1, <3>2
  <2> QED
    BY <2>1, <2>2, <2>5, <2>7, Frame
<1>3. CASE StopCapture
  <2>1. /\ UNCHANGED <<m, last, used, log>> /\ effects # << >> /\ Head(effects) = "StopCapture"
        /\ effects' = Tail(effects)
        /\ queue' = queue \o << >> \/ (m.state = "Finalizing" /\ queue' = queue \o <<"Failed">>)
        /\ \/ UNCHANGED active
           \/ active # NoActive /\ \E pcm : active' = [active EXCEPT !.capturing = FALSE, !.pcm = pcm]
    BY <1>3 DEF StopCapture, Capturing
  <2>2. \/ effects = Wrapping /\ m.state = "Finalizing" /\ queue = << >>
        \/ effects = Abandon /\ m.state = "Cancelled" /\ queue = << >>
        \/ effects = Abandon /\ m.state = "Error" /\ Single(queue)
    BY <1>1, <2>1, EffectsPlanned
  <2>3. /\ effects = Wrapping => effects' = Wrapped
        /\ effects = Abandon => effects' = Dropping
    BY <2>1, NextEffects
  <2>4. Single(queue) /\ queue \o << >> = queue /\ (queue = << >> => queue \o <<"Failed">> = <<"Failed">>)
    BY <2>2, NothingFollows, QueueSteps DEF Single
  <2>5. Plan(m.state, effects', queue')
    BY <2>1, <2>2, <2>3, <2>4 DEF Plan
  <2>6. ActiveKept
    BY <2>1 DEF ActiveKept, ControlInv, ActiveInv, AnyActive
  <2> QED
    BY <2>1, <2>2, <2>3, <2>5, <2>6, Frame
<1>4. CASE FinalizeTranscript
  <2>1. /\ UNCHANGED <<m, last, used, log>> /\ effects # << >> /\ Head(effects) = "FinalizeTranscript"
        /\ effects' = Tail(effects)
        /\ \/ queue' \in {queue \o << >>, queue \o <<"Finalized">>}
           \/ active = NoActive /\ queue' = queue \o <<"Failed">>
        /\ \/ UNCHANGED active
           \/ active # NoActive /\ active' = [active EXCEPT !.text = Silence]
    BY <1>4 DEF FinalizeTranscript
  <2>2. effects' = Announcing /\ m.state = "Finalizing" /\ queue \in {<< >>, <<"Failed">>}
    BY <1>1, <2>1, EffectsPlanned, NextEffects
  <2>3. {"Failed", "Finalized"} \subseteq Event
    BY DEF Event
  <2>4. /\ << >> \o << >> = << >> /\ <<"Failed">> \o << >> = <<"Failed">>
        /\ \A event : << >> \o <<event>> = <<event>> /\ <<"Failed">> \o <<event>> = <<"Failed", event>>
    <3>1. << >> \o << >> = << >>
      OBVIOUS
    <3> QED
      BY <3>1, QueueSteps
  <2>5. Single(queue') \/ Double(queue')
    BY <2>1, <2>2, <2>3, <2>4 DEF Single, Double
  <2>6. Plan(m.state, effects', queue')
    BY <2>2, <2>5 DEF Plan
  <2>7. ActiveKept
    <3>1. CASE UNCHANGED active
      BY <3>1, SameActiveKept
    <3>2. CASE active # NoActive /\ active' = [active EXCEPT !.text = Silence]
      <4>1. active'.session = active.session /\ active.session = m.session
        BY <2>2, <3>2 DEF ControlInv, ActiveInv, AnyActive, LoopInv
      <4> QED
        BY <2>2, <3>2, <4>1 DEF ActiveKept
    <3> QED
      BY <2>1, <3>1, <3>2
  <2> QED
    BY <2>1, <2>2, <2>6, <2>7, Frame
<1>5. CASE DiscardSession
  <2>1. /\ UNCHANGED <<m, last, used, log>> /\ effects # << >> /\ Head(effects) = "DiscardSession"
        /\ effects' = Tail(effects) /\ queue' = queue \o << >>
        /\ \/ active = NoActive /\ UNCHANGED active
           \/ /\ active # NoActive
              /\ active' = [active EXCEPT !.pcm = "none", !.text = NoText, !.epoch = Discarded]
    BY <1>5 DEF DiscardSession
  <2>2. /\ effects' = Closing
        /\ \/ m.state = "Cancelled" /\ queue = << >>
           \/ m.state = "Error" /\ Single(queue)
    BY <1>1, <2>1, EffectsPlanned, NextEffects
  <2>3. queue' = queue
    BY <2>1, <2>2, NothingFollows DEF Single
  <2>4. Plan(m.state, effects', queue')
    BY <2>2, <2>3 DEF Plan
  <2>5. ActiveKept
    <3>1. CASE UNCHANGED active
      BY <3>1, SameActiveKept
    <3>2. CASE /\ active # NoActive
               /\ active' = [active EXCEPT !.pcm = "none", !.text = NoText, !.epoch = Discarded]
      <4>1. active'.session = active.session /\ active.session = m.session
        BY <2>2, <3>2 DEF ControlInv, ActiveInv, AnyActive, LoopInv
      <4> QED
        BY <2>2, <3>2, <4>1 DEF ActiveKept
    <3> QED
      BY <2>1, <3>1, <3>2
  <2> QED
    BY <2>1, <2>2, <2>4, <2>5, Frame
<1> QED
  BY <1>2, <1>3, <1>4, <1>5

LEMMA DeliverPromises ==
  ASSUME ControlInv, LoopInv, StoryInv, DeliverText PROVE LoopInv' /\ StoryInv' /\ Promised
<1>1. /\ UNCHANGED <<m, last, used, active>> /\ effects # << >> /\ Head(effects) = "DeliverText"
      /\ effects' = Tail(effects) /\ queue' = queue \o <<"Delivered">>
      /\ \/ ~Spoken /\ log' = log
         \/ /\ Spoken
            /\ log' = [log EXCEPT !.handed = @ \cup {[session |-> active.session, of |-> active.text]}]
  BY DEF DeliverText, Perform, Spoken
<1>2. /\ effects = Handing /\ effects' = << >> /\ m.state = "Delivering"
      /\ queue = << >> /\ queue' = <<"Delivered">>
  BY <1>1, EffectsPlanned, NextEffects, QueueSteps DEF LoopInv
<1>3. << >> # Opening /\ Handing # << >>
  BY EffectsDiffer
<1>4. LoopInv'
  <2>1. Plan(m'.state, effects', queue')
    BY <1>1, <1>2 DEF Plan
  <2> QED
    BY <1>1, <1>2, <1>3, <2>1 DEF LoopInv
<1>5. PICK s \in Sessions : s = m.session
  BY <1>2 DEF LoopInv, StoryInv
<1>6. s \in used /\ s \notin Handed /\ ~Over(s) /\ "stopped" \notin log.published[s]
  BY <1>2, <1>3, <1>5, SessionAssumption DEF StoryInv, Story
<1>7. /\ log'.published = log.published /\ log'.copies = log.copies
      /\ Handed' = IF Spoken THEN Handed \cup {s} ELSE Handed
  <2>1. CASE ~Spoken /\ log' = log
    BY <2>1 DEF Handed
  <2>2. CASE /\ Spoken
             /\ log' = [log EXCEPT !.handed = @ \cup {[session |-> active.session, of |-> active.text]}]
    <3>1. active.session = s
      BY <1>2, <1>5, <2>2 DEF Spoken, LoopInv
    <3> DEFINE new == [session |-> active.session, of |-> active.text]
    <3>2. /\ log'.published = log.published /\ log'.copies = log.copies
          /\ log'.handed = log.handed \cup {new} /\ new.session = s
      BY <2>2, <3>1 DEF ControlInv, LogShape
    <3> HIDE DEF new
    <3>3. Handed' = Handed \cup {s}
      BY <3>2 DEF Handed
    <3> QED
      BY <2>2, <3>2, <3>3
  <2> QED
    BY <1>1, <2>1, <2>2
<1>8. \A r : Over(r)' = Over(r)
  BY <1>7 DEF Over
<1>9. \A r \in Sessions : Story(r)'
  BY <1>1, <1>2, <1>5, <1>6, <1>7, <1>8 DEF StoryInv, Story
<1>10. StoryInv'
  <2>1. Spoken' = Spoken /\ (Spoken => active.session = s)
    BY <1>1, <1>2, <1>5 DEF Spoken, LoopInv
  <2> QED
    BY <1>1, <1>2, <1>7, <1>8, <1>9, <2>1 DEF StoryInv
<1>11. \A r \in Sessions \ {s} : Fate(r)' = Fate(r)
  BY <1>1, <1>7, <1>8 DEF Fate
<1>12. Fate(s) = "open"
  BY <1>2, <1>5, <1>6 DEF Fate, ActiveState
<1>13. CASE ~Spoken
  <2>1. Fate(s)' = Fate(s)
    BY <1>1, <1>7, <1>8, <1>13 DEF Fate
  <2> QED
    BY <1>4, <1>7, <1>10, <1>11, <2>1, SameFate
<1>14. CASE Spoken
  <2>1. Fate(s)' = "delivered"
    BY <1>1, <1>2, <1>5, <1>6, <1>7, <1>8, <1>14 DEF Fate
  <2>2. phase[s] = "open" /\ phase' = [phase EXCEPT ![s] = "delivered"]
    BY <1>10, <1>11, <1>12, <2>1, OtherFate
  <2>3. D!End(s, "delivered")
    BY <1>7, <2>2 DEF D!End
  <2> QED
    BY <1>4, <1>10, <2>3 DEF Promised, D!Next
<1> QED
  BY <1>13, <1>14

LEMMA WhatIsPublished ==
  /\ Published(last) \subseteq ApiEvent
  /\ "stopped" \in Published(last) => last = "Delivered"
  /\ Published(last) \cap {"cancelled", "error"} # {} <=> last \in {"Cancel", "Failed"}
<1>1. CASE last = "CaptureStarted"
  BY <1>1 DEF Published, ApiEvent
<1>2. CASE last = "Delivered"
  BY <1>2 DEF Published, ApiEvent
<1>3. CASE last = "Cancel"
  BY <1>3 DEF Published, ApiEvent
<1>4. CASE last = "Failed"
  BY <1>4 DEF Published, ApiEvent
<1>5. CASE last \notin {"CaptureStarted", "Delivered", "Cancel", "Failed"}
  BY <1>5 DEF Published, ApiEvent
<1> QED
  BY <1>1, <1>2, <1>3, <1>4, <1>5

LEMMA AnnouncePromises ==
  ASSUME ControlInv, LoopInv, StoryInv, AnnounceState PROVE LoopInv' /\ StoryInv' /\ Promised
<1> DEFINE about == IF active # NoActive THEN active.session ELSE m.session
<1>1. /\ UNCHANGED <<m, last, used, active>> /\ effects # << >> /\ Head(effects) = "AnnounceState"
      /\ effects' = Tail(effects)
      /\ queue' = queue \o (IF m.state = "Cancelled" THEN <<"Reset">> ELSE << >>)
      /\ log' = IF about = NoSession THEN log
                ELSE [log EXCEPT !.published[about] = @ \cup Published(last)]
  BY DEF AnnounceState, Perform
<1>2. \/ /\ effects = Closing /\ effects' = Releasing
         /\ \/ m.state = "Cancelled" /\ queue = << >>
            \/ m.state \in {"Idle", "Error"} /\ Single(queue)
      \/ /\ effects = Announcing /\ effects' = << >>
         /\ \/ m.state \in Recording \cup {"Idle", "Starting"} /\ Single(queue)
            \/ m.state = "Finalizing" /\ (Single(queue) \/ Double(queue))
  BY <1>1, EffectsPlanned, NextEffects DEF LoopInv
<1>3. /\ << >> # Opening /\ Releasing # Opening /\ Closing # Opening /\ Announcing # Opening
      /\ Releasing \notin {<< >>, Announcing} /\ Single(<<"Reset">>)
  <2>1. Single(<<"Reset">>)
    BY DEF Single, Event
  <2> QED
    BY <2>1, NextEffects, EffectsDiffer
<1>4. Plan(m'.state, effects', queue')
  <2>1. CASE m.state = "Cancelled"
    <3>1. queue' = <<"Reset">> /\ effects' = Releasing
      BY <1>1, <1>2, <2>1, QueueSteps DEF Recording
    <3> QED
      BY <1>1, <1>3, <2>1, <3>1 DEF Plan
  <2>2. CASE m.state # "Cancelled"
    <3>1. queue' = queue
      BY <1>1, <1>2, <2>2, NothingFollows
    <3> QED
      BY <1>1, <1>2, <2>2, <3>1 DEF Plan, Recording
  <2> QED
    BY <2>1, <2>2
<1>5. LoopInv'
  BY <1>1, <1>2, <1>3, <1>4 DEF LoopInv, Recording
<1>6. about \in used \cup {NoSession} /\ (m.state # "Idle" => about = m.session /\ about # NoSession)
  BY DEF LoopInv, StoryInv
<1> HIDE DEF about
<1>7. /\ log'.handed = log.handed /\ log'.copies = log.copies
      /\ log'.published \in [Sessions -> SUBSET ApiEvent]
      /\ \A s \in Sessions : log'.published[s] = IF s = about THEN log.published[s] \cup Published(last)
                                                 ELSE log.published[s]
  <2>1. log.published \in [Sessions -> SUBSET ApiEvent] /\ used \subseteq Sessions
    BY DEF StoryInv
  <2>2. CASE about = NoSession
    <3>1. log' = log /\ about \notin Sessions
      BY <1>1, <2>2, SessionAssumption DEF about
    <3> QED
      BY <2>1, <3>1
  <2>3. CASE about # NoSession
    <3>1. about \in Sessions /\ log' = [log EXCEPT !.published[about] = @ \cup Published(last)]
      BY <1>1, <1>6, <2>1, <2>3 DEF about
    <3>2. /\ log'.handed = log.handed /\ log'.copies = log.copies
          /\ log'.published = [log.published EXCEPT ![about] = @ \cup Published(last)]
      BY <3>1 DEF ControlInv, LogShape
    <3> QED
      BY <2>1, <3>1, <3>2, WhatIsPublished
  <2> QED
    BY <2>2, <2>3
<1>8. Handed' = Handed
  BY <1>7 DEF Handed
<1>9. \A s \in Sessions : Over(s)' <=> Over(s) \/ (s = about /\ last \in {"Cancel", "Failed"})
  BY <1>7, WhatIsPublished DEF Over
<1>10. \A s \in Sessions : "stopped" \in log'.published[s]
         => "stopped" \in log.published[s] \/ (s = about /\ last = "Delivered")
  BY <1>7, WhatIsPublished
<1>11. /\ last \in {"Cancel", "Failed"} => about = m.session /\ m.state \in {"Cancelled", "Error"}
       /\ last = "Delivered" => m.state = "Idle" /\ m.session = NoSession
       /\ m.state \in {"Cancelled", "Error"} => last \in {"Cancel", "Failed"} /\ about = m.session
       /\ NoSession \notin Sessions /\ m.state # "Delivering"
  BY <1>2, <1>6, SessionAssumption DEF LoopInv, Recording
<1>12. last = "Delivered" /\ about # NoSession => ~Over(about)
  BY <1>11 DEF about, StoryInv
<1>13. ASSUME NEW s \in Sessions PROVE Story(s)'
  <2>1. Story(s)
    BY DEF StoryInv
  <2>2. s \notin used => s # about
    BY <1>6, <1>11
  <2>3. s \notin used => log'.published[s] = {} /\ s \notin Handed
    BY <1>7, <2>1, <2>2 DEF Story
  <2>4. Over(s)' => s \notin Handed /\ "stopped" \notin log'.published[s]
    BY <1>9, <1>10, <1>11, <1>12, <2>1 DEF Story
  <2>5. s = m.session =>
          /\ s \notin Handed /\ "stopped" \notin log'.published[s]
          /\ Over(s)' => m.state \in {"Cancelled", "Error"}
          /\ m.state \in {"Cancelled", "Error"} => Over(s)'
    BY <1>9, <1>10, <1>11, <2>1 DEF Story
  <2> QED
    BY <1>1, <1>8, <2>3, <2>4, <2>5 DEF Story
<1>14. StoryInv'
  <2>1. Spoken' = Spoken
    BY <1>1 DEF Spoken
  <2>2. active # NoActive /\ m.state = "Idle" => ~Over(active.session)'
    <3>1. active # NoActive => active.session \in Sessions
      BY DEF StoryInv
    <3> QED
      BY <1>1, <1>9, <1>11, <3>1 DEF StoryInv
  <2> QED
    BY <1>1, <1>7, <1>8, <1>11, <1>13, <2>1, <2>2 DEF StoryInv
<1>15. \A s \in Sessions : Fate(s)' = Fate(s)
  BY <1>1, <1>8, <1>9, <1>11 DEF Fate
<1> QED
  BY <1>5, <1>7, <1>14, <1>15, SameFate

LEMMA ReleasePromises ==
  ASSUME ControlInv, LoopInv, StoryInv, ReleaseResources PROVE LoopInv' /\ StoryInv' /\ Promised
<1>1. /\ UNCHANGED <<m, last, used>> /\ active' = NoActive
      /\ effects # << >> /\ Head(effects) = "ReleaseResources"
      /\ effects' = Tail(effects) /\ queue' = queue \o << >>
      /\ \/ log' = log
         \/ active # NoActive /\ Copyable /\ log' = [log EXCEPT !.copies = @ \cup {active.session}]
  BY DEF ReleaseResources, Perform
<1>2. /\ effects = Releasing /\ effects' = << >> /\ m.state \in {"Idle", "Cancelled", "Error"}
      /\ Single(queue) /\ queue' = queue
  BY <1>1, EffectsPlanned, NextEffects, NothingFollows DEF LoopInv
<1>3. << >> # Opening
  BY EffectsDiffer
<1>4. LoopInv'
  <2>1. Plan(m'.state, effects', queue')
    BY <1>1, <1>2 DEF Plan
  <2> QED
    BY <1>1, <1>2, <1>3, <2>1 DEF LoopInv
<1>5. log'.published = log.published /\ log'.handed = log.handed
  BY <1>1 DEF ControlInv, LogShape
<1>6. Handed' = Handed /\ (\A s : Over(s)' = Over(s)) /\ ~Spoken'
  BY <1>1, <1>5 DEF Handed, Over, Spoken
<1>7. \A s \in Sessions : Story(s)'
  BY <1>1, <1>2, <1>5, <1>6 DEF StoryInv, Story
<1>8. StoryInv'
  BY <1>1, <1>5, <1>6, <1>7 DEF StoryInv
<1>9. \A s \in Sessions : Fate(s)' = Fate(s)
  BY <1>1, <1>6 DEF Fate
<1>10. CASE log' = log
  BY <1>4, <1>8, <1>9, <1>10, SameFate
<1>11. CASE active # NoActive /\ Copyable /\ log' = [log EXCEPT !.copies = @ \cup {active.session}]
  <2>1. PICK s \in Sessions : s = active.session /\ s \in Handed /\ ~Over(s)
    BY <1>11 DEF Copyable, Spoken, StoryInv
  <2>2. m.state = "Idle" /\ \A other \in Sessions : Fate(other) # "open"
    BY <1>11 DEF Copyable, Fate, ActiveState, Recording
  <2>3. phase' = phase /\ phase[s] = "delivered" /\ \A other \in Sessions : phase[other] # "open"
    <3>1. Fate(s) = "delivered"
      BY <2>1, <2>2 DEF Fate
    <3>2. phase = [r \in Sessions |-> Fate(r)] /\ phase' = [r \in Sessions |-> Fate(r)']
      BY <1>8, PhaseIs, PhaseIsNext
    <3> QED
      BY <1>9, <2>2, <3>1, <3>2
  <2>4. log'.copies = log.copies \cup {s}
    BY <1>11, <2>1 DEF ControlInv, LogShape
  <2>5. D!Copy(s)
    BY <2>3, <2>4 DEF D!Copy
  <2> QED
    BY <1>4, <1>8, <2>5 DEF Promised, D!Next
<1> QED
  BY <1>1, <1>10, <1>11

LEMMA LoopStarts == ASSUME Init PROVE LoopInv /\ StoryInv
<1>1. m.state = "Idle" /\ m.session = NoSession /\ Single(queue) /\ effects = << >>
      /\ active = NoActive /\ last = "Reset"
  BY DEF Init, NewMachine, Single
<1>2. LoopInv
  <2>1. << >> # Opening
    BY EffectsDiffer
  <2> QED
    BY <1>1, <2>1 DEF LoopInv, Plan
<1>3. Handed = {} /\ used = {} /\ \A s \in Sessions : log.published[s] = {}
  BY DEF Init, Handed
<1>4. log.published \in [Sessions -> SUBSET ApiEvent]
  BY DEF Init
<1>5. \A s \in Sessions : Story(s)
  BY <1>1, <1>3, SessionAssumption DEF Story, Over
<1>6. StoryInv
  BY <1>1, <1>3, <1>4, <1>5 DEF StoryInv, Spoken
<1> QED
  BY <1>2, <1>6

LEMMA LoopStep ==
  ASSUME ControlInv, LoopInv, StoryInv, [Next]_vars PROVE LoopInv' /\ StoryInv' /\ Promised
<1>1. CASE UNCHANGED vars
  <2>1. UNCHANGED <<m, queue, effects, last, used, log, active>>
    BY <1>1 DEF vars, control
  <2> QED
    BY <2>1, QuietPromises, SameActiveKept
<1>2. CASE PerformEffect
  BY <1>2, CapturePromises, DeliverPromises, AnnouncePromises, ReleasePromises DEF PerformEffect
<1>3. CASE Command \/ Timer \/ HandleEvent \/ Recognize \/ OnPartial \/ OnFinal
  BY <1>3, CommandPromises, TimerPromises, HandlePromises, AnswerPromises
<1> QED
  BY <1>1, <1>2, <1>3 DEF Next

\* The controller keeps its promise about sessions, for any number of them and however
\* commands, timers, effects and the answers of the speech thread interleave: it opens
\* one session at a time, ends it in exactly one way ("so a cancelled session is never
\* also reported as stopped"), and takes a training copy "only after delivery".
THEOREM ControllerImplementsDictation == Spec => Refines
<1> DEFINE Inv == ControlInv /\ LoopInv /\ StoryInv
<1>1. Init => Inv
  BY ControlStarts, LoopStarts
<1>2. Inv /\ [Next]_vars => Inv' /\ Promised
  BY ControlStep, LoopStep
<1>3. Init => D!Init
  <2> SUFFICES ASSUME Init PROVE D!Init
    OBVIOUS
  <2>1. Inv
    BY <1>1
  <2>2. \A s \in Sessions : Fate(s) = "unused"
    BY SessionAssumption DEF Init, NewMachine, Fate, Over, Handed
  <2>3. phase = [s \in Sessions |-> "unused"]
    BY <2>1, <2>2, PhaseIs
  <2> QED
    BY <2>3 DEF D!Init, Init
<1>4. Promised <=> [D!Next]_<<phase, log.copies>>
  BY DEF Promised
<1> QED
  BY <1>1, <1>2, <1>3, <1>4, PTL DEF Spec, Refines, D!Spec

-----------------------------------------------------------------------------
(* Push to talk                                                             *)

\* A machine that records only as long as the key is down, or will.
Waiting(x) == \/ x.state = "RecordingHeld"
              \/ x.state = "Starting" /\ ~x.pendingLocked /\ ~x.pendingStop
Unlocked(x) == x.state = "RecordingHeld" \/ (x.state = "Starting" /\ ~x.pendingLocked)

\* Such a machine has its key down, or its release is due, or what ends it is about to
\* be handled; and a release that is due belongs to the session it would end.
KeysInv ==
  /\ keys = [down |-> keys.down, holdUpDue |-> keys.holdUpDue, releasedIn |-> keys.releasedIn]
  /\ Waiting(m) => "Hold" \in keys.down \/ keys.holdUpDue \/ queue \in {<<"HoldUp">>, <<"Lock">>}
  /\ queue = <<"HoldDown">> => "Hold" \in keys.down /\ ~keys.holdUpDue
  /\ keys.holdUpDue /\ Unlocked(m) => keys.releasedIn = m.session

LEMMA HandleHeld ==
  ASSUME NEW x \in Machine, NEW event \in Event, NEW id \in Named,
         Handle(x, event, id).verdict = "accepted"
  PROVE  LET y == Handle(x, event, id).m
         IN  \/ event = "HoldDown" /\ x.state = "Idle"
             \/ ~Unlocked(y) /\ ~Waiting(y)
             \/ /\ Unlocked(x) /\ y.session = x.session
                /\ Waiting(y) => Waiting(x) /\ event \notin {"HoldUp", "Lock"}
<1> DEFINE out == Handle(x, event, id)
           Fits(y) == \/ ~Unlocked(y) /\ ~Waiting(y)
                      \/ /\ Unlocked(x) /\ y.session = x.session
                         /\ Waiting(y) => Waiting(x) /\ event \notin {"HoldUp", "Lock"}
<1>1. /\ \A y, todo : Accepted(y, todo).m = y
      /\ \A y : Ignored(y).verdict # "accepted" /\ Invalid(y).verdict # "accepted"
  BY DEF Accepted, Ignored, Invalid
<1>2. \A y : y.state \notin {"RecordingHeld", "Starting"} => Fits(y)
  BY DEF Unlocked, Waiting
<1>3. ASSUME NEW y \in Machine, out = BeginFinalize(y) PROVE Fits(out.m)
  <2>1. out.m = [y EXCEPT !.state = "Finalizing"]
    BY <1>1, <1>3 DEF BeginFinalize
  <2>2. out.m.state = "Finalizing"
    BY <2>1 DEF Machine
  <2> QED
    BY <1>2, <2>2
<1>4. CASE event \in {"Cancel", "Failed"}
  <2> DEFINE y == [x EXCEPT !.cancelRequested = TRUE, !.state = "Cancelled"]
             z == [x EXCEPT !.state = "Error"]
  <2>1. out = Accepted(y, Abandon) \/ out = Accepted(z, Abandon)
    BY <1>1, <1>4 DEF Handle, Cancel, Failed
  <2>2. y.state = "Cancelled" /\ z.state = "Error"
    BY DEF Machine
  <2> HIDE DEF y, z
  <2>3. out.m = y \/ out.m = z
    BY <1>1, <2>1
  <2> HIDE DEF Fits
  <2>4. Fits(out.m)
    BY <1>2, <2>2, <2>3
  <2> QED
    BY <2>4 DEF Fits
<1>5. CASE event \in {"Delivered", "Reset"}
  <2> DEFINE y == [x EXCEPT !.state = "Idle", !.session = NoSession]
             z == NewMachine
  <2>1. out = Accepted(y, <<"AnnounceState", "ReleaseResources">>) \/ out = Accepted(z, <<"AnnounceState">>)
    BY <1>1, <1>5 DEF Handle, Delivered, Reset
  <2>2. y.state = "Idle" /\ z.state = "Idle"
    BY DEF Machine, NewMachine
  <2> HIDE DEF y, z
  <2>3. out.m = y \/ out.m = z
    BY <1>1, <2>1
  <2> HIDE DEF Fits
  <2>4. Fits(out.m)
    BY <1>2, <2>2, <2>3
  <2> QED
    BY <2>4 DEF Fits
<1>6. CASE event = "Finalized"
  <2> DEFINE y == [x EXCEPT !.state = "Cancelled"]
             z == [x EXCEPT !.state = "Delivering"]
  <2>1. out = Accepted(y, <<"DiscardSession">>) \/ out = Accepted(z, <<"DeliverText">>)
    BY <1>1, <1>6 DEF Handle, Finalized
  <2>2. y.state = "Cancelled" /\ z.state = "Delivering"
    BY DEF Machine
  <2> HIDE DEF y, z
  <2>3. out.m = y \/ out.m = z
    BY <1>1, <2>1
  <2> HIDE DEF Fits
  <2>4. Fits(out.m)
    BY <1>2, <2>2, <2>3
  <2> QED
    BY <2>4 DEF Fits
<1>7. CASE event \in {"HoldDown", "Toggle"} /\ x.state = "Idle"
  <2>1. CASE event = "HoldDown"
    BY <1>7, <2>1
  <2>2. CASE event = "Toggle"
    <3> DEFINE y == [NewMachine EXCEPT !.state = "Starting", !.session = id, !.pendingLocked = TRUE]
    <3>1. Toggle(x, id) = Start(x, TRUE, id)
      BY <1>7 DEF Toggle, Recording
    <3>2. out = Toggle(x, id)
      BY <2>2 DEF Handle
    <3>3. out = Accepted(y, <<"StartCapture", "AnnounceState">>)
      BY <1>1, <1>7, <3>1, <3>2 DEF Start, Recording
    <3>4. y.state = "Starting" /\ y.pendingLocked
      BY DEF NewMachine
    <3>5. ~Unlocked(y) /\ ~Waiting(y)
      BY <3>4 DEF Unlocked, Waiting
    <3> QED
      BY <1>1, <3>3, <3>5
  <2> QED
    BY <1>7, <2>1, <2>2
<1>8. CASE event \in {"HoldDown", "HoldUp", "Toggle", "Stop", "DurationLimit"} /\ x.state # "Idle"
  <2> DEFINE y == [x EXCEPT !.pendingStop = TRUE]
  <2>1. y.state = x.state /\ y.session = x.session /\ y.pendingLocked = x.pendingLocked /\ y.pendingStop
    BY DEF Machine
  <2>2. \/ x.state \in Recording /\ out = BeginFinalize(x)
        \/ x.state = "Starting" /\ out = Accepted(y, << >>)
    BY <1>1, <1>8 DEF Handle, HoldUp, Toggle, Stop, DurationLimit, Start, Recording
  <2>3. x.state = "Starting" => Fits(y)
    BY <2>1 DEF Unlocked, Waiting
  <2> HIDE DEF y, Fits
  <2> QED
    BY <1>1, <1>3, <2>2, <2>3 DEF Fits
<1>9. CASE event = "Lock"
  <2> DEFINE y == [x EXCEPT !.pendingLocked = TRUE]
             z == [x EXCEPT !.state = "RecordingLocked"]
  <2>1. y.state = x.state /\ y.pendingLocked /\ z.state = "RecordingLocked"
    BY DEF Machine
  <2>2. \/ x.state = "RecordingHeld" /\ out = Accepted(z, <<"AnnounceState">>)
        \/ x.state = "Starting" /\ out = Accepted(y, << >>)
    BY <1>1, <1>9 DEF Handle, Lock
  <2>3. ~Unlocked(z) /\ ~Waiting(z) /\ (x.state = "Starting" => ~Unlocked(y) /\ ~Waiting(y))
    BY <2>1 DEF Unlocked, Waiting
  <2> HIDE DEF y, z
  <2> QED
    BY <1>1, <2>2, <2>3
<1>10. CASE event = "CaptureStarted"
  <2> DEFINE y == [x EXCEPT !.state = IF x.pendingLocked THEN "RecordingLocked" ELSE "RecordingHeld"]
             z == [y EXCEPT !.pendingStop = FALSE]
  <2>1. /\ y \in Machine /\ z \in Machine /\ y.session = x.session
        /\ y.state = IF x.pendingLocked THEN "RecordingLocked" ELSE "RecordingHeld"
    BY DEF Machine, State
  <2> HIDE DEF y, z
  <2>2. x.state = "Starting" /\ (out = BeginFinalize(z) \/ (out = Accepted(y, <<"AnnounceState">>) /\ ~x.pendingStop))
    BY <1>1, <1>10 DEF Handle, CaptureStarted, y, z
  <2>3. CASE out = BeginFinalize(z)
    BY <1>3, <2>1, <2>3
  <2>4. CASE out = Accepted(y, <<"AnnounceState">>) /\ ~x.pendingStop
    BY <1>1, <1>10, <2>1, <2>2, <2>4 DEF Unlocked, Waiting
  <2> QED
    BY <2>2, <2>3, <2>4
<1>11. CASE event \in {"HoldUp", "Stop", "DurationLimit"} /\ x.state = "Idle"
  BY <1>1, <1>11 DEF Handle, HoldUp, Stop, DurationLimit, Recording
<1> QED
  BY <1>4, <1>5, <1>6, <1>7, <1>8, <1>9, <1>10, <1>11 DEF Event

\* What ends a session that waits for its key is never passed over.
LEMMA EndsAreTaken ==
  ASSUME NEW x \in Machine, Waiting(x), NEW event \in {"HoldUp", "Lock"}, NEW id
  PROVE  Handle(x, event, id).verdict = "accepted"
<1>1. \A y, todo : Accepted(y, todo).verdict = "accepted"
  BY DEF Accepted
<1>2. HoldUp(x).verdict = "accepted"
  BY <1>1 DEF Waiting, HoldUp, BeginFinalize
<1>3. Lock(x).verdict = "accepted"
  BY <1>1 DEF Waiting, Lock
<1> QED
  BY <1>2, <1>3 DEF Handle

LEMMA KeysHandle ==
  ASSUME ControlInv, LoopInv, KeysInv, HandleEvent PROVE KeysInv'
<1> DEFINE event == Head(queue)
<1>1. /\ effects = << >> /\ queue # << >> /\ queue' = Tail(queue) /\ UNCHANGED keys
      /\ \E id \in Drawn(event) :
           LET out == Handle(m, event, id)
           IN  IF out.verdict = "accepted" THEN m' = out.m ELSE m' = m
  BY DEF HandleEvent
<1>2. m \in Machine
  BY DEF ControlInv, MachineInv
<1>3. Single(queue) \/ Double(queue)
  BY <1>1, EffectsDiffer DEF LoopInv, Plan, Single, Event
<1>4. /\ event \in Event
      /\ Single(queue) => queue = <<event>> /\ queue' = << >>
      /\ Double(queue) => event = "Failed" /\ queue' \in {<<"Failed">>, <<"Finalized">>}
  BY <1>1, <1>3, PlanNeverEmpty
<1>5. /\ event \in {"HoldDown", "HoldUp", "Lock"} => queue = <<event>>
      /\ queue' # <<"HoldDown">>
      /\ queue \in {<<"HoldUp">>, <<"Lock">>} => event \in {"HoldUp", "Lock"}
  BY <1>3, <1>4, QueueSteps
<1>6. PICK id \in Drawn(event) :
        \/ Handle(m, event, id).verdict = "accepted" /\ m' = Handle(m, event, id).m
        \/ Handle(m, event, id).verdict # "accepted" /\ m' = m
  BY <1>1
<1>7. id \in Named
  BY DEF Drawn, Named
<1> HIDE DEF event
<1>8. CASE Handle(m, event, id).verdict # "accepted" /\ m' = m
  <2>1. Waiting(m) => event \notin {"HoldUp", "Lock"}
    BY <1>2, <1>8, EndsAreTaken
  <2> QED
    BY <1>1, <1>5, <1>8, <2>1 DEF KeysInv, Waiting, Unlocked
<1>9. CASE Handle(m, event, id).verdict = "accepted" /\ m' = Handle(m, event, id).m
  <2>1. \/ event = "HoldDown" /\ m.state = "Idle"
        \/ ~Unlocked(m') /\ ~Waiting(m')
        \/ /\ Unlocked(m) /\ m'.session = m.session
           /\ Waiting(m') => Waiting(m) /\ event \notin {"HoldUp", "Lock"}
    BY <1>2, <1>4, <1>7, <1>9, HandleHeld
  <2> QED
    BY <1>1, <1>5, <2>1 DEF KeysInv
<1> QED
  BY <1>6, <1>8, <1>9

\* An input other than the keys'.
LEMMA KeysInput ==
  ASSUME KeysInv, NEW event \in Event \ {"HoldDown"}, Apply(event), UNCHANGED keys PROVE KeysInv'
<1>1. queue = << >> /\ queue' = <<event>> /\ UNCHANGED m
  BY DEF Apply, AtRest
<1>2. <<event>> # <<"HoldDown">> /\ << >> \notin {<<"HoldUp">>, <<"Lock">>}
  BY QueueSteps
<1> QED
  BY <1>1, <1>2 DEF KeysInv, Waiting, Unlocked

LEMMA KeysQuiet == ASSUME KeysInv, UNCHANGED <<m, queue, keys>> PROVE KeysInv'
BY DEF KeysInv, Waiting, Unlocked

LEMMA KeysCommand == ASSUME ControlInv, KeysInv, Command PROVE KeysInv'
<1>1. ASSUME NEW event \in Event, Ui(event) \/ \E s \in Sessions : ApiEnd(s, event) PROVE KeysInv'
  BY <1>1, KeysInput DEF Ui, ApiEnd
<1>2. CASE ApiStart \/ Lifecycle
  <2>1. {"Toggle", "Cancel"} \subseteq Event \ {"HoldDown"}
    BY DEF Event
  <2> QED
    BY <1>2, <2>1, KeysInput DEF ApiStart, Lifecycle
<1>3. ASSUME NEW action \in Keys, Press(action) PROVE KeysInv'
  <2>1. /\ UNCHANGED m /\ queue = << >> /\ action \notin keys.down /\ action \in ShortcutAction
        /\ queue' = <<IF action = "Hold" THEN "HoldDown" ELSE action>>
        /\ keys' = [keys EXCEPT !.down = @ \cup {action},
                                !.holdUpDue = @ /\ ~Supersedes(action),
                                !.releasedIn = IF Supersedes(action) THEN NoSession ELSE @]
    BY <1>3, KeysAssumption DEF Press, Apply, AtRest
  <2>2. /\ keys'.down = keys.down \cup {action} /\ keys'.holdUpDue = (keys.holdUpDue /\ ~Supersedes(action))
        /\ keys'.releasedIn = IF Supersedes(action) THEN NoSession ELSE keys.releasedIn
        /\ keys' = [down |-> keys'.down, holdUpDue |-> keys'.holdUpDue, releasedIn |-> keys'.releasedIn]
    BY <2>1 DEF KeysInv
  <2>3. Waiting(m) => "Hold" \in keys.down \/ keys.holdUpDue
    BY <2>1, QueueSteps DEF KeysInv
  <2>4. Waiting(m') <=> Waiting(m)
    BY <2>1
  <2>5. CASE action = "Hold"
    BY <2>1, <2>2, <2>5 DEF KeysInv, Supersedes
  <2>6. CASE action = "Lock"
    <3>1. queue' = <<"Lock">> /\ queue' # <<"HoldDown">>
      BY <2>1, <2>6, QueueSteps
    <3> QED
      BY <2>1, <2>2, <2>6, <3>1 DEF KeysInv, Supersedes
  <2>7. CASE action \notin {"Hold", "Lock"}
    <3>1. queue' # <<"HoldDown">>
      <4>1. Head(queue') = action /\ Head(<<"HoldDown">>) = "HoldDown" /\ action # "HoldDown"
        BY <2>1, <2>7, QueueSteps DEF ShortcutAction
      <4> QED
        BY <4>1
    <3>2. ~Supersedes(action)
      BY <2>7 DEF Supersedes
    <3> QED
      BY <2>1, <2>2, <2>3, <2>4, <3>1, <3>2 DEF KeysInv, Unlocked
  <2> QED
    BY <2>5, <2>6, <2>7
<1>4. ASSUME NEW action \in Keys, Release(action) PROVE KeysInv'
  <2>1. /\ UNCHANGED <<m, queue>> /\ queue = << >>
        /\ keys' = IF action = "Hold"
                   THEN [keys EXCEPT !.down = @ \ {action}, !.holdUpDue = TRUE, !.releasedIn = m.session]
                   ELSE [keys EXCEPT !.down = @ \ {action}]
    BY <1>4 DEF Release, AtRest, control
  <2>2. /\ queue \notin {<<"HoldDown">>, <<"HoldUp">>, <<"Lock">>}
        /\ Waiting(m) => "Hold" \in keys.down \/ keys.holdUpDue
    BY <2>1, QueueSteps DEF KeysInv
  <2>3. CASE action = "Hold"
    <3>1. /\ keys'.holdUpDue /\ keys'.releasedIn = m.session
          /\ keys' = [down |-> keys'.down, holdUpDue |-> keys'.holdUpDue, releasedIn |-> keys'.releasedIn]
      BY <2>1, <2>3 DEF KeysInv
    <3> QED
      BY <2>1, <2>2, <3>1 DEF KeysInv
  <2>4. CASE action # "Hold"
    <3>1. /\ keys'.down = keys.down \ {action} /\ keys'.holdUpDue = keys.holdUpDue
          /\ keys'.releasedIn = keys.releasedIn
          /\ keys' = [down |-> keys'.down, holdUpDue |-> keys'.holdUpDue, releasedIn |-> keys'.releasedIn]
      BY <2>1, <2>4 DEF KeysInv
    <3> QED
      BY <2>1, <2>2, <2>4, <3>1 DEF KeysInv, Waiting, Unlocked
  <2> QED
    BY <2>3, <2>4
<1>5. CASE Shutdown
  <2>1. queue = << >> /\ queue' = <<"Cancel">> /\ UNCHANGED <<m, keys>>
    BY <1>5 DEF Shutdown, AtRest
  <2>2. <<"Cancel">> # <<"HoldDown">> /\ << >> \notin {<<"HoldUp">>, <<"Lock">>}
    BY QueueSteps
  <2> QED
    BY <2>1, <2>2 DEF KeysInv, Waiting, Unlocked
<1> QED
  BY <1>1, <1>2, <1>3, <1>4, <1>5 DEF Command

LEMMA KeysTick ==
  ASSUME ControlInv, KeysInv, NEW elapsed \in Elapsed, TickMachine(elapsed) PROVE KeysInv'
<1> DEFINE out == Tick(m, elapsed)
           warned == [m EXCEPT !.warned = TRUE]
           y == [m EXCEPT !.state = "Finalizing"]
<1>1. out.verdict = "accepted" /\ m' = out.m /\ UNCHANGED <<queue, keys>>
  BY DEF TickMachine, others
<1>2. m \in Machine
  BY DEF ControlInv, MachineInv
<1>3. out = BeginFinalize(m) \/ out = Accepted(warned, <<"WarnDurationLimit">>)
  BY <1>1 DEF Tick, DurationLimit, Ignored, Accepted
<1>4. m' = warned \/ m' = y
  <2>1. BeginFinalize(m).m = y /\ Accepted(warned, <<"WarnDurationLimit">>).m = warned
    BY DEF BeginFinalize, Accepted
  <2> HIDE DEF out, y, warned
  <2> QED
    BY <1>1, <1>3, <2>1
<1>5. /\ warned.state = m.state /\ warned.session = m.session /\ warned.pendingLocked = m.pendingLocked
      /\ warned.pendingStop = m.pendingStop /\ y.state = "Finalizing"
  BY <1>2 DEF Machine
<1> HIDE DEF out, warned, y
<1>6. /\ Unlocked(m') => Unlocked(m) /\ m'.session = m.session
      /\ Waiting(m') => Waiting(m)
  BY <1>4, <1>5 DEF Unlocked, Waiting
<1> QED
  BY <1>1, <1>6 DEF KeysInv

LEMMA KeysTimer == ASSUME ControlInv, KeysInv, Timer PROVE KeysInv'
<1>1. CASE CaptureError \/ ErrorTimeout
  <2>1. {"Cancel", "Reset"} \subseteq Event \ {"HoldDown"}
    BY DEF Event
  <2> QED
    BY <1>1, <2>1, KeysInput DEF CaptureError, ErrorTimeout
<1>2. CASE HoldUpDue
  <2>1. /\ queue' = <<"HoldUp">> /\ UNCHANGED m
        /\ keys' = [keys EXCEPT !.holdUpDue = FALSE, !.releasedIn = NoSession]
    BY <1>2 DEF HoldUpDue, Apply
  <2>2. <<"HoldUp">> # <<"HoldDown">>
    BY QueueSteps
  <2>3. /\ keys'.holdUpDue = FALSE
        /\ keys' = [down |-> keys'.down, holdUpDue |-> keys'.holdUpDue, releasedIn |-> keys'.releasedIn]
    BY <2>1 DEF KeysInv
  <2> QED
    BY <2>1, <2>2, <2>3 DEF KeysInv
<1>3. CASE SchedulePartial
  BY <1>3, KeysQuiet DEF SchedulePartial, control
<1> QED
  BY <1>1, <1>2, <1>3, KeysTick DEF Timer

LEMMA KeysAnswer == ASSUME KeysInv, Recognize \/ OnPartial \/ OnFinal PROVE KeysInv'
<1>1. CASE Recognize \/ OnPartial
  BY <1>1, KeysQuiet DEF Recognize, OnPartial, control
<1>2. CASE OnFinal
  <2>1. /\ UNCHANGED <<m, keys>>
        /\ \/ UNCHANGED queue
           \/ m.state = "Finalizing" /\ queue' \in {<<"Failed">>, <<"Finalized">>}
    BY <1>2 DEF OnFinal, Awaited
  <2>2. CASE UNCHANGED queue
    BY <2>1, <2>2, KeysQuiet
  <2>3. CASE m.state = "Finalizing" /\ queue' \in {<<"Failed">>, <<"Finalized">>}
    <3>1. queue' # <<"HoldDown">>
      BY <2>3, QueueSteps
    <3> QED
      BY <2>1, <2>3, <3>1 DEF KeysInv, Waiting, Unlocked
  <2> QED
    BY <2>1, <2>2, <2>3
<1> QED
  BY <1>1, <1>2

LEMMA KeysEffect == ASSUME LoopInv, KeysInv, PerformEffect PROVE KeysInv'
<1> USE DEF Perform
<1>1. Plan(m.state, effects, queue) /\ UNCHANGED <<m, keys>> /\ effects # << >>
  BY DEF LoopInv, PerformEffect, StartCapture, StopCapture, FinalizeTranscript, DeliverText,
         DiscardSession, AnnounceState, ReleaseResources
<1>2. ASSUME queue' # <<"HoldDown">>, m.state \in {"Finalizing", "Delivering", "Cancelled"} \/ queue = << >>
      PROVE  KeysInv'
  <2>1. << >> \notin {<<"HoldUp">>, <<"Lock">>}
    BY QueueSteps
  <2> QED
    BY <1>1, <1>2, <2>1 DEF KeysInv, Waiting, Unlocked
<1>3. CASE StartCapture
  <2>1. Head(effects) = "StartCapture" /\ queue' \in {queue \o <<"CaptureStarted">>, queue \o <<"Failed">>}
    BY <1>3 DEF StartCapture
  <2>2. queue = << >> /\ queue' \in {<<"CaptureStarted">>, <<"Failed">>}
    BY <1>1, <2>1, EffectsPlanned, QueueSteps
  <2> QED
    BY <1>2, <2>2, QueueSteps
<1>4. CASE StopCapture
  <2>1. /\ Head(effects) = "StopCapture"
        /\ queue' = queue \o << >> \/ (m.state = "Finalizing" /\ queue' = queue \o <<"Failed">>)
    BY <1>4 DEF StopCapture
  <2>2. (m.state = "Finalizing" => queue = << >>) /\ Single(queue)
    BY <1>1, <2>1, EffectsPlanned DEF Single
  <2>3. queue' = queue \/ (m.state = "Finalizing" /\ queue' = <<"Failed">>)
    BY <2>1, <2>2, NothingFollows, QueueSteps
  <2>4. <<"Failed">> # <<"HoldDown">>
    BY QueueSteps
  <2> QED
    BY <1>1, <1>2, <2>3, <2>4, KeysQuiet
<1>5. CASE FinalizeTranscript
  <2>1. /\ Head(effects) = "FinalizeTranscript"
        /\ queue' \in {queue \o << >>, queue \o <<"Finalized">>, queue \o <<"Failed">>}
    BY <1>5 DEF FinalizeTranscript
  <2>2. m.state = "Finalizing" /\ queue \in {<< >>, <<"Failed">>}
    BY <1>1, <2>1, EffectsPlanned
  <2>3. /\ << >> \o << >> = << >> /\ <<"Failed">> \o << >> = <<"Failed">>
        /\ \A event : << >> \o <<event>> = <<event>> /\ <<"Failed">> \o <<event>> = <<"Failed", event>>
    <3>1. << >> \o << >> = << >>
      OBVIOUS
    <3> QED
      BY <3>1, QueueSteps
  <2>4. queue' = << >> \/ Head(queue') \in {"Failed", "Finalized"}
    BY <2>1, <2>2, <2>3, QueueSteps
  <2>5. queue' # <<"HoldDown">>
    BY <2>4, QueueSteps
  <2> QED
    BY <1>2, <2>2, <2>5
<1>6. CASE DeliverText
  <2>1. queue = << >> /\ queue' = <<"Delivered">>
    BY <1>1, <1>6, EffectsPlanned, QueueSteps DEF DeliverText
  <2> QED
    BY <1>2, <2>1, QueueSteps
<1>7. CASE DiscardSession \/ ReleaseResources
  <2>1. Head(effects) \in {"DiscardSession", "ReleaseResources"} /\ queue' = queue \o << >>
    BY <1>7 DEF DiscardSession, ReleaseResources
  <2>2. Single(queue)
    BY <1>1, <2>1, EffectsPlanned DEF Single
  <2> QED
    BY <1>1, <2>1, <2>2, NothingFollows, KeysQuiet
<1>8. CASE AnnounceState
  <2>1. /\ Head(effects) = "AnnounceState"
        /\ queue' = queue \o (IF m.state = "Cancelled" THEN <<"Reset">> ELSE << >>)
    BY <1>8 DEF AnnounceState
  <2>2. (m.state = "Cancelled" => queue = << >>) /\ (Single(queue) \/ Double(queue))
    BY <1>1, <2>1, EffectsPlanned DEF Single, Recording
  <2>3. CASE m.state = "Cancelled"
    <3>1. queue' = <<"Reset">>
      BY <2>1, <2>2, <2>3, QueueSteps
    <3> QED
      BY <1>2, <2>3, <3>1, QueueSteps
  <2>4. CASE m.state # "Cancelled"
    BY <1>1, <2>1, <2>2, <2>4, NothingFollows, KeysQuiet
  <2> QED
    BY <2>3, <2>4
<1> QED
  BY <1>3, <1>4, <1>5, <1>6, <1>7, <1>8 DEF PerformEffect

LEMMA KeysAlways == Spec => [](HeldNeedsKey /\ ReleaseEndsItsOwnSession)
<1> DEFINE Inv == ControlInv /\ LoopInv /\ StoryInv /\ KeysInv
<1>1. Init => Inv
  <2>1. Init => KeysInv
    BY QueueSteps DEF Init, NewMachine, KeysInv, Waiting, Unlocked
  <2> QED
    BY <2>1, LoopStarts, ControlStarts
<1>2. Inv /\ [Next]_vars => Inv'
  <2> SUFFICES ASSUME Inv, [Next]_vars PROVE KeysInv'
    BY ControlStep, LoopStep
  <2>1. CASE UNCHANGED vars
    BY <2>1, KeysQuiet DEF vars, control
  <2> QED
    BY <2>1, KeysCommand, KeysTimer, KeysHandle, KeysAnswer, KeysEffect DEF Next
<1>3. Inv => HeldNeedsKey /\ ReleaseEndsItsOwnSession
  <2> SUFFICES ASSUME Inv, AtRest
               PROVE  /\ m.state = "RecordingHeld" => "Hold" \in keys.down \/ keys.holdUpDue
                      /\ keys.holdUpDue /\ m.state = "RecordingHeld" => keys.releasedIn = m.session
    BY DEF HeldNeedsKey, ReleaseEndsItsOwnSession
  <2>1. queue \notin {<<"HoldUp">>, <<"Lock">>}
    BY QueueSteps DEF AtRest
  <2> QED
    BY <2>1 DEF KeysInv, Waiting, Unlocked
<1> QED
  BY <1>1, <1>2, <1>3, PTL DEF Spec

\* Push to talk: between commands a recording that was not locked has its key down, or
\* the deferred release of the key is due, whatever other keys, buttons, API calls and
\* timers came in between.
THEOREM PushToTalk == Spec => []HeldNeedsKey
BY KeysAlways, PTL

\* A deferred release that is due while a recording is held was given during that very
\* recording: it never ends a later one.
THEOREM ReleaseIsItsOwn == Spec => []ReleaseEndsItsOwnSession
BY KeysAlways, PTL

-----------------------------------------------------------------------------
(* Nothing is left behind between commands                                  *)

\* The final requests, or replies, of an epoch.
Finals(q, e) == {i \in DOMAIN q : q[i].kind = "final" /\ q[i].epoch = e}
None(q, e) == Finals(q, e) = {}
One(q, e) == \E i : Finals(q, e) = {i}

LEMMA FinalsAppend ==
  ASSUME NEW S, NEW q \in Seq(S), NEW x, NEW e, x \in S
  PROVE  /\ x.kind = "final" /\ x.epoch = e /\ None(q, e) => One(Append(q, x), e)
         /\ ~(x.kind = "final" /\ x.epoch = e) =>
               /\ None(q, e) => None(Append(q, x), e)
               /\ One(q, e) => One(Append(q, x), e)
<1>1. /\ Len(q) \in Nat /\ DOMAIN q = 1..Len(q) /\ DOMAIN Append(q, x) = 1..(Len(q) + 1)
      /\ \A i \in DOMAIN q : Append(q, x)[i] = q[i]
      /\ Append(q, x)[Len(q) + 1] = x
  OBVIOUS
<1>2. CASE x.kind = "final" /\ x.epoch = e
  <2>1. Finals(Append(q, x), e) = Finals(q, e) \cup {Len(q) + 1}
    BY <1>1, <1>2 DEF Finals
  <2> QED
    BY <1>2, <2>1 DEF None, One
<1>3. CASE ~(x.kind = "final" /\ x.epoch = e)
  <2>1. Finals(Append(q, x), e) = Finals(q, e)
    BY <1>1, <1>3 DEF Finals
  <2> QED
    BY <1>3, <2>1 DEF None, One
<1> QED
  BY <1>2, <1>3

LEMMA FinalsTail ==
  ASSUME NEW S, NEW q \in Seq(S), q # << >>, NEW e
  PROVE  /\ None(q, e) => None(Tail(q), e)
         /\ Head(q).kind = "final" /\ Head(q).epoch = e =>
               ~None(q, e) /\ (One(q, e) => None(Tail(q), e))
         /\ ~(Head(q).kind = "final" /\ Head(q).epoch = e) /\ One(q, e) => One(Tail(q), e)
<1>1. /\ Len(q) \in Nat /\ Len(q) >= 1 /\ DOMAIN q = 1..Len(q) /\ DOMAIN Tail(q) = 1..(Len(q) - 1)
      /\ \A i \in DOMAIN Tail(q) : Tail(q)[i] = q[i + 1]
      /\ Head(q) = q[1] /\ 1 \in DOMAIN q
  OBVIOUS
<1>2. \A i \in DOMAIN Tail(q) : i + 1 \in DOMAIN q /\ (i \in Finals(Tail(q), e) <=> i + 1 \in Finals(q, e))
  BY <1>1 DEF Finals
<1>3. Finals(Tail(q), e) \subseteq DOMAIN Tail(q) /\ Finals(q, e) \subseteq DOMAIN q
  BY DEF Finals
<1>4. 1 \in Finals(q, e) <=> Head(q).kind = "final" /\ Head(q).epoch = e
  BY <1>1 DEF Finals
<1>5. None(q, e) => None(Tail(q), e)
  BY <1>2, <1>3 DEF None
<1>6. ASSUME 1 \in Finals(q, e), One(q, e) PROVE None(Tail(q), e)
  <2>1. Finals(q, e) = {1}
    BY <1>6 DEF One
  <2>2. \A i \in DOMAIN Tail(q) : i + 1 # 1
    BY <1>1
  <2> QED
    BY <1>2, <1>3, <2>1, <2>2 DEF None
<1>7. ASSUME 1 \notin Finals(q, e), One(q, e) PROVE One(Tail(q), e)
  <2>1. PICK i : Finals(q, e) = {i}
    BY <1>7 DEF One
  <2>2. i \in DOMAIN q /\ i # 1
    BY <1>3, <1>7, <2>1
  <2>3. i - 1 \in DOMAIN Tail(q) /\ (i - 1) + 1 = i
    BY <1>1, <2>2
  <2>4. \A j \in DOMAIN Tail(q) : j + 1 = i => j = i - 1
    BY <1>1, <2>2
  <2>5. Finals(Tail(q), e) = {i - 1}
    BY <1>2, <1>3, <2>1, <2>3, <2>4
  <2> QED
    BY <2>5 DEF One
<1> QED
  BY <1>4, <1>5, <1>6, <1>7 DEF None

Unasked(e) == None(asr, e) /\ None(replies, e)
Pending(e) == \/ One(asr, e) /\ None(replies, e)
              \/ None(asr, e) /\ One(replies, e)

Answered == queue # << >> /\ Head(queue) \in {"Failed", "Finalized"}

\* The session object is there from the start of the microphone to the release of its
\* resources; the microphone runs until the finalization stops it; and from the request
\* on a finalizing session has exactly one answer coming, or has it.
CleanInv ==
  /\ active # NoActive => preempt /\ active \in ActiveSession
  /\ m.state = "Starting" /\ effects # Opening =>
       \/ active # NoActive /\ active.capturing /\ queue = <<"CaptureStarted">>
       \/ active = NoActive /\ queue = <<"Failed">>
  /\ m.state \in Recording => active # NoActive /\ active.capturing
  /\ m.state = "Finalizing" => active # NoActive /\ (active.capturing <=> effects = Wrapping)
  /\ m.state = "Idle" /\ preempt => effects \in {Closing, Releasing}
  /\ m.state \in {"Cancelled", "Error"} /\ preempt => effects # << >>
  /\ active # NoActive =>
       /\ \/ m.state \in Recording \cup {"Starting"}
          \/ m.state = "Finalizing" /\ effects \in {Wrapping, Wrapped}
          => Unasked(active.epoch)
       /\ m.state = "Finalizing" /\ effects \notin {Wrapping, Wrapped} /\ ~Answered => Pending(active.epoch)

LEMMA AnswersAreTaken ==
  ASSUME NEW x, NEW event, NEW id,
         \/ x.state = "Starting" /\ event \in {"CaptureStarted", "Failed"}
         \/ x.state = "Finalizing" /\ event \in {"Finalized", "Failed"}
  PROVE  Handle(x, event, id).verdict = "accepted"
<1>1. \A y, todo : Accepted(y, todo).verdict = "accepted"
  BY DEF Accepted
<1>2. Failed(x).verdict = "accepted"
  BY <1>1 DEF Failed
<1>3. x.state = "Starting" => CaptureStarted(x).verdict = "accepted"
  BY <1>1 DEF CaptureStarted, BeginFinalize
<1>4. x.state = "Finalizing" => Finalized(x).verdict = "accepted"
  BY <1>1 DEF Finalized
<1> QED
  BY <1>2, <1>3, <1>4 DEF Handle

\* The machine moves, and the session object stays what it is.
LEMMA CleanHandle ==
  ASSUME ControlInv, LoopInv, CleanInv, HandleEvent PROVE CleanInv'
<1> DEFINE event == Head(queue)
<1>1. /\ effects = << >> /\ queue # << >> /\ queue' = Tail(queue)
      /\ UNCHANGED <<active, asr, replies, preempt>>
      /\ \E id \in Drawn(event) :
           LET out == Handle(m, event, id)
           IN  IF out.verdict = "accepted" THEN m' = out.m /\ effects' = out.effects
               ELSE UNCHANGED <<m, effects>>
  BY DEF HandleEvent, others
<1>2. m \in Machine /\ (m.state \in ActiveState => ~m.cancelRequested)
  BY DEF ControlInv, MachineInv
<1>3. Single(queue) \/ (Double(queue) /\ m.state = "Finalizing")
  <2>1. Single(<<"Delivered">>)
    BY DEF Single, Event
  <2>2. << >> \notin {Opening, Wrapping, Wrapped, Handing, Abandon, Dropping, Closing}
    BY EffectsDiffer
  <2> QED
    BY <1>1, <2>1, <2>2 DEF LoopInv, Plan, Recording
<1>4. /\ event \in Event
      /\ Single(queue) => queue = <<event>> /\ queue' = << >>
      /\ Double(queue) => event = "Failed"
  BY <1>1, <1>3, PlanNeverEmpty
<1>5. PICK id \in Drawn(event) :
        \/ /\ Handle(m, event, id).verdict = "accepted"
           /\ m' = Handle(m, event, id).m /\ effects' = Handle(m, event, id).effects
        \/ Handle(m, event, id).verdict # "accepted" /\ UNCHANGED <<m, effects>>
  BY <1>1
<1>6. id \in Named
  BY DEF Drawn, Named
<1>7. << >> \notin {Opening, Wrapping, Wrapped, Closing, Releasing} /\ Opening \notin {Wrapping, Wrapped}
  BY NextEffects, EffectsDiffer
<1>8. Unasked(active.epoch)' = Unasked(active.epoch) /\ Pending(active.epoch)' = Pending(active.epoch)
  BY <1>1 DEF Unasked, Pending
<1>9. /\ m.state = "Starting" => event \in {"CaptureStarted", "Failed"}
                                 /\ (event = "CaptureStarted" => active # NoActive /\ active.capturing)
      /\ Answered <=> event \in {"Failed", "Finalized"}
  BY <1>1, <1>7, QueueSteps DEF CleanInv, Answered
<1> HIDE DEF event
<1>10. CASE Handle(m, event, id).verdict # "accepted" /\ UNCHANGED <<m, effects>>
  <2>1. m.state # "Starting" /\ (m.state = "Finalizing" => ~Answered)
    BY <1>9, <1>10, AnswersAreTaken
  <2> QED
    BY <1>1, <1>8, <1>10, <2>1 DEF CleanInv
<1>11. CASE /\ Handle(m, event, id).verdict = "accepted"
            /\ m' = Handle(m, event, id).m /\ effects' = Handle(m, event, id).effects
  <2> DEFINE out == Handle(m, event, id)
  <2>1. Means(m, event, id, out)
    BY <1>2, <1>4, <1>6, <1>11, HandleMeans
  <2>2. m' = out.m /\ effects' = out.effects
    BY <1>11
  <2> HIDE DEF out
  <2>3. CASE m'.state \in {"Cancelled", "Error"} /\ effects' = Abandon
    <3>1. Abandon # << >>
      BY EffectsDiffer
    <3> QED
      BY <1>1, <2>3, <3>1 DEF CleanInv, Recording
  <2>4. CASE m'.state = "Idle" /\ effects' = Closing
    BY <1>1, <2>4 DEF CleanInv, Recording
  <2>5. CASE m'.state = "Idle" /\ m.state \in {"Cancelled", "Error"}
    BY <1>1, <2>5 DEF CleanInv, Recording
  <2>6. CASE m'.state = "Starting" /\ m.state = "Idle" /\ effects' = Opening
    <3>1. active = NoActive
      BY <1>1, <2>6 DEF LoopInv
    <3> QED
      BY <1>1, <2>6, <3>1 DEF CleanInv, Recording
  <2>7. CASE /\ m.state \in Recording \cup {"Starting"} /\ event \notin {"Cancel", "Failed"}
             /\ \/ m'.state \in Recording /\ effects' = Announcing
                \/ m'.state = "Finalizing" /\ effects' = Wrapping
    <3>1. active # NoActive /\ active.capturing /\ Unasked(active.epoch)
      BY <1>1, <1>7, <1>9, <2>7 DEF CleanInv
    <3> QED
      BY <1>1, <1>8, <2>7, <3>1 DEF CleanInv, Recording
  <2>8. CASE m'.state = "Delivering"
    BY <1>1, <2>8 DEF CleanInv, Recording
  <2> QED
    BY <1>9, <2>1, <2>2, <2>3, <2>4, <2>5, <2>6, <2>7, <2>8 DEF Means
<1> QED
  BY <1>5, <1>10, <1>11

LEMMA CleanInput ==
  ASSUME CleanInv, AtRest, NEW event, queue' = <<event>>,
         UNCHANGED <<m, effects, active, asr, replies, preempt>>
  PROVE  CleanInv'
<1>1. queue = << >> /\ effects = << >> /\ ~Answered
  BY DEF AtRest, Answered
<1>2. m.state # "Starting"
  BY <1>1, EffectsDiffer, QueueSteps DEF CleanInv
<1>3. Unasked(active.epoch)' = Unasked(active.epoch) /\ Pending(active.epoch)' = Pending(active.epoch)
  BY DEF Unasked, Pending
<1> QED
  BY <1>1, <1>2, <1>3 DEF CleanInv

LEMMA CleanQuiet ==
  ASSUME CleanInv, UNCHANGED <<m, queue, effects, active, asr, replies, preempt>> PROVE CleanInv'
<1>1. /\ Unasked(active.epoch)' = Unasked(active.epoch) /\ Pending(active.epoch)' = Pending(active.epoch)
      /\ Answered' = Answered
  BY DEF Unasked, Pending, Answered
<1> QED
  BY <1>1 DEF CleanInv

LEMMA CleanApply ==
  ASSUME CleanInv, NEW event, Apply(event), UNCHANGED <<active, asr, replies, preempt>> PROVE CleanInv'
BY CleanInput DEF Apply

LEMMA CleanCommand == ASSUME CleanInv, Command PROVE CleanInv'
<1>1. ASSUME NEW event \in Event, Ui(event) \/ \E s \in Sessions : ApiEnd(s, event) PROVE CleanInv'
  BY <1>1, CleanApply DEF Ui, ApiEnd, others
<1>2. CASE ApiStart \/ Lifecycle
  BY <1>2, CleanApply DEF ApiStart, Lifecycle, others
<1>3. ASSUME NEW action \in Keys, Press(action) PROVE CleanInv'
  BY <1>3, CleanApply DEF Press, others
<1>4. ASSUME NEW action \in Keys, Release(action) PROVE CleanInv'
  BY <1>4, CleanQuiet DEF Release, control, others
<1>5. CASE Shutdown
  BY <1>5, CleanInput DEF Shutdown, others
<1> QED
  BY <1>1, <1>2, <1>3, <1>4, <1>5 DEF Command

LEMMA CleanTick ==
  ASSUME ControlInv, CleanInv, NEW elapsed \in Elapsed, TickMachine(elapsed) PROVE CleanInv'
<1> DEFINE out == Tick(m, elapsed)
           warned == [m EXCEPT !.warned = TRUE]
           y == [m EXCEPT !.state = "Finalizing"]
<1>1. /\ queue = << >> /\ effects = << >> /\ out.verdict = "accepted" /\ m' = out.m
      /\ UNCHANGED <<queue, active, asr, replies, preempt>>
      /\ IF "WarnDurationLimit" \in {out.effects[i] : i \in DOMAIN out.effects}
         THEN UNCHANGED effects ELSE effects' = out.effects
  BY DEF TickMachine, AtRest, others
<1>2. m \in Machine
  BY DEF ControlInv, MachineInv
<1>3. m.state \in Recording /\ (out = Accepted(y, Wrapping) \/ out = Accepted(warned, <<"WarnDurationLimit">>))
  BY <1>1 DEF Tick, DurationLimit, BeginFinalize, Ignored, Accepted, Wrapping
<1>4. warned.state = m.state /\ y.state = "Finalizing"
  BY <1>2 DEF Machine
<1> HIDE DEF out, warned, y
<1>5. \/ m'.state = m.state /\ effects' = << >>
      \/ m'.state = "Finalizing" /\ effects' = Wrapping
  <2>1. CASE out = Accepted(warned, <<"WarnDurationLimit">>)
    <3>1. out.m = warned /\ out.effects = <<"WarnDurationLimit">>
      BY <2>1 DEF Accepted
    <3>2. "WarnDurationLimit" \in {out.effects[i] : i \in DOMAIN out.effects}
      BY <3>1
    <3> QED
      BY <1>1, <1>4, <3>1, <3>2
  <2>2. CASE out = Accepted(y, Wrapping)
    <3>1. out.m = y /\ out.effects = Wrapping
      BY <2>2 DEF Accepted
    <3>2. "WarnDurationLimit" \notin {out.effects[i] : i \in DOMAIN out.effects}
      BY <3>1 DEF Wrapping
    <3> QED
      BY <1>1, <1>4, <3>1, <3>2
  <2> QED
    BY <1>3, <2>1, <2>2
<1>6. Unasked(active.epoch)' = Unasked(active.epoch) /\ Pending(active.epoch)' = Pending(active.epoch)
  BY <1>1 DEF Unasked, Pending
<1> QED
  BY <1>1, <1>3, <1>5, <1>6 DEF CleanInv, Recording

\* A session object that changes only in what the recognizer tells of it.
LEMMA SameObject ==
  ASSUME CleanInv, ActiveInv, active # NoActive,
         NEW text \in {NoText, Silence, active.session}, NEW pass \in BOOLEAN,
         active' = [active EXCEPT !.text = text] \/ active' = [active EXCEPT !.partialInFlight = pass]
  PROVE  /\ active' \in ActiveSession /\ active' # NoActive /\ active'.epoch = active.epoch
         /\ active'.session = active.session /\ active'.capturing = active.capturing
<1>1. active \in ActiveSession /\ text \in Text
  BY DEF CleanInv, ActiveSession, Text
<1>2. /\ active' \in ActiveSession /\ active'.epoch = active.epoch
      /\ active'.session = active.session /\ active'.capturing = active.capturing
  BY <1>1 DEF ActiveSession
<1> QED
  BY <1>2, NoActiveAssumption

LEMMA CleanTimer == ASSUME ControlInv, CleanInv, Timer PROVE CleanInv'
<1>1. CASE HoldUpDue \/ CaptureError \/ ErrorTimeout
  BY <1>1, CleanApply DEF HoldUpDue, CaptureError, ErrorTimeout, others
<1>2. CASE SchedulePartial
  <2> DEFINE request == [kind |-> "partial", epoch |-> active.epoch, of |-> active.session]
  <2>1. /\ UNCHANGED <<m, queue, effects, replies, preempt>> /\ active # NoActive
        /\ active' = [active EXCEPT !.partialInFlight = TRUE]
        /\ asr' = Append(asr, request)
    BY <1>2 DEF SchedulePartial, Capturing, control
  <2>2. /\ active' \in ActiveSession /\ active' # NoActive /\ active'.epoch = active.epoch
        /\ active'.capturing = active.capturing
    BY <2>1, SameObject DEF ControlInv
  <2>3. asr \in Seq(AnyRequest) /\ request \in AnyRequest /\ request.kind # "final"
    BY <2>1 DEF ControlInv, SpeechInv, ActiveInv, AnyActive, AnyRequest
  <2> HIDE DEF request
  <2>4. /\ None(asr, active.epoch) => None(asr', active.epoch)
        /\ One(asr, active.epoch) => One(asr', active.epoch)
    BY <2>1, <2>3, FinalsAppend
  <2>5. /\ Unasked(active.epoch) => Unasked(active.epoch)'
        /\ Pending(active.epoch) => Pending(active.epoch)'
        /\ Answered' = Answered
    BY <2>1, <2>2, <2>4 DEF Unasked, Pending, Answered
  <2> QED
    BY <2>1, <2>2, <2>5 DEF CleanInv
<1> QED
  BY <1>1, <1>2, CleanTick DEF Timer

\* A request becomes a reply, or a reply is read.
LEMMA CleanAnswer ==
  ASSUME ControlInv, CleanInv, Recognize \/ OnPartial \/ OnFinal PROVE CleanInv'
<1> DEFINE e == active.epoch
<1>1. asr \in Seq(AnyRequest) /\ replies \in Seq(AnyReply)
  BY DEF ControlInv, SpeechInv
<1>2. CASE Recognize
  <2>1. /\ UNCHANGED <<m, queue, effects, active, preempt>> /\ asr # << >> /\ asr' = Tail(asr)
        /\ \E text \in {Head(asr).of, Silence, NoText} :
             replies' = Append(replies, [kind |-> Head(asr).kind, epoch |-> Head(asr).epoch, text |-> text])
    BY <1>2 DEF Recognize, control
  <2>2. PICK text \in {Head(asr).of, Silence, NoText} :
          replies' = Append(replies, [kind |-> Head(asr).kind, epoch |-> Head(asr).epoch, text |-> text])
    BY <2>1
  <2> DEFINE r == [kind |-> Head(asr).kind, epoch |-> Head(asr).epoch, text |-> text]
  <2>3. Head(asr) \in AnyRequest
    BY <1>1, <2>1
  <2>4. r \in AnyReply /\ r.kind = Head(asr).kind /\ r.epoch = Head(asr).epoch
    BY <2>3 DEF AnyRequest, AnyReply
  <2>5. replies' = Append(replies, r)
    BY <2>2
  <2> HIDE DEF r
  <2>6. /\ None(asr, e) => None(asr', e)
        /\ r.kind = "final" /\ r.epoch = e => ~None(asr, e) /\ (One(asr, e) => None(asr', e))
        /\ ~(r.kind = "final" /\ r.epoch = e) /\ One(asr, e) => One(asr', e)
    BY <1>1, <2>1, <2>4, FinalsTail
  <2>7. /\ r.kind = "final" /\ r.epoch = e /\ None(replies, e) => One(replies', e)
        /\ ~(r.kind = "final" /\ r.epoch = e) =>
              /\ None(replies, e) => None(replies', e)
              /\ One(replies, e) => One(replies', e)
    BY <1>1, <2>4, <2>5, FinalsAppend
  <2>8. e' = e
    BY <2>1
  <2>9. /\ Unasked(e) => Unasked(e)'
        /\ Pending(e) => Pending(e)'
        /\ Answered' = Answered
    BY <2>1, <2>6, <2>7, <2>8 DEF Unasked, Pending, Answered
  <2> QED
    BY <2>1, <2>9 DEF CleanInv
<1>3. CASE OnPartial
  <2>1. /\ UNCHANGED <<m, queue, effects, asr, preempt>> /\ replies # << >> /\ replies' = Tail(replies)
        /\ Head(replies).kind # "final"
        /\ \/ UNCHANGED active
           \/ active # NoActive /\ active' = [active EXCEPT !.partialInFlight = FALSE]
    BY <1>3 DEF OnPartial, control
  <2>2. \/ UNCHANGED active
        \/ /\ active # NoActive /\ active' \in ActiveSession /\ active' # NoActive
           /\ active'.epoch = active.epoch /\ active'.capturing = active.capturing
    BY <2>1, SameObject DEF ControlInv
  <2>3. (None(replies, e) => None(replies', e)) /\ (One(replies, e) => One(replies', e))
    BY <1>1, <2>1, FinalsTail
  <2>4. /\ Unasked(e) => Unasked(e)'
        /\ Pending(e) => Pending(e)'
        /\ Answered' = Answered
    BY <2>1, <2>2, <2>3 DEF Unasked, Pending, Answered
  <2> QED
    BY <2>1, <2>2, <2>4 DEF CleanInv
<1>4. CASE OnFinal
  <2>1. /\ UNCHANGED <<m, effects, asr, preempt>> /\ AtRest /\ replies # << >> /\ replies' = Tail(replies)
        /\ Head(replies).kind = "final"
        /\ IF Awaited(Head(replies))
           THEN /\ queue' \in {<<"Failed">>, <<"Finalized">>}
                /\ active' = [active EXCEPT !.text = Head(replies).text]
           ELSE UNCHANGED <<queue, active>>
    BY <1>4 DEF OnFinal
  <2>2. CASE Awaited(Head(replies))
    <3>1. active # NoActive /\ m.state = "Finalizing" /\ Head(replies).epoch = active.epoch
      BY <2>2 DEF Awaited
    <3>2. Head(replies).text \in {NoText, Silence, active.session}
      <4>1. 1 \in DOMAIN replies /\ Head(replies) = replies[1]
        BY <1>1, <2>1
      <4> QED
        BY <2>1, <3>1, <4>1 DEF ControlInv, SpeechInv
    <3>3. /\ active' \in ActiveSession /\ active' # NoActive /\ active'.capturing = active.capturing
      BY <2>1, <2>2, <3>1, <3>2, SameObject DEF ControlInv
    <3>4. Answered'
      <4>1. \A event \in {"Failed", "Finalized"} : <<event>> # << >> /\ Head(<<event>>) = event
        BY QueueSteps
      <4> QED
        BY <2>1, <2>2, <4>1 DEF Answered
    <3>5. effects = << >> /\ effects' = << >>
      BY <2>1 DEF AtRest
    <3>6. << >> \notin {Wrapping, Wrapped}
      BY EffectsDiffer
    <3> QED
      BY <2>1, <3>1, <3>3, <3>4, <3>5, <3>6 DEF CleanInv, Recording
  <2>3. CASE ~Awaited(Head(replies))
    <3>1. UNCHANGED <<queue, active>>
      BY <2>1, <2>3
    <3>2. /\ None(replies, e) => None(replies', e)
          /\ Head(replies).epoch # e /\ One(replies, e) => One(replies', e)
      BY <1>1, <2>1, FinalsTail
    <3>3. active # NoActive /\ m.state = "Finalizing" => Head(replies).epoch # e
      BY <2>3 DEF Awaited
    <3>4. /\ Unasked(e) => Unasked(e)'
          /\ Head(replies).epoch # e /\ Pending(e) => Pending(e)'
          /\ Answered' = Answered
      BY <2>1, <3>1, <3>2 DEF Unasked, Pending, Answered
    <3> QED
      BY <2>1, <3>1, <3>3, <3>4 DEF CleanInv
  <2> QED
    BY <2>2, <2>3
<1> QED
  BY <1>2, <1>3, <1>4

\* Only the session that is finalized asks for its transcript, once.
LEMMA CleanEffect ==
  ASSUME ControlInv, LoopInv, CleanInv, PerformEffect PROVE CleanInv'
<1> USE DEF Perform
<1>1. Plan(m.state, effects, queue) /\ UNCHANGED m /\ effects # << >> /\ effects' = Tail(effects)
  BY DEF LoopInv, PerformEffect, StartCapture, StopCapture, FinalizeTranscript, DeliverText,
         DiscardSession, AnnounceState, ReleaseResources
<1>2. ASSUME m.state \in {"Cancelled", "Error"}, effects' # << >>,
             active' # NoActive => preempt' /\ active' \in ActiveSession
      PROVE  CleanInv'
  BY <1>1, <1>2 DEF CleanInv, Recording
<1>3. /\ Wrapping # Wrapped /\ Announcing \notin {Wrapping, Wrapped, Opening, Closing, Releasing}
      /\ << >> \notin {Wrapping, Wrapped, Opening, Dropping, Closing, Releasing}
  BY EffectsDiffer, NextEffects
<1>4. CASE StartCapture
  <2> DEFINE started == [session |-> m.session, epoch |-> epoch + 1, capturing |-> TRUE,
                         pcm |-> "none", partialInFlight |-> FALSE, text |-> NoText]
  <2>1. /\ Head(effects) = "StartCapture" /\ UNCHANGED <<asr, replies>> /\ preempt' = TRUE
        /\ \/ active' = started /\ queue' = queue \o <<"CaptureStarted">>
           \/ UNCHANGED active /\ queue' = queue \o <<"Failed">>
    BY <1>4 DEF StartCapture
  <2>2. effects = Opening /\ m.state = "Starting" /\ queue = << >> /\ effects' = Announcing
    BY <1>1, <2>1, EffectsPlanned, NextEffects
  <2>3. active = NoActive /\ m.session \in Sessions /\ epoch \in Nat
    BY <2>2 DEF LoopInv, ControlInv, MachineInv, SpeechInv, Machine
  <2>4. started \in ActiveSession /\ started.capturing /\ started.epoch = epoch + 1
    BY <2>3 DEF ActiveSession, Text, Pcm
  <2> HIDE DEF started
  <2>5. CASE active' = started /\ queue' = queue \o <<"CaptureStarted">>
    <3>1. started # NoActive /\ queue' = <<"CaptureStarted">>
      BY <2>2, <2>4, <2>5, NoActiveAssumption, QueueSteps
    <3>2. Finals(asr, epoch + 1) = {} /\ Finals(replies, epoch + 1) = {}
      <4>1. epoch + 1 \notin 1..epoch
        BY <2>3
      <4> QED
        BY <4>1 DEF Finals, ControlInv, SpeechInv
    <3>3. Unasked(active.epoch)'
      BY <2>1, <2>4, <2>5, <3>2 DEF Unasked, None
    <3> QED
      BY <1>1, <2>1, <2>2, <2>4, <2>5, <3>1, <3>3 DEF CleanInv, Recording
  <2>6. CASE UNCHANGED active /\ queue' = queue \o <<"Failed">>
    <3>1. queue' = <<"Failed">>
      BY <2>2, <2>6, QueueSteps
    <3> QED
      BY <1>1, <2>2, <2>3, <2>6, <3>1 DEF CleanInv, Recording
  <2> QED
    BY <2>1, <2>5, <2>6
<1>5. CASE StopCapture
  <2>1. /\ Head(effects) = "StopCapture" /\ UNCHANGED <<asr, replies, preempt>>
        /\ \/ UNCHANGED active /\ ~Capturing
           \/ /\ active # NoActive
              /\ \E pcm \in Pcm : active' = [active EXCEPT !.capturing = FALSE, !.pcm = pcm]
    BY <1>5 DEF StopCapture, Capturing, Pcm
  <2>2. \/ UNCHANGED active /\ ~Capturing
        \/ /\ active # NoActive /\ active' \in ActiveSession /\ active' # NoActive
           /\ active'.epoch = active.epoch /\ ~active'.capturing
    <3>1. ASSUME active # NoActive, NEW pcm \in Pcm,
                 active' = [active EXCEPT !.capturing = FALSE, !.pcm = pcm]
          PROVE  /\ active' \in ActiveSession /\ active' # NoActive
                 /\ active'.epoch = active.epoch /\ ~active'.capturing
      BY <3>1, NoActiveAssumption DEF CleanInv, ActiveSession
    <3> QED
      BY <2>1, <3>1
  <2>3. CASE m.state = "Finalizing"
    <3>1. effects = Wrapping /\ effects' = Wrapped
      BY <1>1, <2>1, <2>3, EffectsPlanned, NextEffects
    <3>2. active # NoActive /\ active.capturing /\ Unasked(active.epoch)
      BY <2>3, <3>1 DEF CleanInv
    <3>3. /\ active' \in ActiveSession /\ active' # NoActive
          /\ active'.epoch = active.epoch /\ ~active'.capturing
      BY <2>2, <3>2 DEF Capturing
    <3>4. Unasked(active.epoch)'
      BY <2>1, <3>2, <3>3 DEF Unasked
    <3> QED
      BY <1>1, <1>3, <2>1, <2>3, <3>1, <3>2, <3>3, <3>4 DEF CleanInv, Recording
  <2>4. CASE m.state # "Finalizing"
    <3>1. m.state \in {"Cancelled", "Error"} /\ effects' = Dropping
      BY <1>1, <2>1, <2>4, EffectsPlanned, NextEffects
    <3> QED
      BY <1>2, <1>3, <2>1, <2>2, <3>1 DEF CleanInv
  <2> QED
    BY <2>3, <2>4
<1>6. CASE FinalizeTranscript
  <2> DEFINE request == [kind |-> "final", epoch |-> active.epoch, of |-> active.session]
  <2>1. Head(effects) = "FinalizeTranscript" /\ UNCHANGED <<replies, preempt>>
    BY <1>6 DEF FinalizeTranscript
  <2>2. /\ effects = Wrapped /\ m.state = "Finalizing" /\ queue \in {<< >>, <<"Failed">>}
        /\ effects' = Announcing
    BY <1>1, <2>1, EffectsPlanned, NextEffects
  <2>3. active # NoActive /\ ~active.capturing /\ Unasked(active.epoch)
    BY <1>3, <2>2 DEF CleanInv
  <2>4. \/ /\ active' = [active EXCEPT !.text = Silence] /\ queue' = queue \o <<"Finalized">>
           /\ UNCHANGED asr
        \/ UNCHANGED active /\ asr' = Append(asr, request)
    BY <1>6, <2>3 DEF FinalizeTranscript
  <2>5. /\ request.kind = "final" /\ request.epoch = active.epoch /\ request \in AnyRequest
    BY <2>3 DEF ControlInv, ActiveInv, AnyActive, AnyRequest
  <2> HIDE DEF request
  <2>6. CASE /\ active' = [active EXCEPT !.text = Silence] /\ queue' = queue \o <<"Finalized">>
             /\ UNCHANGED asr
    <3>1. active' \in ActiveSession /\ active' # NoActive /\ active'.capturing = active.capturing
      BY <2>3, <2>6, SameObject DEF ControlInv
    <3>2. queue' \in {<<"Finalized">>, <<"Failed", "Finalized">>}
      BY <2>2, <2>6, QueueSteps
    <3>3. Answered'
      <4>1. /\ <<"Finalized">> # << >> /\ Head(<<"Finalized">>) = "Finalized"
            /\ <<"Failed", "Finalized">> # << >> /\ Head(<<"Failed", "Finalized">>) = "Failed"
        BY QueueSteps
      <4> QED
        BY <3>2, <4>1 DEF Answered
    <3> QED
      BY <1>1, <1>3, <2>1, <2>2, <2>3, <3>1, <3>3 DEF CleanInv, Recording
  <2>7. CASE UNCHANGED active /\ asr' = Append(asr, request)
    <3>1. One(asr', active.epoch) /\ None(replies, active.epoch)
      BY <2>3, <2>5, <2>7, FinalsAppend DEF Unasked, ControlInv, SpeechInv
    <3>2. Pending(active.epoch)'
      BY <2>1, <2>7, <3>1 DEF Pending
    <3> QED
      BY <1>1, <1>3, <2>1, <2>2, <2>3, <2>7, <3>2 DEF CleanInv, Recording
  <2> QED
    BY <2>4, <2>6, <2>7
<1>7. CASE DeliverText
  <2>1. Head(effects) = "DeliverText" /\ UNCHANGED <<active, preempt>>
    BY <1>7 DEF DeliverText
  <2>2. m.state = "Delivering"
    BY <1>1, <2>1, EffectsPlanned
  <2> QED
    BY <1>1, <2>1, <2>2 DEF CleanInv, Recording
<1>8. CASE DiscardSession
  <2>1. /\ Head(effects) = "DiscardSession" /\ UNCHANGED preempt
        /\ \/ active = NoActive /\ UNCHANGED active
           \/ /\ active # NoActive
              /\ active' = [active EXCEPT !.pcm = "none", !.text = NoText, !.epoch = Discarded]
    BY <1>8 DEF DiscardSession
  <2>2. m.state \in {"Cancelled", "Error"} /\ effects' = Closing
    BY <1>1, <2>1, EffectsPlanned, NextEffects
  <2>3. active' # NoActive => preempt' /\ active' \in ActiveSession
    <3>1. active # NoActive => preempt' /\ active \in ActiveSession
      BY <2>1 DEF CleanInv
    <3>2. "none" \in Pcm /\ NoText \in Text /\ Discarded \in Nat
      BY DEF Pcm, Text, Discarded
    <3> QED
      BY <2>1, <3>1, <3>2 DEF ActiveSession
  <2> QED
    BY <1>2, <1>3, <2>2, <2>3
<1>9. CASE AnnounceState
  <2>1. /\ Head(effects) = "AnnounceState" /\ UNCHANGED <<active, asr, replies, preempt>>
        /\ queue' = queue \o (IF m.state = "Cancelled" THEN <<"Reset">> ELSE << >>)
    BY <1>9 DEF AnnounceState
  <2>2. CASE m.state \in {"Cancelled", "Error"}
    <3>1. effects' = Releasing
      BY <1>1, <2>1, <2>2, EffectsPlanned, NextEffects DEF Recording
    <3> QED
      BY <1>2, <1>3, <2>1, <2>2, <3>1 DEF CleanInv
  <2>3. CASE m.state = "Idle"
    <3>1. \/ effects = Closing /\ effects' = Releasing
          \/ effects = Announcing /\ effects' = << >>
      BY <1>1, <2>1, <2>3, EffectsPlanned, NextEffects DEF Recording
    <3> QED
      BY <1>1, <1>3, <2>1, <2>3, <3>1 DEF CleanInv, Recording
  <2>4. CASE m.state \notin {"Cancelled", "Error", "Idle"}
    <3>1. /\ effects = Announcing /\ effects' = << >> /\ (Single(queue) \/ Double(queue))
          /\ m.state \in Recording \cup {"Starting", "Finalizing"}
      BY <1>1, <2>1, <2>4, EffectsPlanned, NextEffects
    <3>2. queue' = queue
      BY <2>1, <2>4, <3>1, NothingFollows
    <3>3. /\ Unasked(active.epoch)' = Unasked(active.epoch)
          /\ Pending(active.epoch)' = Pending(active.epoch) /\ Answered' = Answered
      BY <2>1, <3>2 DEF Unasked, Pending, Answered
    <3> QED
      BY <1>1, <1>3, <2>1, <3>1, <3>2, <3>3 DEF CleanInv, Recording
  <2> QED
    BY <2>2, <2>3, <2>4
<1>10. CASE ReleaseResources
  <2>1. Head(effects) = "ReleaseResources" /\ active' = NoActive /\ preempt' = FALSE
    BY <1>10 DEF ReleaseResources
  <2>2. m.state \in {"Idle", "Cancelled", "Error"}
    BY <1>1, <2>1, EffectsPlanned
  <2> QED
    BY <1>1, <2>1, <2>2 DEF CleanInv, Recording
<1> QED
  BY <1>4, <1>5, <1>6, <1>7, <1>8, <1>9, <1>10 DEF PerformEffect

\* Between commands nothing is left behind: the session object, the microphone and the
\* hold on background work last exactly as long as the machine records or finalizes, and
\* a finalizing session has exactly one request or reply under way.
THEOREM CleanAtRest == Spec => []RestIsClean
<1> DEFINE Inv == ControlInv /\ LoopInv /\ StoryInv /\ CleanInv
<1>1. Init => Inv
  <2>1. Init => CleanInv
    BY DEF Init, NewMachine, CleanInv, Recording
  <2> QED
    BY <2>1, LoopStarts, ControlStarts
<1>2. Inv /\ [Next]_vars => Inv'
  <2> SUFFICES ASSUME Inv, [Next]_vars PROVE CleanInv'
    BY ControlStep, LoopStep
  <2>1. CASE UNCHANGED vars
    BY <2>1, CleanQuiet DEF vars, control
  <2> QED
    BY <2>1, CleanCommand, CleanTimer, CleanHandle, CleanAnswer, CleanEffect DEF Next
<1>3. Inv => RestIsClean
  <2> SUFFICES ASSUME Inv, AtRest
               PROVE  /\ active # NoActive <=> m.state \in Recording \cup {"Finalizing"}
                      /\ active # NoActive => /\ active.session = m.session
                                              /\ active.capturing <=> m.state \in Recording
                      /\ preempt <=> active # NoActive
                      /\ m.state = "Finalizing" =>
                           Cardinality(Finals(asr, active.epoch)) + Cardinality(Finals(replies, active.epoch)) = 1
    BY DEF RestIsClean, Finals
  <2>1. queue = << >> /\ effects = << >> /\ ~Answered
    BY DEF AtRest, Answered
  <2>2. << >> \notin {Opening, Wrapping, Wrapped, Closing, Releasing}
    BY EffectsDiffer, NextEffects
  <2>3. m.state \in Recording \cup {"Idle", "Finalizing", "Cancelled", "Error"}
    <3>1. m.state \in State
      BY DEF ControlInv, MachineInv, Machine
    <3>2. m.state # "Starting"
      BY <2>1, <2>2, QueueSteps DEF CleanInv
    <3>3. m.state # "Delivering"
      BY <2>1, EffectsDiffer, QueueSteps DEF LoopInv, Plan, Recording
    <3> QED
      BY <3>1, <3>2, <3>3 DEF State, Recording
  <2>4. m.state \in {"Idle", "Cancelled", "Error"} => active = NoActive /\ ~preempt
    BY <2>1, <2>2 DEF LoopInv, CleanInv
  <2>5. /\ m.state \in Recording => active # NoActive /\ active.capturing
        /\ m.state = "Finalizing" => active # NoActive /\ ~active.capturing /\ Pending(active.epoch)
    BY <2>1, <2>2 DEF CleanInv
  <2>6. m.state = "Finalizing" =>
          Cardinality(Finals(asr, active.epoch)) + Cardinality(Finals(replies, active.epoch)) = 1
    <3>1. Cardinality({}) = 0 /\ \A i : Cardinality({i}) = 1
      BY FS_EmptySet, FS_Singleton
    <3>2. ASSUME NEW p, NEW q, None(p, active.epoch), One(q, active.epoch)
          PROVE  /\ Cardinality(Finals(p, active.epoch)) = 0
                 /\ Cardinality(Finals(q, active.epoch)) = 1
      BY <3>1, <3>2 DEF None, One
    <3> QED
      BY <2>5, <3>2 DEF Pending
  <2>7. active # NoActive => active.session = m.session /\ preempt
    BY <2>4 DEF LoopInv, CleanInv
  <2> QED
    BY <2>3, <2>4, <2>5, <2>6, <2>7 DEF Recording, ControlInv, MachineInv, CleanInv, ActiveSession
<1> QED
  BY <1>1, <1>2, <1>3, PTL DEF Spec
=============================================================================
