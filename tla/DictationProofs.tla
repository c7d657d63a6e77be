-------------------------- MODULE DictationProofs ---------------------------
(***************************************************************************)
(* A dictation's way through the device: the tokens of the coordinator,    *)
(* for any number of sessions; where a dictation may go, for any targets,  *)
(* excluded applications and number of dictations; and that a recording is *)
(* whole, for any pair of rates, any size of the buffer and any sizes and  *)
(* number of packets.                                                      *)
(***************************************************************************)
EXTENDS Coordinator, Delivery, Capture, TLAPS

Calls == {"none", "start", "finalize", "transcribe", "deliver", "cancel"}
Job   == {"none", "Pending", "Running", "Eligible", "Rejected", "Failed"}

\* The inductive invariant: the session under way is that of the last epoch, and
\* the call accepted last is that of its phase; every earlier one is over and no
\* later one has begun.  EpochsNeverMix says nothing of the phase, which a
\* completion is checked against, and so is not inductive.
InPhase(phase, call) ==
  \/ phase = "Capturing"  /\ call = "start"
  \/ phase = "Finalizing" /\ call = "finalize"
  \/ phase = "Delivering" /\ call = "transcribe"
Begun ==
  /\ underway \in [token : 0..MaxEpoch, phase : {"none", "Capturing", "Finalizing", "Delivering"}]
  /\ underway # Free => /\ epoch > 0 /\ underway.token = epoch
                        /\ InPhase(underway.phase, course[epoch])
Ended ==
  \A t \in Epochs : /\ t > epoch => course[t] = "none"
                    /\ t <= epoch /\ t # underway.token => course[t] \in {"deliver", "cancel"}
Seeded ==
  \A t \in Epochs : t \in returned \/ training[t] # "none" => course[t] = "deliver"

CoordinatorInv ==
  /\ epoch \in 0..MaxEpoch /\ returned \subseteq Epochs
  /\ course \in [Epochs -> Calls] /\ training \in [Epochs -> Job]
  /\ Begun /\ Ended /\ Seeded

-----------------------------------------------------------------------------
\* CaptureCoordinator::default.
LEMMA CoordinatorStarts == CoordinatorInit => CoordinatorInv
BY CoordinatorAssumption
DEF CoordinatorInit, CoordinatorInv, Begun, Ended, Seeded, Epochs, Free, Calls, Job

\* An accepted call is the last one of its session and no other's.
LEMMA TookInOrder ==
  ASSUME CoordinatorInv, NEW t \in Epochs, NEW call \in Calls,
         <<course[t], call>> \in Order, Took(t, call)
  PROVE  /\ course' \in [Epochs -> Calls] /\ course'[t] = call
         /\ \A u \in Epochs \ {t} : course'[u] = course[u]
BY DEF CoordinatorInv, Took

\* Only the session under way has a token that is current.
LEMMA CurrentIsLast ==
  ASSUME CoordinatorInv, NEW t \in Epochs, Current(t)
  PROVE  t = epoch /\ InPhase(underway.phase, course[t])
BY DEF CoordinatorInv, Begun, Current

\* Every accepted call keeps the invariant, and a refused one changes nothing.
LEMMA CoordinatorSteps == CoordinatorInv /\ [CoordinatorNext]_coordinatorVars => CoordinatorInv'
<1> SUFFICES ASSUME CoordinatorInv, [CoordinatorNext]_coordinatorVars PROVE CoordinatorInv'
  OBVIOUS
<1>1. CASE Reserve
  <2>1. /\ epoch + 1 \in Epochs /\ epoch' = epoch + 1 /\ epoch \in Nat
        /\ course[epoch + 1] = "none" /\ Took(epoch + 1, "start")
    BY <1>1, CoordinatorAssumption DEF Reserve, CoordinatorInv, Ended, Epochs
  <2>2. /\ course' \in [Epochs -> Calls] /\ course'[epoch + 1] = "start"
        /\ \A u \in Epochs \ {epoch + 1} : course'[u] = course[u]
    <3>1. <<course[epoch + 1], "start">> \in Order /\ "start" \in Calls
      BY <2>1 DEF Order, Calls
    <3> QED
      BY <2>1, <3>1, TookInOrder
  <2>3. Begun'
    BY <1>1, <2>1, <2>2 DEF Reserve, Begun, Epochs, InPhase
  <2>4. Ended' /\ Seeded'
    BY <1>1, <2>1, <2>2 DEF Reserve, CoordinatorInv, Ended, Seeded, Epochs, Free
  <2> QED
    BY <1>1, <2>1, <2>2, <2>3, <2>4 DEF Reserve, CoordinatorInv, Epochs
<1>2. ASSUME NEW t \in Epochs, BeginFinalization(t) \/ FinalizationCompleted(t) PROVE CoordinatorInv'
  <2>1. PICK to \in {"Finalizing", "Delivering"}, call \in {"finalize", "transcribe"} :
          /\ Current(t) /\ InPhase(to, call) /\ <<course[t], call>> \in Order /\ Took(t, call)
          /\ underway' = [underway EXCEPT !.phase = to]
          /\ UNCHANGED <<epoch, returned, training>>
    BY <1>2, CurrentIsLast DEF BeginFinalization, FinalizationCompleted, Proceed, InPhase, Order
  <2>2. /\ course' \in [Epochs -> Calls] /\ course'[t] = call /\ t = epoch /\ underway.token = t
        /\ \A u \in Epochs \ {t} : course'[u] = course[u]
    BY <2>1, TookInOrder, CurrentIsLast DEF Calls, Current
  <2>3. Begun'
    BY <2>1, <2>2 DEF CoordinatorInv, Begun, Epochs, Free
  <2>4. Ended' /\ Seeded'
    BY <2>1, <2>2, CurrentIsLast DEF CoordinatorInv, Begun, Ended, Seeded, Epochs, InPhase
  <2> QED
    BY <2>1, <2>2, <2>3, <2>4 DEF CoordinatorInv
<1>3. ASSUME NEW t \in Epochs, DeliveryCompleted(t) \/ CancelSession(t) PROVE CoordinatorInv'
  <2>1. PICK call \in {"deliver", "cancel"} :
          /\ Current(t) /\ <<course[t], call>> \in Order /\ Took(t, call)
          /\ underway' = Free /\ UNCHANGED <<epoch, training>>
          /\ returned' = returned \/ (call = "deliver" /\ returned' = returned \cup {t})
    BY <1>3, CurrentIsLast DEF DeliveryCompleted, CancelSession, Current, InPhase, Order
  <2>2. /\ course' \in [Epochs -> Calls] /\ course'[t] = call /\ t = epoch /\ underway.token = t
        /\ \A u \in Epochs \ {t} : course'[u] = course[u]
    BY <2>1, TookInOrder, CurrentIsLast DEF Calls, Current
  <2>3. Begun'
    BY <2>1, CoordinatorAssumption DEF Begun, Free
  <2>4. Ended' /\ Seeded'
    BY <2>1, <2>2, CurrentIsLast DEF CoordinatorInv, Ended, Seeded, Epochs, InPhase, Free
  <2> QED
    BY <2>1, <2>2, <2>3, <2>4 DEF CoordinatorInv
<1>4. ASSUME NEW t \in Epochs, \/ SpawnTraining(t) \/ RunTraining(t)
                               \/ \E end \in {"Eligible", "Rejected", "Failed"} : EndTraining(t, end)
      PROVE  CoordinatorInv'
  <2>1. PICK state \in Job :
          /\ t \in returned \/ training[t] # "none"
          /\ training' = [training EXCEPT ![t] = state] /\ returned' \subseteq returned
          /\ UNCHANGED <<epoch, underway, course>>
    BY <1>4 DEF SpawnTraining, RunTraining, EndTraining, Job
  <2>2. Seeded'
    BY <2>1 DEF CoordinatorInv, Seeded
  <2> QED
    BY <2>1, <2>2 DEF CoordinatorInv, Begun, Ended
<1>5. CASE UNCHANGED coordinatorVars
  BY <1>5 DEF coordinatorVars, CoordinatorInv, Begun, Ended, Seeded
<1> QED
  BY <1>1, <1>2, <1>3, <1>4, <1>5 DEF CoordinatorNext, Report

\* "Cancellation or replacement makes old completions stale" and "training work
\* is produced only after delivery", for any number of sessions and completions
\* in any order.
THEOREM NoEpochsMix == CoordinatorSpec => []EpochsNeverMix
<1>1. CoordinatorInv => EpochsNeverMix
  <2> SUFFICES ASSUME CoordinatorInv PROVE EpochsNeverMix
    OBVIOUS
  <2>1. \A t \in Epochs : course[t] # "outOfOrder"
    BY DEF CoordinatorInv, Calls
  <2>2. \A t, u \in Epochs : t < u /\ course[u] # "none" => course[t] \in {"deliver", "cancel"}
    BY CoordinatorAssumption DEF CoordinatorInv, Begun, Ended, Epochs, Free
  <2> QED
    BY <2>1, <2>2 DEF CoordinatorInv, Seeded, EpochsNeverMix
<1> QED
  BY CoordinatorStarts, CoordinatorSteps, <1>1, PTL DEF CoordinatorSpec

-----------------------------------------------------------------------------
(* Where a dictation may go                                                 *)

\* The target looked at last is still the one with the focus: the very object
\* where objects are known, the window where only windows are.
Unmoved == /\ focus.app = now.from.app
           /\ now.from.field # "any" => focus = now.from

\* The inductive invariant: while text is about to go into a target, that target
\* was allowed, and it is unmoved unless the focus moved since the last look.
\* InsertedWhereStarted is about the past alone and says nothing of a delivery
\* between its look and its keys.
DeliveryInv ==
  /\ focus \in Targets /\ seen \in Targets \cup {Unknown}
  /\ now.pc \in {"insert", "type"} => now.from.app \notin Excluded /\ ~now.from.protected
  /\ now.pc = "type" /\ now.steady => Unmoved
  /\ now.pc = "insert" => now.from \in Targets
  /\ now = [pc |-> now.pc, text |-> now.text, from |-> now.from, fallback |-> now.fallback,
            previous |-> now.previous, steady |-> now.steady]
  /\ InsertedWhereStarted

-----------------------------------------------------------------------------
LEMMA DeliveryStarts == DeliveryInit => DeliveryInv
BY DEF DeliveryInit, DeliveryInv, HandedOver, InsertedWhereStarted

\* What focus reports is the object seen last, or the window that has the focus,
\* known by its application alone.
LEMMA ReportedTarget ==
  ASSUME DeliveryInv, Reported # Unknown
  PROVE  \/ Reported \in Targets
         \/ Reported.field = "any" /\ Reported.app = focus.app
<1>1. CASE backend \in {"x11", "wayland"} /\ seen # Unknown
  BY <1>1 DEF Reported, DeliveryInv
<1>2. CASE ~(backend \in {"x11", "wayland"} /\ seen # Unknown)
  <2>1. Reported = [focus EXCEPT !.field = "any", !.protected = FALSE]
    BY <1>2 DEF Reported
  <2> QED
    BY <2>1, DeliveryAssumption DEF DeliveryInv
<1> QED
  BY <1>1, <1>2

\* Nothing but a move, a look and an insertion matters to where text goes.
LEMMA ElsewhereKeepsInv ==
  ASSUME DeliveryInv, UNCHANGED <<focus, inserted>>,
         seen' \in Targets \cup {Unknown},
         now' = [pc |-> now'.pc, text |-> now'.text, from |-> now'.from, fallback |-> now'.fallback,
                 previous |-> now'.previous, steady |-> now'.steady],
         now' = now \/ now'.pc \notin {"insert", "type"}
  PROVE  DeliveryInv'
BY DEF DeliveryInv, InsertedWhereStarted, Unmoved

LEMMA DeliverySteps == DeliveryInv /\ [DeliveryNext]_deliveryVars => DeliveryInv'
<1> SUFFICES ASSUME DeliveryInv, [DeliveryNext]_deliveryVars PROVE DeliveryInv'
  OBVIOUS
<1>1. ASSUME NEW t \in Targets, Move(t) PROVE DeliveryInv'
  BY <1>1 DEF Move, DeliveryInv, InsertedWhereStarted
<1>2. CASE Notice
  BY <1>2, ElsewhereKeepsInv DEF Notice, rest, DeliveryInv
<1>3. ASSUME NEW what \in Copied, Copy(what) PROVE DeliveryInv'
  BY <1>3, ElsewhereKeepsInv DEF Copy, DeliveryInv
<1>4. ASSUME NEW works \in BOOLEAN, CopyResult(works) \/ DismissResult PROVE DeliveryInv'
  BY <1>4, ElsewhereKeepsInv DEF CopyResult, DismissResult, rest, DeliveryInv
<1>5. ASSUME NEW d \in Dictations, Begin(d) PROVE DeliveryInv'
  BY <1>5, ElsewhereKeepsInv DEF Begin, DeliveryInv, HandedOver
<1>6. ASSUME NEW automatic \in BOOLEAN, NEW disclosed \in BOOLEAN, Decide(automatic, disclosed)
      PROVE  DeliveryInv'
  <2>1. CASE automatic /\ Insertable(now.from, Reported)
    <3>1. /\ now.from = Reported /\ Reported # Unknown
          /\ now.from.app \notin Excluded /\ ~now.from.protected
      BY <2>1 DEF Insertable
    <3>2. /\ now'.pc = (IF now.from.field = "any" THEN "type" ELSE "insert")
          /\ now'.from = now.from /\ UNCHANGED <<focus, seen, inserted>>
          /\ now' = [pc |-> now'.pc, text |-> now'.text, from |-> now'.from,
                     fallback |-> now'.fallback, previous |-> now'.previous, steady |-> now'.steady]
      BY <1>6, <2>1 DEF Decide, rest, DeliveryInv
    <3> QED
      BY <3>1, <3>2, ReportedTarget, DeliveryAssumption DEF DeliveryInv, InsertedWhereStarted, Unmoved
  <2>2. CASE ~(automatic /\ Insertable(now.from, Reported))
    BY <1>6, <2>2, ElsewhereKeepsInv DEF Decide, ToPanel, HandedOver, rest, DeliveryInv
  <2> QED
    BY <2>1, <2>2
<1>7. ASSUME NEW takes \in BOOLEAN, InsertObject(takes) PROVE DeliveryInv'
  <2>1. CASE seen # now.from \/ focus # now.from
    BY <1>7, <2>1, ElsewhereKeepsInv DEF InsertObject, InsertionFailed, ToPanel, HandedOver, DeliveryInv
  <2>2. CASE ~(seen # now.from \/ focus # now.from) /\ (~now.from.editable \/ ~takes)
    BY <1>7, <2>2 DEF InsertObject, DeliveryInv, InsertedWhereStarted, Unmoved
  <2>3. CASE ~(seen # now.from \/ focus # now.from) /\ ~(~now.from.editable \/ ~takes)
    <3>1. Entered(now.from, "object") /\ UNCHANGED <<focus, seen, backend>>
      BY <1>7, <2>3 DEF InsertObject
    <3> QED
      BY <1>7, <3>1 DEF InsertObject, Entered, HandedOver, DeliveryInv, InsertedWhereStarted
  <2> QED
    BY <2>1, <2>2, <2>3
<1>8. ASSUME NEW works \in BOOLEAN, Type(works) PROVE DeliveryInv'
  <2>1. CASE works
    <3>1. Entered(focus, "keys") /\ UNCHANGED <<focus, seen, backend>> /\ now.pc = "type"
      BY <1>8, <2>1 DEF Type
    <3> QED
      BY <3>1 DEF Entered, HandedOver, DeliveryInv, InsertedWhereStarted, Unmoved
  <2>2. CASE ~works
    BY <1>8, <2>2, ElsewhereKeepsInv DEF Type, InsertionFailed, ToPanel, HandedOver, DeliveryInv
  <2> QED
    BY <2>1, <2>2
<1>9. ASSUME NEW works \in BOOLEAN, PlaceRead(works) \/ PlaceWrite(works) PROVE DeliveryInv'
  <2>1. CASE PlaceRead(works)
    <3>1. \/ now' = HandedOver
          \/ now' = [now EXCEPT !.pc = "write", !.previous = TextOf(board)]
      BY <2>1 DEF PlaceRead, ToPanel
    <3>2. UNCHANGED <<focus, seen, inserted>> /\ seen \in Targets \cup {Unknown}
      BY <2>1 DEF PlaceRead, ToPanel, rest, DeliveryInv
    <3>3. CASE now' = HandedOver
      BY <3>2, <3>3, ElsewhereKeepsInv DEF HandedOver
    <3>4. ASSUME NEW before, now' = [now EXCEPT !.pc = "write", !.previous = before]
          PROVE  DeliveryInv'
      <4>1. /\ now'.pc = "write"
            /\ now' = [pc |-> now'.pc, text |-> now'.text, from |-> now'.from,
                       fallback |-> now'.fallback, previous |-> now'.previous, steady |-> now'.steady]
        BY <3>4 DEF DeliveryInv
      <4> QED
        BY <3>2, <4>1, ElsewhereKeepsInv
    <3> QED
      BY <3>1, <3>3, <3>4
  <2>2. CASE PlaceWrite(works)
    <3>1. now' = HandedOver /\ UNCHANGED <<focus, seen, inserted>>
      BY <2>2 DEF PlaceWrite, ToPanel, rest
    <3> QED
      BY <3>1, ElsewhereKeepsInv DEF HandedOver, DeliveryInv
  <2> QED
    BY <1>9, <2>1, <2>2
<1>10. ASSUME NEW lease \in leases, RestoreLook(lease) \/ RestoreWrite(lease) PROVE DeliveryInv'
  BY <1>10, ElsewhereKeepsInv DEF RestoreLook, RestoreWrite, rest, DeliveryInv
<1>11. CASE UNCHANGED deliveryVars
  BY <1>11, ElsewhereKeepsInv DEF deliveryVars, DeliveryInv
<1> QED
  BY <1>1, <1>2, <1>3, <1>4, <1>5, <1>6, <1>7, <1>8, <1>9, <1>10, <1>11 DEF DeliveryNext

\* deliver and insert never put a dictation into another target than the one it
\* began in, an excluded application or a known password field, but for keys that
\* follow a focus that moved after the last look.
THEOREM InsertionStaysPut == DeliverySpec => []InsertedWhereStarted
<1>1. DeliveryInv => InsertedWhereStarted
  BY DEF DeliveryInv
<1> QED
  BY DeliveryStarts, DeliverySteps, <1>1, PTL DEF DeliverySpec

-----------------------------------------------------------------------------
(* A recording is whole                                                     *)

\* Quotient and remainder are what they are by their sum.
LEMMA QuotientUnique ==
  ASSUME NEW d \in Nat, d > 0, NEW q \in Nat, NEW r \in Nat, r < d
  PROVE  (d * q + r) \div d = q
<1> DEFINE x == d * q + r
           p == x \div d
           s == x % d
<1>1. x \in Nat
  OBVIOUS
<1>2. p \in Int /\ s \in 0..(d - 1) /\ x = d * p + s
  BY <1>1
<1> HIDE DEF x, p, s
<1>3. d * q + r = d * p + s
  BY <1>2 DEF x
<1>4. ~(p >= q + 1)
  <2> SUFFICES ASSUME p >= q + 1 PROVE FALSE
    OBVIOUS
  <2>1. PICK k \in Nat : p = q + 1 + k
    <3>1. p - q - 1 \in Nat
      BY <1>2
    <3> QED
      BY <1>2, <3>1
  <2>2. d * p = d * q + d + d * k /\ d * k >= 0
    BY <2>1
  <2> QED
    BY <1>2, <1>3, <2>2
<1>5. ~(q >= p + 1)
  <2> SUFFICES ASSUME q >= p + 1 PROVE FALSE
    OBVIOUS
  <2>1. PICK k \in Nat : q = p + 1 + k
    <3>1. q - p - 1 \in Nat
      BY <1>2
    <3> QED
      BY <1>2, <3>1
  <2>2. d * q = d * p + d + d * k /\ d * k >= 0
    BY <1>2, <2>1
  <2> QED
    BY <1>2, <1>3, <2>2
<1>6. p = q
  BY <1>2, <1>4, <1>5
<1> QED
  BY <1>6 DEF p, x

LEMMA DivisionSplits ==
  ASSUME NEW d \in Nat, d > 0, NEW x \in Nat, NEW p, NEW r, p = x \div d, r = x % d
  PROVE  p \in Nat /\ r \in 0..(d - 1) /\ d * p + r = x
<1>1. p \in Int /\ r \in 0..(d - 1)
  OBVIOUS
<1>2. x % d = x - d * (x \div d)
  OBVIOUS
<1>3. d * p + r = x
  BY <1>1, <1>2
<1>4. ~(p < 0)
  <2> SUFFICES ASSUME p < 0 PROVE FALSE
    OBVIOUS
  <2>1. PICK k \in Nat : p = -1 - k
    <3>1. -1 - p \in Nat
      BY <1>1
    <3> QED
      BY <1>1, <3>1
  <2>2. d * p = -d - d * k /\ d * k >= 0
    BY <2>1
  <2> QED
    BY <1>1, <1>3, <2>2
<1> QED
  BY <1>1, <1>3, <1>4

-----------------------------------------------------------------------------
\* What the running callback has converted and not yet appended.
Pending == IF callback = NotRunning THEN 0 ELSE callback

CaptureShape ==
  /\ buffer = [samples |-> buffer.samples, overflowed |-> buffer.overflowed]
  /\ buffer.samples \in Nat /\ buffer.samples <= MaximumSamples
  /\ device = [frames |-> device.frames, packets |-> device.packets, gap |-> device.gap]
  /\ device.frames \in Nat
  /\ callback \in Nat \cup {NotRunning}
  /\ converter \in 0..(SourceRate - 1)
  /\ pass = [from |-> pass.from, upto |-> pass.upto, taken |-> pass.taken]
  /\ pass.from \in Nat /\ pass.upto \in Nat /\ pass.taken \in Int

\* The inductive invariant: every frame the device handed over is in the buffer,
\* with the running callback or in the remainder of the converter, unless the buffer
\* overflowed; audio is lost only with an error on record; a pass asks for no more
\* than there is.  RecordingComplete is about the end alone.
CaptureInv ==
  /\ CaptureShape
  /\ ~buffer.overflowed =>
       SourceRate * (buffer.samples + Pending) + converter = device.frames * TargetRate
  /\ Running /\ device.gap => error # "none"
  /\ pass # NoPass => pass.upto <= buffer.samples
  /\ ~Running => callback = NotRunning
  /\ RecordingComplete

USE CaptureAssumption

LEMMA CaptureStarts == CaptureInit => CaptureInv
<1> SUFFICES ASSUME CaptureInit PROVE CaptureInv
  OBVIOUS
<1>1. CaptureShape
  BY DEF CaptureInit, CaptureShape, NoPass
<1>2. SourceRate * 0 = 0 /\ 0 * TargetRate = 0
  OBVIOUS
<1> QED
  BY <1>1, <1>2 DEF CaptureInit, CaptureInv, Pending, NotRunning, Running, NoPass, RecordingComplete

\* What only the live pass does leaves the recording alone.
LEMMA PassKeepsInv ==
  ASSUME CaptureInv, UNCHANGED <<buffer, converter, error, received, callback, device, outcome>>,
         pass' = [from |-> pass'.from, upto |-> pass'.upto, taken |-> pass'.taken],
         pass'.from \in Nat, pass'.upto \in Nat, pass'.taken \in Int,
         pass' # NoPass => pass'.upto <= buffer.samples,
         pass'.taken > 0 => pass'.from + pass'.taken >= pass'.upto
  PROVE  CaptureInv'
BY DEF CaptureInv, CaptureShape, Pending, Running, RecordingComplete

LEMMA CaptureSteps == CaptureInv /\ [CaptureNext]_captureVars => CaptureInv'
<1> SUFFICES ASSUME CaptureInv, [CaptureNext]_captureVars PROVE CaptureInv'
  OBVIOUS
<1>1. ASSUME NEW n \in 0..MaxPacket, Convert(n) PROVE CaptureInv'
  <2> DEFINE x == converter + n * TargetRate
  <2>1. x \in Nat /\ n \in Nat
    BY DEF CaptureInv, CaptureShape
  <2>2. /\ Running /\ callback = NotRunning
        /\ callback' = x \div SourceRate /\ converter' = x % SourceRate
        /\ device'.frames = device.frames + n /\ device'.gap = device.gap
        /\ device' = [frames |-> device'.frames, packets |-> device'.packets, gap |-> device'.gap]
        /\ UNCHANGED <<buffer, error, pass, outcome>>
    BY <1>1 DEF Convert, CaptureInv, CaptureShape
  <2>3. callback' \in Nat /\ converter' \in 0..(SourceRate - 1) /\ SourceRate * callback' + converter' = x
    BY <2>1, <2>2, DivisionSplits
  <2> HIDE DEF x
  <2>4. callback' \in Nat /\ converter' \in 0..(SourceRate - 1) /\ Pending' = callback' /\ Pending = 0
    BY <2>3, <2>2 DEF Pending, NotRunning
  <2>5. CaptureShape'
    BY <2>1, <2>2, <2>4 DEF CaptureInv, CaptureShape
  <2>6. ~buffer'.overflowed =>
          SourceRate * (buffer'.samples + Pending') + converter' = device'.frames * TargetRate
    <3> SUFFICES ASSUME ~buffer.overflowed
                 PROVE  SourceRate * (buffer.samples + callback') + converter'
                          = (device.frames + n) * TargetRate
      BY <2>2, <2>4
    <3>1. SourceRate * buffer.samples + converter = device.frames * TargetRate
      BY <2>4 DEF CaptureInv, CaptureShape
    <3>2. SourceRate * callback' + converter' = converter + n * TargetRate
      BY <2>3 DEF x
    <3>3. SourceRate * (buffer.samples + callback') = SourceRate * buffer.samples + SourceRate * callback'
      BY <2>4 DEF CaptureInv, CaptureShape
    <3>4. (device.frames + n) * TargetRate = device.frames * TargetRate + n * TargetRate
      BY <2>1 DEF CaptureInv, CaptureShape
    <3> HIDE DEF CaptureInv
    <3>5. /\ SourceRate * buffer.samples \in Int /\ SourceRate * callback' \in Int /\ converter' \in Int
          /\ converter \in Int /\ device.frames * TargetRate \in Int /\ n * TargetRate \in Int
      BY <2>1, <2>4 DEF CaptureInv, CaptureShape
    <3> QED
      BY <3>1, <3>2, <3>3, <3>4, <3>5
  <2> QED
    BY <2>2, <2>5, <2>6 DEF CaptureInv, Running, RecordingComplete
<1>2. CASE Push
  <2>1. /\ callback \in Nat /\ callback # NotRunning /\ callback' = NotRunning
        /\ UNCHANGED <<converter, received, device, pass, outcome>> /\ Running
    BY <1>2 DEF Push, CaptureInv, CaptureShape
  <2>2. Pending = callback /\ Pending' = 0
    BY <2>1 DEF Pending
  <2>3. CASE buffer.overflowed \/ callback > MaximumSamples - buffer.samples
    <3>1. /\ buffer' = [samples |-> buffer.samples, overflowed |-> TRUE]
          /\ error' # "none"
      BY <1>2, <2>3 DEF Push, RecordError, CaptureInv, CaptureShape
    <3> QED
      BY <2>1, <2>2, <3>1 DEF CaptureInv, CaptureShape, Running, RecordingComplete
  <2>4. CASE ~(buffer.overflowed \/ callback > MaximumSamples - buffer.samples)
    <3>1. /\ buffer' = [samples |-> buffer.samples + callback, overflowed |-> buffer.overflowed]
          /\ UNCHANGED error
      BY <1>2, <2>4 DEF Push, CaptureInv, CaptureShape
    <3>2. buffer'.samples + Pending' = buffer.samples + Pending
      BY <2>1, <2>2, <3>1 DEF CaptureInv, CaptureShape
    <3> QED
      BY <2>1, <2>2, <2>4, <3>1, <3>2 DEF CaptureInv, CaptureShape, Running, RecordingComplete
  <2> QED
    BY <2>3, <2>4
<1>3. ASSUME NEW kind \in {"realtime_denied", "xrun", "removed"}, StreamError(kind) PROVE CaptureInv'
  <2>1. /\ Running /\ UNCHANGED <<buffer, converter, received, callback, pass, outcome>>
        /\ device'.frames = device.frames
        /\ device' = [frames |-> device'.frames, packets |-> device'.packets, gap |-> device'.gap]
        /\ device'.gap => error' # "none"
    BY <1>3 DEF StreamError, Fatal, RecordError, CaptureInv, CaptureShape
  <2>2. UNCHANGED Pending
    BY <2>1 DEF Pending
  <2> QED
    BY <2>1, <2>2 DEF CaptureInv, CaptureShape, Running, RecordingComplete
<1>4. ASSUME NEW from \in 0..MaximumSamples, AskLength(from) PROVE CaptureInv'
  BY <1>4, PassKeepsInv DEF AskLength, CaptureInv, CaptureShape
<1>5. CASE TakeSnapshot
  BY <1>5, PassKeepsInv DEF TakeSnapshot, NoPass, CaptureInv, CaptureShape
<1>6. CASE EndPass
  BY <1>6, PassKeepsInv DEF EndPass, NoPass, CaptureInv, CaptureShape
<1>7. CASE EndCapture
  <2>1. /\ Running /\ callback = NotRunning /\ UNCHANGED <<buffer, converter, callback, device, pass>>
        /\ outcome' = IF error # "none" \/ buffer.overflowed THEN [kind |-> "failed", samples |-> 0]
                      ELSE [kind |-> "recorded", samples |-> buffer.samples]
    BY <1>7 DEF EndCapture
  <2>2. ~Running' /\ UNCHANGED Pending
    BY <2>1 DEF Running, Pending
  <2>3. outcome'.kind = "recorded" =>
          /\ outcome'.samples = (device.frames * TargetRate) \div SourceRate
          /\ outcome'.samples <= MaximumSamples /\ ~device.gap
    <3> SUFFICES ASSUME outcome'.kind = "recorded"
                 PROVE  /\ outcome'.samples = (device.frames * TargetRate) \div SourceRate
                        /\ outcome'.samples <= MaximumSamples /\ ~device.gap
      OBVIOUS
    <3>1. error = "none" /\ ~buffer.overflowed /\ outcome'.samples = buffer.samples
      BY <2>1
    <3>2. SourceRate * buffer.samples + converter = device.frames * TargetRate
      BY <2>1, <3>1 DEF CaptureInv, CaptureShape, Pending
    <3>3. buffer.samples = (device.frames * TargetRate) \div SourceRate
      <4>1. buffer.samples \in Nat /\ converter \in Nat /\ converter < SourceRate
        BY DEF CaptureInv, CaptureShape
      <4> QED
        BY <3>2, <4>1, QuotientUnique
    <3> QED
      BY <2>1, <3>1, <3>3 DEF CaptureInv, CaptureShape
  <2>4. CaptureShape'
    BY <2>1 DEF CaptureInv, CaptureShape
  <2> QED
    BY <2>1, <2>2, <2>3, <2>4 DEF CaptureInv, RecordingComplete
<1>8. CASE UNCHANGED captureVars
  BY <1>8, PassKeepsInv DEF captureVars, CaptureInv, CaptureShape, RecordingComplete
<1> QED
  BY <1>1, <1>2, <1>3, <1>4, <1>5, <1>6, <1>7, <1>8 DEF CaptureNext

\* What stop returns is all the device handed over, to the sample and without a gap.
THEOREM NothingLostInCapture == CaptureSpec => []RecordingComplete
<1>1. CaptureInv => RecordingComplete
  BY DEF CaptureInv
<1> QED
  BY CaptureStarts, CaptureSteps, <1>1, PTL DEF CaptureSpec
=============================================================================
