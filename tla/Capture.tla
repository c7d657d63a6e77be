------------------------------- MODULE Capture -------------------------------
(***************************************************************************)
(* The microphone: the callbacks of the audio device on one side, which    *)
(* convert what they are given to the canonical rate and append it to a    *)
(* bounded buffer, and the controller on the other, which takes live       *)
(* passes from the buffer and stops it.  Of a sample only its place counts,*)
(* so a buffer is the number of samples in it.                             *)
(***************************************************************************)
EXTENDS Integers

CONSTANTS SourceRate, TargetRate,   \* of the device and of the program
          MaximumSamples,           \* PcmBuffer.maximum_samples
          MaxPacket, MaxPackets     \* bounds: frames of a callback, callbacks

ASSUME CaptureAssumption ==
  /\ {SourceRate, TargetRate, MaximumSamples, MaxPacket, MaxPackets} \subseteq Nat
  /\ SourceRate > 0 /\ TargetRate > 0

VARIABLES
  buffer,     \* PcmBuffer: samples and overflowed
  converter,  \* RateConverter.accumulator
  error,      \* runtime_error
  received,   \* received_audio: the callback has been given audio
  callback,   \* the samples a running data callback is about to append
  device,     \* what the device did: frames handed over, callbacks, audio lost since
  pass,       \* the live pass under way: where it begins and is said to end
  outcome     \* what stop returned

captureVars == <<buffer, converter, error, received, callback, device, pass, outcome>>

NotRunning == -1
NoPass  == [from |-> 0, upto |-> 0, taken |-> 0]
Running == outcome.kind = "none"

CaptureInit ==
  /\ buffer = [samples |-> 0, overflowed |-> FALSE]
  /\ converter = 0 /\ error = "none" /\ received = FALSE /\ callback = NotRunning
  /\ device = [frames |-> 0, packets |-> 0, gap |-> FALSE]
  /\ pass = NoPass /\ outcome = [kind |-> "none", samples |-> 0]

\* record_error keeps the first one.
RecordError(code) == error' = IF error = "none" THEN code ELSE error

\* The data callback, up to the lock: RateConverter.convert.
Convert(n) ==
  /\ Running /\ callback = NotRunning /\ device.packets < MaxPackets
  /\ received' = (received \/ n > 0)
  /\ callback' = (converter + n * TargetRate) \div SourceRate
  /\ converter' = (converter + n * TargetRate) % SourceRate
  /\ device' = [device EXCEPT !.frames = @ + n, !.packets = @ + 1]
  /\ UNCHANGED <<buffer, error, pass, outcome>>

\* PcmBuffer::push: the whole frame or none of it.
Push ==
  /\ callback # NotRunning /\ callback' = NotRunning
  /\ IF buffer.overflowed \/ callback > MaximumSamples - buffer.samples
     THEN buffer' = [buffer EXCEPT !.overflowed = TRUE] /\ RecordError("overflow")
     ELSE buffer' = [buffer EXCEPT !.samples = @ + callback] /\ UNCHANGED error
  /\ UNCHANGED <<converter, received, device, pass, outcome>>

\* fatal_stream_error
Fatal_Mut(kind) == kind \notin {"realtime_denied", "xrun"}
Fatal(kind) == kind # "realtime_denied" /\ ~(kind = "xrun" /\ ~received)

\* The error callback, beside the data callback.  An overrun loses audio of the
\* session once there is some.
StreamError(kind) ==
  /\ Running
  /\ IF Fatal(kind) THEN RecordError(kind) ELSE UNCHANGED error
  /\ device' = [device EXCEPT !.gap = @ \/ (kind # "realtime_denied" /\ received)]
  /\ UNCHANGED <<buffer, converter, received, callback, pass, outcome>>

\* schedule_partial asks for the length first and for the samples afterwards.
AskLength(from) ==
  /\ Running /\ pass = NoPass /\ from < buffer.samples
  /\ pass' = [from |-> from, upto |-> buffer.samples, taken |-> 0]
  /\ UNCHANGED <<buffer, converter, error, received, callback, device, outcome>>

\* snapshot_since
TakeSnapshot ==
  /\ Running /\ pass # NoPass /\ pass.taken = 0
  /\ pass' = IF error # "none" THEN NoPass ELSE [pass EXCEPT !.taken = buffer.samples - pass.from]
  /\ UNCHANGED <<buffer, converter, error, received, callback, device, outcome>>

EndPass ==
  /\ pass.taken > 0 /\ pass' = NoPass
  /\ UNCHANGED <<buffer, converter, error, received, callback, device, outcome>>

\* stop drops the stream, which ends its callbacks, and returns all or nothing.
EndCapture ==
  /\ Running /\ callback = NotRunning
  /\ error' = "none"
  /\ outcome' = IF error # "none" \/ buffer.overflowed THEN [kind |-> "failed", samples |-> 0]
                ELSE [kind |-> "recorded", samples |-> buffer.samples]
  /\ UNCHANGED <<buffer, converter, received, callback, device, pass>>

CaptureNext ==
  \/ \E n \in 0..MaxPacket : Convert(n)
  \/ \E kind \in {"realtime_denied", "xrun", "removed"} : StreamError(kind)
  \/ \E from \in 0..MaximumSamples : AskLength(from)
  \/ Push \/ TakeSnapshot \/ EndPass \/ EndCapture

CaptureSpec == CaptureInit /\ [][CaptureNext]_captureVars

-----------------------------------------------------------------------------
\* What a stopped recording holds is all the device handed over, at the canonical
\* rate to the sample however it came in packets, with no gap and no overflow in
\* it; and a live pass never has less audio than it is said to end with ("instead
\* of a partial recording", "samples are never silently dropped").
RecordingComplete ==
  /\ outcome.kind = "recorded" =>
       /\ outcome.samples = (device.frames * TargetRate) \div SourceRate
       /\ outcome.samples <= MaximumSamples /\ ~device.gap
  /\ pass.taken > 0 => pass.from + pass.taken >= pass.upto
=============================================================================
