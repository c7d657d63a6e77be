----------------------------- MODULE WorkerPipe -----------------------------
(***************************************************************************)
(* A model worker and its host: PersistentWorker, the thread that reads    *)
(* the worker's output, and the worker's loop, with the pipes and the      *)
(* channel between them.  The worker is a process of its own that may      *)
(* answer late, answer nonsense or end at any time.  A request is named    *)
(* by its request_id.                                                      *)
(***************************************************************************)
EXTENDS Naturals, Sequences

CONSTANTS Buffer,     \* sync_channel
          MaxRequests \* bound: requests made

ASSUME PipeAssumption == Buffer \in Nat \ {0} /\ MaxRequests \in Nat

VARIABLES
  host,    \* where PersistentWorker is, with which request
  nextId,  \* next_request_id
  running, \* whether it holds a Running
  worker,  \* the process: where serve is, with which request
  input,   \* frames on the way to the worker
  output,  \* frames on the way to the reading thread
  channel, \* responses
  result   \* of the last request

pipeVars == <<host, nextId, running, worker, input, output, channel, result>>

\* A frame: the request it belongs to, and what it is.  "nonsense" stands for anything
\* that is not a frame with an answer; the end of the pipe reads as one.
Frame(kind, id) == [kind |-> kind, id |-> id]
AtRest == [pc |-> "rest", id |-> 0, audio |-> FALSE]
NoProcess == [pc |-> "none", id |-> 0]

PipeInit ==
  /\ host = AtRest /\ nextId = 1 /\ running = FALSE
  /\ worker = NoProcess /\ input = <<>> /\ output = <<>> /\ channel = <<>>
  /\ result = Frame("nothing", 0)

-----------------------------------------------------------------------------
HostAt(pc) == host.pc = pc
process == <<worker, input, output>>
WorkerUp == worker.pc \notin {"none", "ended"}

\* kill: the pipes and the channel go with the process.
Kill ==
  /\ running' = FALSE /\ worker' = NoProcess
  /\ input' = <<>> /\ output' = <<>> /\ channel' = <<>>

Fail == host' = AtRest /\ result' = Frame("error", host.id)

\* transcribe carries audio, classify does not.
Request(audio) ==
  /\ HostAt("rest") /\ nextId <= MaxRequests
  /\ nextId' = nextId + 1
  /\ host' = [pc |-> IF running THEN "control" ELSE "spawn", id |-> nextId, audio |-> audio]
  /\ UNCHANGED <<running, process, channel, result>>

\* spawn, and the worker loads its model.
Spawn ==
  /\ HostAt("spawn")
  /\ \/ /\ host' = [host EXCEPT !.pc = "ready"] /\ worker' = [pc |-> "loading", id |-> 0]
        /\ UNCHANGED result
     \/ Fail /\ UNCHANGED worker
  /\ UNCHANGED <<nextId, running, input, output, channel>>

\* The ready frame, or something else, or the timeout of the start.
Started ==
  /\ HostAt("ready")
  /\ \/ /\ channel # <<>> /\ Head(channel).kind = "ready"
        /\ channel' = Tail(channel) /\ running' = TRUE
        /\ host' = [host EXCEPT !.pc = "control"]
        /\ UNCHANGED <<process, result>>
     \/ Kill /\ Fail
  /\ UNCHANGED nextId

\* write_frame: a payload over the maximum, or a broken pipe.
WriteControl ==
  /\ HostAt("control")
  /\ \/ /\ input' = Append(input, Frame(IF host.audio THEN "transcribe" ELSE "classify", host.id))
        /\ host' = [host EXCEPT !.pc = IF host.audio THEN "audio" ELSE "wait"]
        /\ UNCHANGED <<running, worker, output, channel, result>>
     \/ Kill /\ Fail
  /\ UNCHANGED nextId

WriteAudio_Mut ==
  /\ HostAt("audio")
  /\ \/ /\ input' = Append(input, Frame("audio", host.id))
        /\ host' = [host EXCEPT !.pc = "wait"]
        /\ UNCHANGED <<running, worker, output, channel, result>>
     \/ Fail /\ UNCHANGED <<running, process, channel>>
  /\ UNCHANGED nextId
WriteAudio ==
  /\ HostAt("audio")
  /\ \/ /\ input' = Append(input, Frame("audio", host.id))
        /\ host' = [host EXCEPT !.pc = "wait"]
        /\ UNCHANGED <<running, worker, output, channel, result>>
     \/ Kill /\ Fail
  /\ UNCHANGED nextId

\* An answer to another request is ignored, anything but an answer ends the worker.
AwaitResponse ==
  /\ HostAt("wait") /\ channel # <<>>
  /\ CASE Head(channel) = Frame("answer", host.id) ->
            /\ host' = AtRest /\ result' = Head(channel) /\ channel' = Tail(channel)
            /\ UNCHANGED <<running, process>>
       [] Head(channel).kind = "answer" /\ Head(channel).id # host.id ->
            channel' = Tail(channel) /\ UNCHANGED <<host, result, running, process>>
       [] OTHER -> Kill /\ Fail
  /\ UNCHANGED nextId

TimeOut == HostAt("wait") /\ Kill /\ Fail /\ UNCHANGED nextId

\* AsrEngine.release and PrivacyEngine.release.
Release == HostAt("rest") /\ running /\ Kill /\ UNCHANGED <<host, nextId, result>>

-----------------------------------------------------------------------------
\* The reading thread ends at the first frame that is no control frame.
Forward ==
  /\ output # <<>> /\ Len(channel) < Buffer
  /\ channel' = Append(channel, Head(output))
  /\ output' = IF Head(output).kind = "nonsense" THEN <<>> ELSE Tail(output)
  /\ UNCHANGED <<host, nextId, running, worker, input, result>>

-----------------------------------------------------------------------------
(* serve *)
hosting == <<host, nextId, running, channel, result>>

AnnounceReady ==
  /\ worker.pc = "loading"
  /\ output' = Append(output, Frame("ready", 0))
  /\ worker' = [pc |-> "read", id |-> 0]
  /\ UNCHANGED <<hosting, input>>

ReadControl ==
  /\ worker.pc = "read" /\ input # <<>>
  /\ input' = Tail(input)
  /\ \E f \in {Head(input)} :
       CASE f.kind = "transcribe" -> worker' = [pc |-> "audio", id |-> f.id] /\ UNCHANGED output
         [] f.kind = "classify" -> worker' = [pc |-> "handle", id |-> f.id] /\ UNCHANGED output
         [] OTHER -> worker' = [pc |-> "ended", id |-> 0]
                     /\ output' = Append(output, Frame("nonsense", 0))
  /\ UNCHANGED hosting

ReadAudio ==
  /\ worker.pc = "audio" /\ input # <<>>
  /\ input' = Tail(input)
  /\ IF Head(input).kind = "audio"
     THEN worker' = [worker EXCEPT !.pc = "handle"] /\ UNCHANGED output
     ELSE worker' = [pc |-> "ended", id |-> 0]
          /\ output' = Append(output, Frame("nonsense", 0))
  /\ UNCHANGED hosting

\* A handler's error is an answer too.
Answer ==
  /\ worker.pc = "handle"
  /\ output' = Append(output, Frame("answer", worker.id))
  /\ worker' = [pc |-> "read", id |-> 0]
  /\ UNCHANGED <<hosting, input>>

\* The process ends by itself: it crashed, ran out of memory or could not load its model.
Crash ==
  /\ WorkerUp /\ worker' = [pc |-> "ended", id |-> 0]
  /\ output' = Append(output, Frame("nonsense", 0))
  /\ UNCHANGED <<hosting, input>>

PipeNext == \/ \E audio \in BOOLEAN : Request(audio)
            \/ Spawn \/ Started \/ WriteControl \/ WriteAudio \/ AwaitResponse \/ TimeOut \/ Release
            \/ Forward
            \/ AnnounceReady \/ ReadControl \/ ReadAudio \/ Answer \/ Crash

PipeSpec == PipeInit /\ [][PipeNext]_pipeVars

-----------------------------------------------------------------------------
Frames == [kind : {"transcribe", "classify", "audio", "ready", "answer", "nonsense"},
           id : 0..MaxRequests]

PipeTypeOK ==
  /\ host \in [pc : {"rest", "spawn", "ready", "control", "audio", "wait"},
               id : 0..MaxRequests, audio : BOOLEAN]
  /\ nextId \in 1..(MaxRequests + 1) /\ running \in BOOLEAN
  /\ worker \in [pc : {"none", "loading", "read", "audio", "handle", "ended"},
                 id : 0..MaxRequests]
  /\ input \in Seq(Frames) /\ output \in Seq(Frames) /\ channel \in Seq(Frames)
  /\ result \in [kind : {"nothing", "error", "answer"}, id : 0..MaxRequests]

\* "The process is killed in every error case so no half-finished request can answer a
\* later one": between two requests nothing is left of the earlier one, neither in the
\* pipes nor in the channel nor in the worker, which waits for a request or has ended.
PipeDrained ==
  HostAt("rest") =>
    IF running
    THEN /\ \A f \in {output[i] : i \in DOMAIN output} \cup {channel[i] : i \in DOMAIN channel} :
              f.kind = "nonsense"
         /\ input = <<>> /\ worker.pc \in {"read", "ended"}
    ELSE process = <<NoProcess, <<>>, <<>>>> /\ channel = <<>>
=============================================================================
