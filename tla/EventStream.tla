---------------------------- MODULE EventStream -----------------------------
(***************************************************************************)
(* The live events of the local API: the bounded bus, one client's event   *)
(* stream and what may happen to it, the revocation of its token and the   *)
(* end of the listener.  The stream runs on the API's runtime, events are  *)
(* published by the controller, commands run on the main thread.  The bus  *)
(* keeps the last Capacity events; a receiver that needs an older one is   *)
(* told that it lagged.  An event is the position at which it was          *)
(* published.                                                              *)
(***************************************************************************)
EXTENDS Naturals, Sequences

CONSTANTS Kinds, Permitted,  \* EventKind, and those in the client's scopes and wish
          Capacity,          \* of EventBus
          MaxPublished,      \* bound: events
          MaxRevocations     \* bound: revocations, of this client and of others

ASSUME StreamAssumption == /\ Permitted \subseteq Kinds
                           /\ {Capacity, MaxPublished, MaxRevocations} \subseteq Nat

VARIABLES
  published,   \* the kinds of the events sent so far
  row,         \* whether the client's row in api_clients stands
  revocations, \* Shared.revocations
  revoking,    \* revoke_client is between the row and the counter
  listener,    \* the API: on, closing or off
  stream,      \* the client's stream
  revokedAt    \* events published when the client's revocation was complete

streamVars == <<published, row, revocations, revoking, listener, stream, revokedAt>>

\* from: events published when it subscribed.  next: how far it has read.
NoStream == [pc |-> "none", from |-> 0, next |-> 0, generation |-> 0, heard |-> {},
             early |-> FALSE]
Never == MaxPublished + 1

StreamInit ==
  /\ published = <<>> /\ row = TRUE /\ revocations = 0 /\ revoking = FALSE
  /\ listener = "on" /\ stream = NoStream /\ revokedAt = Never

-----------------------------------------------------------------------------
Sent == Len(published)
Outside == <<published, row, revocations, revoking, listener, revokedAt>>

Publish(kind) ==
  /\ Sent < MaxPublished
  /\ published' = Append(published, kind)
  /\ UNCHANGED <<row, revocations, revoking, listener, stream, revokedAt>>

\* revoke_client: the row, then the counter.  Other clients are revoked as well.
RevokeClient ==
  /\ row /\ ~revoking /\ revocations < MaxRevocations
  /\ row' = FALSE /\ revoking' = TRUE
  /\ UNCHANGED <<published, revocations, listener, stream, revokedAt>>
BumpRevocations ==
  /\ revocations < MaxRevocations
  /\ revocations' = revocations + 1
  /\ \/ revoking /\ revoking' = FALSE /\ revokedAt' = Sent
     \/ ~revoking /\ UNCHANGED <<revoking, revokedAt>>
  /\ UNCHANGED <<published, row, listener, stream>>

-----------------------------------------------------------------------------
(* stream *)

\* The request is authenticated first; the stream begins after the upgrade.
Connect ==
  /\ listener = "on" /\ stream.pc = "none" /\ row
  /\ stream' = [NoStream EXCEPT !.pc = "upgrade"]
  /\ UNCHANGED Outside

Subscribe ==
  /\ stream.pc = "upgrade"
  /\ stream' = [stream EXCEPT !.pc = "open", !.from = Sent, !.next = Sent,
                              !.generation = revocations, !.early = revokedAt = Never]
  /\ UNCHANGED Outside

\* The token is checked again when the counter has moved.
Refused == revocations # stream.generation /\ ~row
Rechecked == [stream EXCEPT !.generation = revocations]
Closed == [stream EXCEPT !.pc = "closed"]

Lagged == Sent - stream.next > Capacity

Receive_MutLag ==
  /\ stream.pc = "open" /\ stream.next < Sent
  /\ stream' = IF Refused THEN Closed
               ELSE IF Lagged THEN [Rechecked EXCEPT !.next = Sent - Capacity]
               ELSE [Rechecked EXCEPT !.next = @ + 1,
                       !.pc = IF published[stream.next + 1] \in Permitted
                              THEN "sending" ELSE "open"]
  /\ UNCHANGED Outside
Receive_Mut ==
  /\ stream.pc = "open" /\ stream.next < Sent
  /\ stream' = IF Lagged THEN Closed
               ELSE [stream EXCEPT !.next = @ + 1,
                       !.pc = IF published[stream.next + 1] \in Permitted
                              THEN "sending" ELSE "open"]
  /\ UNCHANGED Outside
Receive ==
  /\ stream.pc = "open" /\ stream.next < Sent
  /\ stream' = IF Refused \/ Lagged THEN Closed
               ELSE [Rechecked EXCEPT !.next = @ + 1,
                       !.pc = IF published[stream.next + 1] \in Permitted
                              THEN "sending" ELSE "open"]
  /\ UNCHANGED Outside

\* A client that does not read holds the stream here, away from every other branch.
Send ==
  /\ stream.pc = "sending"
  /\ \/ stream' = [stream EXCEPT !.pc = "open", !.heard = @ \cup {stream.next}]
     \/ stream' = Closed
  /\ UNCHANGED Outside

\* The two-second timer.
CheckRevocation ==
  /\ stream.pc = "open" /\ revocations # stream.generation
  /\ stream' = IF Refused THEN Closed ELSE Rechecked
  /\ UNCHANGED Outside

\* The client leaves, or the listener is closing.
Leave == /\ stream.pc = "open" /\ stream' = Closed /\ UNCHANGED Outside

Reconnect == stream.pc = "closed" /\ stream' = NoStream /\ UNCHANGED Outside

-----------------------------------------------------------------------------
(* apply: stop signals the streams and waits for the runtime to end; a      *)
(* stream that has not ended by then ends with it.                          *)
StopListener ==
  /\ listener = "on" /\ listener' = "closing"
  /\ UNCHANGED <<published, row, revocations, revoking, stream, revokedAt>>
ListenerEnds ==
  /\ listener = "closing" /\ listener' = "off"
  /\ stream' = IF stream.pc = "none" THEN stream ELSE Closed
  /\ UNCHANGED <<published, row, revocations, revoking, revokedAt>>
StartListener ==
  /\ listener = "off" /\ listener' = "on"
  /\ UNCHANGED <<published, row, revocations, revoking, stream, revokedAt>>

StreamNext == \/ \E kind \in Kinds : Publish(kind)
              \/ RevokeClient \/ BumpRevocations
              \/ Connect \/ Subscribe \/ Receive \/ Send \/ CheckRevocation
              \/ Leave \/ Reconnect
              \/ StopListener \/ ListenerEnds \/ StartListener

StreamSpec == StreamInit /\ [][StreamNext]_streamVars

-----------------------------------------------------------------------------
StreamTypeOK ==
  /\ published \in Seq(Kinds) /\ Sent <= MaxPublished
  /\ row \in BOOLEAN /\ revoking \in BOOLEAN
  /\ revocations \in 0..MaxRevocations /\ revokedAt \in 0..Never
  /\ listener \in {"on", "closing", "off"}
  /\ stream \in [pc : {"none", "upgrade", "open", "sending", "closed"},
                 from : 0..MaxPublished, next : 0..MaxPublished,
                 generation : 0..MaxRevocations, heard : SUBSET (1..MaxPublished),
                 early : BOOLEAN]

\* "A subscriber that lags past capacity events is told to resynchronize and is
\* disconnected": a stream that goes on has missed nothing; the client has heard
\* every permitted event up to where the stream has read.
NothingMissed ==
  stream.pc \in {"open", "sending"} =>
    stream.heard = {i \in (stream.from + 1)..stream.next : published[i] \in Permitted}
                   \ (IF stream.pc = "sending" THEN {stream.next} ELSE {})

\* "Bumped on every revocation so open streams recheck their token": a stream that
\* had begun hears nothing that is published after its client's revocation.  One
\* whose request was authenticated before and which begins after it never learns.
RevokedHearsNothing ==
  stream.early => \A i \in stream.heard : i <= revokedAt
=============================================================================
