----------------------------- MODULE Coordinator -----------------------------
(***************************************************************************)
(* The completion-token coordinator and the training supervisor it hands   *)
(* sessions to.  Capture, transcription and insertion run outside: whoever *)
(* was given a token may report any completion with it, at any time and    *)
(* more than once.  A token is its epoch; the names of sessions need not   *)
(* differ.                                                                 *)
(***************************************************************************)
EXTENDS Naturals

CONSTANT MaxEpoch   \* bound: sessions started

ASSUME CoordinatorAssumption == MaxEpoch \in Nat

VARIABLES
  epoch,     \* CaptureCoordinator.next_epoch
  underway,  \* CaptureCoordinator.active
  returned,  \* tokens that delivery_completed returned, to seed training with
  training,  \* TrainingSupervisor.states
  course     \* epoch -> the call accepted last with its token

coordinatorVars == <<epoch, underway, returned, training, course>>

Epochs == 1..MaxEpoch
Free   == [token |-> 0, phase |-> "none"]

CoordinatorInit ==
  /\ epoch = 0 /\ underway = Free /\ returned = {}
  /\ training = [t \in Epochs |-> "none"] /\ course = [t \in Epochs |-> "none"]

\* A call accepted out of its order would leave a mark.
Order == {<<"none", "start">>, <<"start", "finalize">>, <<"finalize", "transcribe">>,
          <<"transcribe", "deliver">>, <<"start", "cancel">>, <<"finalize", "cancel">>,
          <<"transcribe", "cancel">>}
Took(t, call) ==
  course' = [course EXCEPT ![t] = IF <<@, call>> \in Order THEN call ELSE "outOfOrder"]

Reserve ==
  /\ underway = Free /\ epoch < MaxEpoch
  /\ epoch' = epoch + 1 /\ underway' = [token |-> epoch', phase |-> "Capturing"]
  /\ Took(epoch', "start") /\ UNCHANGED <<returned, training>>

\* current, current_mut: a completion of another epoch is stale.
Current_Mut(t) == underway # Free
Current(t) == underway # Free /\ underway.token = t

Proceed(t, from, to, call) ==
  /\ Current(t) /\ underway.phase = from
  /\ underway' = [underway EXCEPT !.phase = to]
  /\ Took(t, call) /\ UNCHANGED <<epoch, returned, training>>

BeginFinalization(t)     == Proceed(t, "Capturing", "Finalizing", "finalize")
FinalizationCompleted(t) == Proceed(t, "Finalizing", "Delivering", "transcribe")

DeliveryCompleted(t) ==
  /\ Current(t) /\ underway.phase = "Delivering"
  /\ underway' = Free /\ returned' = returned \cup {underway.token}
  /\ Took(t, "deliver") /\ UNCHANGED <<epoch, training>>

\* cancel, and fail, which is the same
CancelSession(t) ==
  /\ Current(t) /\ underway' = Free
  /\ Took(t, "cancel") /\ UNCHANGED <<epoch, returned, training>>

\* TrainingSupervisor::spawn: Pending under the lock, and the rest on a thread of
\* its own, with the work between two locks.
SpawnTraining(t) ==
  /\ t \in returned /\ returned' = returned \ {t}
  /\ training' = [training EXCEPT ![t] = "Pending"]
  /\ UNCHANGED <<epoch, underway, course>>

RunTraining(t) ==
  /\ training[t] = "Pending" /\ training' = [training EXCEPT ![t] = "Running"]
  /\ UNCHANGED <<epoch, underway, returned, course>>

EndTraining(t, terminal) ==
  /\ training[t] = "Running" /\ training' = [training EXCEPT ![t] = terminal]
  /\ UNCHANGED <<epoch, underway, returned, course>>

Report(t) == \/ BeginFinalization(t) \/ FinalizationCompleted(t)
             \/ DeliveryCompleted(t) \/ CancelSession(t)

CoordinatorNext ==
  \/ Reserve
  \/ \E t \in Epochs : \/ Report(t) \/ SpawnTraining(t) \/ RunTraining(t)
                       \/ \E terminal \in {"Eligible", "Rejected", "Failed"} : EndTraining(t, terminal)

CoordinatorSpec == CoordinatorInit /\ [][CoordinatorNext]_coordinatorVars

-----------------------------------------------------------------------------
\* Whatever completions come late, twice or for an epoch that is over, each
\* session takes its steps in order; training is seeded only with one that was
\* delivered and not cancelled, and no more than one session is under way
\* ("cancellation or replacement makes old completions stale. Training work is
\* produced only after delivery").
EpochsNeverMix ==
  /\ \A t \in Epochs :
       /\ course[t] # "outOfOrder"
       /\ t \in returned \/ training[t] # "none" => course[t] = "deliver"
  /\ \A t, u \in Epochs : t < u /\ course[u] # "none" => course[t] \in {"deliver", "cancel"}
=============================================================================
