----------------------------- MODULE MCServices -----------------------------
(***************************************************************************)
(* The parts that share no state with each other, checked in one run: a    *)
(* behaviour is one of a single part, chosen at the start, so that the     *)
(* state spaces add up instead of multiplying.                             *)
(***************************************************************************)
EXTENDS RecordingMachine, Pairing, EventStream, ModelFiles, PersonalModel, WorkerPipe,
        Captions, MCTrainingCopy, Capture, MCDelivery, Coordinator

VARIABLE component

vars == <<component, machineVars, pairingVars, streamVars, filesVars, personalVars, pipeVars,
          captionVars, copyVars, captureVars, deliveryVars, coordinatorVars>>

ATarget     == CHOOSE t \in Targets : t.reports
ATranscript == CHOOSE s \in Transcripts : TRUE

\* A part that may start in several ways does so only where it is the one that runs.
Init ==
  /\ component \in {"machine", "pairing", "stream", "files", "personal", "pipe",
                    "captions", "copy", "capture", "delivery", "coordinator"}
  /\ MachineInit /\ PairingInit /\ StreamInit /\ FilesInit /\ PersonalInit /\ PipeInit
  /\ CaptionsInit /\ CaptureInit /\ DeliveryInit /\ CoordinatorInit
  /\ component # "personal" => choice = Custom
  /\ component # "delivery" => backend = "macos" /\ focus = ATarget /\ board = Nothing
  /\ \E s \in (IF component = "copy" THEN Transcripts ELSE {ATranscript}) : CopyInit(s)

MachinePart ==
  /\ component = "machine" /\ MachineNext /\ UNCHANGED component
  /\ UNCHANGED <<pairingVars, streamVars, filesVars, personalVars, pipeVars,
                 captionVars, copyVars, captureVars, deliveryVars, coordinatorVars>>
PairingPart ==
  /\ component = "pairing" /\ PairingNext /\ UNCHANGED component
  /\ UNCHANGED <<machineVars, streamVars, filesVars, personalVars, pipeVars,
                 captionVars, copyVars, captureVars, deliveryVars, coordinatorVars>>
StreamPart ==
  /\ component = "stream" /\ StreamNext /\ UNCHANGED component
  /\ UNCHANGED <<machineVars, pairingVars, filesVars, personalVars, pipeVars,
                 captionVars, copyVars, captureVars, deliveryVars, coordinatorVars>>
FilesPart ==
  /\ component = "files" /\ FilesNext /\ UNCHANGED component
  /\ UNCHANGED <<machineVars, pairingVars, streamVars, personalVars, pipeVars,
                 captionVars, copyVars, captureVars, deliveryVars, coordinatorVars>>
PersonalPart ==
  /\ component = "personal" /\ PersonalNext /\ UNCHANGED component
  /\ UNCHANGED <<machineVars, pairingVars, streamVars, filesVars, pipeVars,
                 captionVars, copyVars, captureVars, deliveryVars, coordinatorVars>>
PipePart ==
  /\ component = "pipe" /\ PipeNext /\ UNCHANGED component
  /\ UNCHANGED <<machineVars, pairingVars, streamVars, filesVars, personalVars,
                 captionVars, copyVars, captureVars, deliveryVars, coordinatorVars>>
CaptionsPart ==
  /\ component = "captions" /\ CaptionsNext /\ UNCHANGED component
  /\ UNCHANGED <<machineVars, pairingVars, streamVars, filesVars, personalVars,
                 pipeVars, copyVars, captureVars, deliveryVars, coordinatorVars>>
CopyPart ==
  /\ component = "copy" /\ CopyNext /\ UNCHANGED component
  /\ UNCHANGED <<machineVars, pairingVars, streamVars, filesVars, personalVars,
                 pipeVars, captionVars, captureVars, deliveryVars, coordinatorVars>>
CapturePart ==
  /\ component = "capture" /\ CaptureNext /\ UNCHANGED component
  /\ UNCHANGED <<machineVars, pairingVars, streamVars, filesVars, personalVars,
                 pipeVars, captionVars, copyVars, deliveryVars, coordinatorVars>>
DeliveryPart ==
  /\ component = "delivery" /\ DeliveryNext /\ UNCHANGED component
  /\ UNCHANGED <<machineVars, pairingVars, streamVars, filesVars, personalVars,
                 pipeVars, captionVars, copyVars, captureVars, coordinatorVars>>
CoordinatorPart ==
  /\ component = "coordinator" /\ CoordinatorNext /\ UNCHANGED component
  /\ UNCHANGED <<machineVars, pairingVars, streamVars, filesVars, personalVars,
                 pipeVars, captionVars, copyVars, captureVars, deliveryVars>>

Next == \/ MachinePart \/ PairingPart \/ StreamPart \/ FilesPart \/ PersonalPart
        \/ PipePart \/ CaptionsPart \/ CopyPart \/ CapturePart \/ DeliveryPart
        \/ CoordinatorPart

Spec == Init /\ [][Next]_vars

MCTexts == {<<>>, <<"a">>, <<"b">>}

\* The delivered model v1 is for the base b1, v2 for b2.
MCBaseOf == [v \in Versions |-> IF v = "v1" THEN "b1" ELSE "b2"]
=============================================================================
