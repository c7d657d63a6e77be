----------------------------- MODULE ModelFiles -----------------------------
(***************************************************************************)
(* Installation of recognition models: the download of a pinned model, the *)
(* import of its file, and the installation of the user's own weights.     *)
(* Commands run on the main thread; a download or custom installation then *)
(* goes on in a thread of its own, an import keeps the main thread.  All   *)
(* write a .part file, check what it holds, and rename it; the process may *)
(* end between any two steps.                                              *)
(*                                                                         *)
(* A file is what it holds: nothing, the Pin, one of the Customs (which    *)
(* names the file it goes to), or "torn", anything else.                   *)
(***************************************************************************)
EXTENDS Naturals

CONSTANTS Customs, Pin, Threads

VARIABLES
  active,   \* DOWNLOAD_ACTIVE
  cancel,   \* DOWNLOAD_CANCEL
  install,  \* the installation each thread is busy with
  part,     \* the .part files
  pinned,   \* the installed file of the pinned model
  customs,  \* custom-<checksum>.bin
  manifest  \* the checksum in custom-whisper.json

filesVars == <<active, cancel, install, part, pinned, customs, manifest>>

Contents == Customs \cup {Pin, "torn", "none"}
NoInstall == [pc |-> "idle", kind |-> "download", digest |-> "none"]

FilesInit ==
  /\ active = FALSE /\ cancel = FALSE
  /\ install = [t \in Threads |-> NoInstall]
  /\ part = [p \in {"pinned", "custom"} |-> "none"]
  /\ pinned = "none" /\ customs = [c \in Customs |-> "none"] /\ manifest = "none"

-----------------------------------------------------------------------------
PartOf(t) == IF install[t].kind = "custom" THEN "custom" ELSE "pinned"
In(t, pc) == install[t].pc = pc
Goto(t, pc) == install' = [install EXCEPT ![t].pc = pc]
MainIsFree == \A t \in Threads : In(t, "idle") \/ install[t].kind # "import"
installed == <<pinned, customs, manifest>>

\* The guard is dropped with the installation, however it ends.
End(t) == install' = [install EXCEPT ![t] = NoInstall] /\ active' = FALSE

\* begin_download, which install_model, import_model and install_custom_model call.
BeginInstall_Mut(t, kind) ==
  /\ MainIsFree /\ In(t, "idle")
  /\ active' = TRUE /\ cancel' = FALSE
  /\ install' = [install EXCEPT ![t] = [NoInstall EXCEPT !.pc = "create", !.kind = kind]]
  /\ UNCHANGED <<part, installed>>
BeginInstall(t, kind) ==
  /\ MainIsFree /\ In(t, "idle") /\ ~active
  /\ active' = TRUE /\ cancel' = FALSE
  /\ install' = [install EXCEPT ![t] = [NoInstall EXCEPT !.pc = "create", !.kind = kind]]
  /\ UNCHANGED <<part, installed>>

CancelDownload ==
  /\ MainIsFree /\ cancel' = TRUE
  /\ UNCHANGED <<active, install, part, installed>>

\* Not found, not HTTPS, not GGML, an import that is not the pin: nothing is written.
RefuseSource(t) ==
  /\ In(t, "create") /\ End(t)
  /\ UNCHANGED <<cancel, part, installed>>

CreatePart(t) ==
  /\ In(t, "create") /\ Goto(t, "fill")
  /\ part' = [part EXCEPT ![PartOf(t)] = "torn"]
  /\ UNCHANGED <<active, cancel, installed>>

\* The loop over the source: it ends with the source, which may be anything, with a
\* cancellation, with too many bytes, or with an error of the network, which leaves
\* a pinned model's .part.
FillPart(t) ==
  /\ In(t, "fill")
  /\ \E bytes \in Contents \ {"none"} :
       /\ install[t].kind = "custom" => bytes # Pin
       /\ part' = [part EXCEPT ![PartOf(t)] = bytes]
       /\ install' = [install EXCEPT ![t].pc = "verify", ![t].digest = bytes]
  /\ UNCHANGED <<active, cancel, installed>>

StopFilling(t) ==
  /\ In(t, "fill")
  /\ \/ /\ cancel /\ install[t].kind # "import" /\ End(t)
        /\ part' = [part EXCEPT ![PartOf(t)] = "none"]
     \/ /\ End(t)
        /\ \/ part' = [part EXCEPT ![PartOf(t)] = "none"]
           \/ install[t].kind # "custom" /\ UNCHANGED part
  /\ UNCHANGED <<cancel, installed>>

\* verify reads the pinned model's file again; the custom one was digested while it
\* was written and is compared with what the publisher says, if anything.
VerifyPart(t) ==
  /\ In(t, "verify")
  /\ \/ /\ IF install[t].kind = "custom" THEN install[t].digest \in Customs
                                         ELSE part["pinned"] = Pin
        /\ Goto(t, "rename")
        /\ UNCHANGED <<active, part>>
     \/ /\ install[t].kind = "custom" \/ part["pinned"] # Pin
        /\ End(t)
        /\ part' = [part EXCEPT ![PartOf(t)] = "none"]
  /\ UNCHANGED <<cancel, installed>>

RenamePart(t) ==
  /\ In(t, "rename")
  /\ part' = [part EXCEPT ![PartOf(t)] = "none"]
  /\ IF install[t].kind = "custom"
     THEN /\ customs' = [customs EXCEPT ![install[t].digest] = part["custom"]]
          /\ Goto(t, "manifest")
          /\ UNCHANGED <<active, pinned>>
     ELSE /\ pinned' = part["pinned"]
          /\ End(t)
          /\ UNCHANGED customs
  /\ UNCHANGED <<cancel, manifest>>

WriteManifest(t) ==
  /\ In(t, "manifest") /\ End(t)
  /\ manifest' = install[t].digest
  /\ UNCHANGED <<cancel, part, pinned, customs>>

\* The flags are statics: they are clear when the program starts again.
EndProgram ==
  /\ active' = FALSE /\ cancel' = FALSE
  /\ install' = [t \in Threads |-> NoInstall]
  /\ UNCHANGED <<part, installed>>

FilesNext == \/ CancelDownload \/ EndProgram
             \/ \E t \in Threads : \/ \E k \in {"download", "import", "custom"} : BeginInstall(t, k)
                                   \/ RefuseSource(t) \/ CreatePart(t) \/ FillPart(t)
                                   \/ StopFilling(t) \/ VerifyPart(t) \/ RenamePart(t)
                                   \/ WriteManifest(t)

FilesSpec == FilesInit /\ [][FilesNext]_filesVars

-----------------------------------------------------------------------------
FilesTypeOK ==
  /\ active \in BOOLEAN /\ cancel \in BOOLEAN
  /\ install \in [Threads -> [pc : {"idle", "create", "fill", "verify", "rename", "manifest"},
                              kind : {"download", "import", "custom"},
                              digest : Contents]]
  /\ part \in [{"pinned", "custom"} -> Contents]
  /\ pinned \in Contents /\ customs \in [Customs -> Contents] /\ manifest \in Contents

\* "Verifying size and checksum before an atomic rename": whatever sources were tried,
\* cancelled and cut short, an installed file is what it should be, and the custom
\* manifest names a file that is there.
InstalledVerified ==
  /\ pinned \in {"none", Pin}
  /\ \A c \in Customs : customs[c] \in {"none", c}
  /\ manifest # "none" => customs[manifest] = manifest

=============================================================================
