--------------------------- MODULE PersonalModel ----------------------------
(***************************************************************************)
(* Which recognition model runs: the personalized models on disk and the   *)
(* pointer to the active one, the background check that installs or        *)
(* removes what the server offers, the user's commands, and the speech     *)
(* thread, which builds its engine from what it finds when it gets to a    *)
(* request.  Background thread, main thread and speech thread share the    *)
(* files and the settings without a lock; the process may end anywhere.    *)
(***************************************************************************)
EXTENDS Naturals, Sequences

CONSTANTS Versions,  \* model_version of deliveries
          Bases,     \* settings.asr_model
          Custom,    \* the user's own weights among them
          BaseOf,    \* manifest.base_model_id
          MaxQueue,  \* bound: requests to the speech thread
          MaxChanges \* bound: offers, commands and ends of the program

ASSUME PersonalAssumption == BaseOf \in [Versions -> Bases] /\ Custom \in Bases /\ MaxQueue \in Nat

VARIABLES
  offer,   \* the server's latest delivery
  dir,     \* whether models/personal exists
  files,   \* what <version>.bin holds
  partial, \* the version in a whole .part file
  pointer, \* active.json
  choice,  \* settings.asr_model
  check,   \* check_personal_model on the background thread
  main,    \* delete_training_data on the main thread
  queue,   \* requests to the speech thread
  engine,  \* the model it has loaded
  stuck,   \* a deletion gave up half way, and no reload was asked for since
  changes  \* how much of MaxChanges is used up

disk == <<dir, files, partial, pointer>>
personalVars == <<offer, disk, choice, check, main, queue, engine, stuck, changes>>

NoPointer == [active |-> "none", previous |-> "none"]
NoCheck == [pc |-> "idle", version |-> "none", base |-> "none"]

PersonalInit ==
  /\ offer = "none" /\ dir = FALSE /\ files = [v \in Versions |-> "none"]
  /\ partial = "none" /\ pointer = NoPointer
  /\ choice \in Bases /\ check = NoCheck /\ main = "idle"
  /\ queue = <<>> /\ engine = "none" /\ stuck = FALSE /\ changes = 0

-----------------------------------------------------------------------------
Change == changes < MaxChanges /\ changes' = changes + 1

\* active: only if the file is there.
Active == IF pointer.active # "none" /\ files[pointer.active] # "none"
          THEN pointer.active ELSE "none"

\* build_engine
Chosen == IF Active # "none" /\ choice # Custom THEN Active ELSE choice

Ask(request) == Len(queue) < MaxQueue /\ queue' = Append(queue, request)
AskReload == Ask("reload") /\ stuck' = FALSE

CheckAt(pc) == check.pc = pc
CheckGoto(pc) == check' = [check EXCEPT !.pc = pc]
others == <<offer, choice, main, engine, changes>>

-----------------------------------------------------------------------------
(* check_personal_model.  The settings are read at the start.               *)
AskServer ==
  /\ CheckAt("idle") /\ Change
  /\ \/ /\ offer # "none"
        /\ check' = [pc |-> "compare", version |-> offer, base |-> choice]
     \/ offer = "none" /\ check' = [NoCheck EXCEPT !.pc = "gone"]
  /\ UNCHANGED <<offer, disk, choice, main, queue, engine, stuck>>

\* Installed already, not for this base, or not to be fetched any more; or a
\* verified artifact is on the way.
Compare ==
  /\ CheckAt("compare")
  /\ IF Active # check.version /\ BaseOf[check.version] = check.base /\ offer = check.version
     THEN CheckGoto("write") /\ dir' = TRUE
     ELSE check' = NoCheck /\ UNCHANGED dir
  /\ UNCHANGED <<others, files, partial, pointer, queue, stuck>>

WritePartial_Mut ==
  /\ CheckAt("write")
  /\ files' = [files EXCEPT ![check.version] = "torn"]
  /\ partial' = check.version
  /\ CheckGoto("rename")
  /\ UNCHANGED <<others, dir, pointer, queue, stuck>>
WritePartial ==
  /\ CheckAt("write")
  /\ IF dir THEN partial' = check.version /\ CheckGoto("rename")
            ELSE check' = NoCheck /\ UNCHANGED partial
  /\ UNCHANGED <<others, dir, files, pointer, queue, stuck>>

RenamePartial ==
  /\ CheckAt("rename")
  /\ IF partial = check.version
     THEN /\ files' = [files EXCEPT ![check.version] = "whole"]
          /\ partial' = "none" /\ CheckGoto("pointer")
     ELSE check' = NoCheck /\ UNCHANGED <<files, partial>>
  /\ UNCHANGED <<others, dir, pointer, queue, stuck>>

\* The pointer is replaced atomically, wherever its directory went.
WritePointer ==
  /\ CheckAt("pointer") /\ AskReload
  /\ dir' = TRUE
  /\ pointer' = [active |-> check.version, previous |-> pointer.active]
  /\ check' = NoCheck
  /\ UNCHANGED <<others, files, partial>>

\* The offer was revoked: delete_all, if there is something to delete.
RemoveRevoked ==
  /\ CheckAt("gone")
  /\ IF Active # "none"
     THEN /\ files' = [v \in Versions |-> "none"] /\ partial' = "none" /\ pointer' = NoPointer
          /\ CheckGoto("rmdir")
     ELSE check' = NoCheck /\ UNCHANGED <<files, partial, pointer>>
  /\ UNCHANGED <<others, dir, queue, stuck>>

Empty == pointer = NoPointer /\ partial = "none" /\ \A v \in Versions : files[v] = "none"

RemoveRevokedDir ==
  /\ CheckAt("rmdir")
  /\ IF Empty THEN dir' = FALSE /\ AskReload
              ELSE stuck' = TRUE /\ UNCHANGED <<dir, queue>>
  /\ check' = NoCheck
  /\ UNCHANGED <<others, files, partial, pointer>>

-----------------------------------------------------------------------------
(* delete_training_data and update_settings                                 *)
Background == <<offer, choice, check, engine>>

DeletePersonal ==
  /\ main = "idle" /\ Change
  /\ IF dir
     THEN /\ files' = [v \in Versions |-> "none"] /\ partial' = "none" /\ pointer' = NoPointer
          /\ main' = "rmdir"
     ELSE main' = "reload" /\ UNCHANGED <<files, partial, pointer>>
  /\ UNCHANGED <<Background, dir, queue, stuck>>

\* remove_dir_all fails if the directory has filled again.
DeleteDir ==
  /\ main = "rmdir"
  /\ IF Empty THEN dir' = FALSE /\ main' = "reload" /\ UNCHANGED stuck
              ELSE stuck' = TRUE /\ main' = "idle" /\ UNCHANGED dir
  /\ UNCHANGED <<Background, files, partial, pointer, queue, changes>>

ReloadAfterDelete_Mut ==
  /\ main = "reload" /\ main' = "idle"
  /\ UNCHANGED <<Background, disk, queue, stuck, changes>>
ReloadAfterDelete ==
  /\ main = "reload" /\ AskReload
  /\ main' = "idle"
  /\ UNCHANGED <<Background, disk, changes>>

\* update_settings, or the end of a custom installation on its own thread.
ChooseBase(base) ==
  /\ base # choice /\ Change /\ AskReload
  /\ choice' = base
  /\ UNCHANGED <<offer, disk, check, main, engine>>

-----------------------------------------------------------------------------
(* The speech thread.  A dictation and Warm load a model if there is none,  *)
(* which may fail; Release frees it.                                        *)
AskSpeech(request) ==
  /\ Change /\ Ask(request)
  /\ UNCHANGED <<offer, disk, choice, check, main, engine, stuck>>

Serve ==
  /\ queue # <<>> /\ queue' = Tail(queue)
  /\ engine' \in CASE Head(queue) = "release" -> {"none"}
                  [] Head(queue) = "ensure" /\ engine # "none" -> {engine}
                  [] OTHER -> {Chosen, "none"}
  /\ UNCHANGED <<offer, disk, choice, check, main, stuck, changes>>

-----------------------------------------------------------------------------
Offer(v) ==
  /\ Change /\ offer' = v
  /\ UNCHANGED <<disk, choice, check, main, queue, engine, stuck>>

EndOfProgram ==
  /\ Change
  /\ check' = NoCheck /\ main' = "idle" /\ queue' = <<>> /\ engine' = "none"
  /\ stuck' = FALSE
  /\ UNCHANGED <<offer, disk, choice>>

PersonalNext == \/ AskServer \/ Compare \/ WritePartial \/ RenamePartial \/ WritePointer
                \/ RemoveRevoked \/ RemoveRevokedDir
                \/ DeletePersonal \/ DeleteDir \/ ReloadAfterDelete
                \/ \E base \in Bases : ChooseBase(base)
                \/ \E request \in {"ensure", "release"} : AskSpeech(request)
                \/ \E v \in Versions \cup {"none"} : Offer(v)
                \/ Serve \/ EndOfProgram

PersonalSpec == PersonalInit /\ [][PersonalNext]_personalVars

-----------------------------------------------------------------------------
PersonalTypeOK ==
  /\ offer \in Versions \cup {"none"} /\ dir \in BOOLEAN
  /\ files \in [Versions -> {"none", "torn", "whole"}]
  /\ partial \in Versions \cup {"none"}
  /\ pointer \in [active : Versions \cup {"none"}, previous : Versions \cup {"none"}]
  /\ choice \in Bases
  /\ check \in [pc : {"idle", "compare", "write", "rename", "pointer", "gone", "rmdir"},
                version : Versions \cup {"none"}, base : Bases \cup {"none"}]
  /\ main \in {"idle", "rmdir", "reload"}
  /\ queue \in Seq({"ensure", "release", "reload"})
  /\ engine \in Versions \cup Bases \cup {"none"}
  /\ stuck \in BOOLEAN /\ changes \in 0..MaxChanges

\* "Model choice or personalized model changed" reaches the speech thread: once all
\* is at rest, the model that is loaded is the one the settings and the files say,
\* whatever was installed, revoked, deleted and chosen at the same time; in particular
\* a deleted model does not stay in memory, unless its deletion reported a failure.
\* And at any time a personalized model that may be loaded is whole ("before an atomic
\* install"), wherever its installation was interrupted, by the end of the program or
\* by the user's deletion.
EngineCurrent ==
  /\ check = NoCheck /\ main = "idle" /\ queue = <<>> /\ engine # "none" /\ ~stuck
       => engine = Chosen
  /\ Active # "none" => files[Active] = "whole"
=============================================================================
