---------------------------- MODULE ModelProofs -----------------------------
(***************************************************************************)
(* Models and their workers: what stands installed is what it was verified *)
(* to be, for any weights of the user's own and any number of threads; the *)
(* engine is the model that was chosen, for any versions and bases; and    *)
(* nothing of a request is left in a worker's pipes, for any buffer and    *)
(* any number of requests.                                                 *)
(***************************************************************************)
EXTENDS ModelFiles, PersonalModel, WorkerPipe, SequenceTheorems, TLAPS

\* There is one installation at a time: the guard of begin_download.
OneInstall ==
  /\ \A t \in Threads : ~In(t, "idle") => active
  /\ \A t, u \in Threads : ~In(t, "idle") /\ ~In(u, "idle") => t = u

\* What a .part file is known to hold, from its verification to its rename.
VerifiedInHand ==
  \A t \in Threads :
    /\ install[t].kind = "custom" /\ install[t].pc \in {"verify", "rename"} =>
         install[t].digest = part["custom"]
    /\ install[t].kind = "custom" /\ In(t, "rename") => install[t].digest \in Customs
    /\ install[t].kind # "custom" /\ In(t, "rename") => part["pinned"] = Pin
    /\ In(t, "manifest") => /\ install[t].digest \in Customs
                            /\ customs[install[t].digest] = install[t].digest

\* The inductive invariant.  InstalledVerified alone is not one: it says nothing
\* of a verified file that another installation could still overwrite.
FilesInv == FilesTypeOK /\ OneInstall /\ VerifiedInHand /\ InstalledVerified

-----------------------------------------------------------------------------
LEMMA IdleIsTyped ==
  NoInstall \in [pc : {"idle", "create", "fill", "verify", "rename", "manifest"},
                 kind : {"download", "import", "custom"}, digest : Contents]
BY DEF NoInstall, Contents

LEMMA FilesStart == FilesInit => FilesInv
<1> SUFFICES ASSUME FilesInit PROVE FilesInv
  OBVIOUS
<1>1. FilesTypeOK
  BY IdleIsTyped DEF FilesInit, FilesTypeOK, Contents
<1>2. \A t \in Threads : install[t].pc = "idle"
  BY DEF FilesInit, NoInstall
<1> QED
  BY <1>1, <1>2 DEF FilesInit, FilesInv, OneInstall, VerifiedInHand, InstalledVerified, In

\* An installation that ends, however it does, leaves what is installed alone.
LEMMA EndingKeepsInv ==
  ASSUME FilesInv, NEW t \in Threads, ~In(t, "idle"), End(t),
         part' \in [{"pinned", "custom"} -> Contents], UNCHANGED <<cancel, installed>>
  PROVE  FilesInv'
<1>1. /\ install' = [install EXCEPT ![t] = NoInstall]
      /\ ~active' /\ UNCHANGED <<cancel, pinned, customs, manifest>>
  BY DEF End, installed
<1>2. FilesTypeOK'
  BY <1>1, IdleIsTyped DEF End, FilesInv, FilesTypeOK
<1>3. \A u \in Threads : install'[u].pc = "idle"
  BY <1>1 DEF FilesInv, FilesTypeOK, OneInstall, In, NoInstall
<1> QED
  BY <1>1, <1>2, <1>3 DEF FilesInv, OneInstall, VerifiedInHand, InstalledVerified, In

\* The installation that goes on is the one there is.
LEMMA OneGoesOn ==
  ASSUME FilesInv, NEW t \in Threads, ~In(t, "idle"), NEW next,
         install' = [install EXCEPT ![t] = next], next.pc # "idle", UNCHANGED active
  PROVE  OneInstall' /\ install'[t] = next /\ \A u \in Threads \ {t} : install'[u].pc = "idle"
BY DEF FilesInv, FilesTypeOK, OneInstall, In

LEMMA FilesSteps == FilesInv /\ [FilesNext]_filesVars => FilesInv'
<1> SUFFICES ASSUME FilesInv, [FilesNext]_filesVars PROVE FilesInv'
  OBVIOUS
<1>1. CASE CancelDownload
  BY <1>1 DEF CancelDownload, installed, FilesInv, FilesTypeOK, OneInstall, VerifiedInHand,
              InstalledVerified, In
<1>2. CASE EndProgram
  <2>1. FilesTypeOK' /\ \A u \in Threads : install'[u].pc = "idle"
    BY <1>2, IdleIsTyped DEF EndProgram, installed, FilesInv, FilesTypeOK, NoInstall
  <2> QED
    BY <1>2, <2>1 DEF EndProgram, installed, FilesInv, OneInstall, VerifiedInHand,
                      InstalledVerified, In
<1>3. ASSUME NEW t \in Threads, NEW k \in {"download", "import", "custom"}, BeginInstall(t, k)
      PROVE  FilesInv'
  <2> DEFINE begun == [NoInstall EXCEPT !.pc = "create", !.kind = k]
  <2>1. /\ install' = [install EXCEPT ![t] = begun] /\ active' /\ active' \in BOOLEAN
        /\ cancel' \in BOOLEAN /\ UNCHANGED <<part, pinned, customs, manifest>> /\ ~active
    BY <1>3 DEF BeginInstall, installed
  <2>2. /\ begun \in [pc : {"idle", "create", "fill", "verify", "rename", "manifest"},
                      kind : {"download", "import", "custom"}, digest : Contents]
        /\ begun.pc = "create"
    BY IdleIsTyped DEF NoInstall
  <2> HIDE DEF begun
  <2>3. FilesTypeOK'
    BY <2>1, <2>2 DEF FilesInv, FilesTypeOK
  <2>4. install'[t] = begun /\ \A u \in Threads \ {t} : install'[u].pc = "idle"
    BY <2>1 DEF FilesInv, FilesTypeOK, OneInstall, In
  <2> QED
    BY <2>1, <2>2, <2>3, <2>4 DEF FilesInv, OneInstall, VerifiedInHand, InstalledVerified, In
<1>4. ASSUME NEW t \in Threads, RefuseSource(t) PROVE FilesInv'
  BY <1>4, EndingKeepsInv DEF RefuseSource, installed, In, FilesInv, FilesTypeOK
<1>5. ASSUME NEW t \in Threads, CreatePart(t) PROVE FilesInv'
  <2> DEFINE filling == [install[t] EXCEPT !.pc = "fill"]
  <2>1. /\ install' = [install EXCEPT ![t] = filling] /\ ~In(t, "idle")
        /\ UNCHANGED <<active, cancel, pinned, customs, manifest>>
        /\ part' \in [{"pinned", "custom"} -> Contents]
    BY <1>5 DEF CreatePart, Goto, In, PartOf, installed, FilesInv, FilesTypeOK, Contents
  <2>2. /\ filling \in [pc : {"idle", "create", "fill", "verify", "rename", "manifest"},
                        kind : {"download", "import", "custom"}, digest : Contents]
        /\ filling.pc = "fill"
    BY DEF FilesInv, FilesTypeOK
  <2> HIDE DEF filling
  <2>3. FilesTypeOK'
    BY <2>1, <2>2 DEF FilesInv, FilesTypeOK
  <2>4. OneInstall' /\ install'[t] = filling /\ \A u \in Threads \ {t} : install'[u].pc = "idle"
    BY <2>1, <2>2, OneGoesOn
  <2> QED
    BY <2>1, <2>2, <2>3, <2>4 DEF FilesInv, VerifiedInHand, InstalledVerified, In
<1>6. ASSUME NEW t \in Threads, FillPart(t) PROVE FilesInv'
  <2>1. PICK bytes \in Contents :
          /\ install' = [install EXCEPT ![t].pc = "verify", ![t].digest = bytes]
          /\ part' = [part EXCEPT ![PartOf(t)] = bytes]
    BY <1>6 DEF FillPart
  <2> DEFINE filled == [install[t] EXCEPT !.pc = "verify", !.digest = bytes]
  <2>2. /\ install' = [install EXCEPT ![t] = filled] /\ ~In(t, "idle")
        /\ UNCHANGED <<active, cancel, pinned, customs, manifest>>
        /\ part' \in [{"pinned", "custom"} -> Contents]
        /\ install[t].kind = "custom" => part'["custom"] = bytes
    BY <1>6, <2>1 DEF FillPart, In, PartOf, installed, FilesInv, FilesTypeOK
  <2>3. /\ filled \in [pc : {"idle", "create", "fill", "verify", "rename", "manifest"},
                       kind : {"download", "import", "custom"}, digest : Contents]
        /\ filled.pc = "verify" /\ filled.kind = install[t].kind /\ filled.digest = bytes
    BY DEF FilesInv, FilesTypeOK
  <2> HIDE DEF filled
  <2>4. FilesTypeOK'
    BY <2>2, <2>3 DEF FilesInv, FilesTypeOK
  <2>5. OneInstall' /\ install'[t] = filled /\ \A u \in Threads \ {t} : install'[u].pc = "idle"
    BY <2>2, <2>3, OneGoesOn
  <2> QED
    BY <2>2, <2>3, <2>4, <2>5 DEF FilesInv, VerifiedInHand, InstalledVerified, In
<1>7. ASSUME NEW t \in Threads, StopFilling(t) PROVE FilesInv'
  <2>1. /\ End(t) /\ ~In(t, "idle") /\ UNCHANGED <<cancel, installed>>
        /\ part' \in [{"pinned", "custom"} -> Contents]
    BY <1>7 DEF StopFilling, In, PartOf, FilesInv, FilesTypeOK, Contents
  <2> QED
    BY <2>1, EndingKeepsInv
<1>8. ASSUME NEW t \in Threads, VerifyPart(t) PROVE FilesInv'
  <2>1. CASE End(t)
    <3>1. /\ ~In(t, "idle") /\ UNCHANGED <<cancel, installed>>
          /\ part' \in [{"pinned", "custom"} -> Contents]
      BY <1>8 DEF VerifyPart, In, PartOf, FilesInv, FilesTypeOK, Contents
    <3> QED
      BY <2>1, <3>1, EndingKeepsInv
  <2>2. CASE /\ IF install[t].kind = "custom" THEN install[t].digest \in Customs
                                              ELSE part["pinned"] = Pin
             /\ Goto(t, "rename") /\ UNCHANGED <<active, part>>
    <3> DEFINE verified == [install[t] EXCEPT !.pc = "rename"]
    <3>1. /\ install' = [install EXCEPT ![t] = verified] /\ In(t, "verify")
          /\ UNCHANGED <<active, cancel, part, pinned, customs, manifest>>
      BY <1>8, <2>2 DEF VerifyPart, Goto, installed, FilesInv, FilesTypeOK
    <3>2. /\ verified \in [pc : {"idle", "create", "fill", "verify", "rename", "manifest"},
                           kind : {"download", "import", "custom"}, digest : Contents]
          /\ verified.pc = "rename" /\ verified.kind = install[t].kind
          /\ verified.digest = install[t].digest
      BY DEF FilesInv, FilesTypeOK
    <3> HIDE DEF verified
    <3>3. FilesTypeOK'
      BY <3>1, <3>2 DEF FilesInv, FilesTypeOK
    <3>4. OneInstall' /\ install'[t] = verified /\ \A u \in Threads \ {t} : install'[u].pc = "idle"
      BY <3>1, <3>2, OneGoesOn DEF In
    <3> QED
      BY <2>2, <3>1, <3>2, <3>3, <3>4 DEF FilesInv, VerifiedInHand, InstalledVerified, In
  <2> QED
    BY <1>8, <2>1, <2>2 DEF VerifyPart
<1>9. ASSUME NEW t \in Threads, RenamePart(t) PROVE FilesInv'
  <2>1. In(t, "rename") /\ UNCHANGED <<cancel, manifest>> /\ part' \in [{"pinned", "custom"} -> Contents]
    BY <1>9 DEF RenamePart, PartOf, FilesInv, FilesTypeOK, Contents
  <2>2. CASE install[t].kind = "custom"
    <3> DEFINE renamed == [install[t] EXCEPT !.pc = "manifest"]
    <3>1. /\ install' = [install EXCEPT ![t] = renamed]
          /\ customs' = [customs EXCEPT ![install[t].digest] = install[t].digest]
          /\ install[t].digest \in Customs /\ UNCHANGED <<active, pinned>>
      BY <1>9, <2>1, <2>2 DEF RenamePart, Goto, In, FilesInv, FilesTypeOK, VerifiedInHand
    <3>2. /\ renamed \in [pc : {"idle", "create", "fill", "verify", "rename", "manifest"},
                          kind : {"download", "import", "custom"}, digest : Contents]
          /\ renamed.pc = "manifest" /\ renamed.digest = install[t].digest
      BY DEF FilesInv, FilesTypeOK
    <3> HIDE DEF renamed
    <3>3. customs' \in [Customs -> Contents]
      BY <3>1 DEF FilesInv, FilesTypeOK
    <3>4. FilesTypeOK'
      BY <2>1, <3>1, <3>2, <3>3 DEF FilesInv, FilesTypeOK
    <3>5. InstalledVerified'
      BY <2>1, <3>1 DEF FilesInv, FilesTypeOK, InstalledVerified, Contents
    <3>6. customs'[install[t].digest] = install[t].digest
      BY <3>1 DEF FilesInv, FilesTypeOK
    <3>7. OneInstall' /\ install'[t] = renamed /\ \A u \in Threads \ {t} : install'[u].pc = "idle"
      BY <2>1, <3>1, <3>2, OneGoesOn DEF In
    <3> QED
      BY <2>1, <3>1, <3>2, <3>4, <3>5, <3>6, <3>7 DEF FilesInv, VerifiedInHand, In
  <2>3. CASE install[t].kind # "custom"
    <3>1. End(t) /\ pinned' = Pin /\ UNCHANGED <<customs, manifest>> /\ ~In(t, "idle")
      BY <1>9, <2>1, <2>3 DEF RenamePart, FilesInv, VerifiedInHand, In
    <3>2. install' = [install EXCEPT ![t] = NoInstall] /\ ~active' /\ active' \in BOOLEAN
      BY <3>1 DEF End
    <3>3. FilesTypeOK'
      BY <2>1, <3>1, <3>2, IdleIsTyped DEF FilesInv, FilesTypeOK, Contents
    <3>4. \A u \in Threads : install'[u].pc = "idle"
      BY <3>1, <3>2 DEF FilesInv, FilesTypeOK, OneInstall, In, NoInstall
    <3> QED
      BY <2>1, <3>1, <3>2, <3>3, <3>4 DEF FilesInv, OneInstall, VerifiedInHand, InstalledVerified,
                                          In
  <2> QED
    BY <2>2, <2>3
<1>10. ASSUME NEW t \in Threads, WriteManifest(t) PROVE FilesInv'
  <2>1. /\ manifest' = install[t].digest /\ install[t].digest \in Customs /\ ~In(t, "idle")
        /\ customs[install[t].digest] = install[t].digest
        /\ UNCHANGED <<cancel, part, pinned, customs>>
    BY <1>10 DEF WriteManifest, In, FilesInv, VerifiedInHand
  <2>2. install' = [install EXCEPT ![t] = NoInstall] /\ ~active' /\ active' \in BOOLEAN
    BY <1>10 DEF WriteManifest, End
  <2>3. FilesTypeOK'
    BY <2>1, <2>2, IdleIsTyped DEF FilesInv, FilesTypeOK, Contents
  <2>4. \A u \in Threads : install'[u].pc = "idle"
    BY <2>1, <2>2 DEF FilesInv, FilesTypeOK, OneInstall, In, NoInstall
  <2> QED
    BY <2>1, <2>2, <2>3, <2>4 DEF FilesInv, OneInstall, VerifiedInHand, InstalledVerified, In
<1>11. CASE UNCHANGED filesVars
  BY <1>11 DEF filesVars, FilesInv, FilesTypeOK, OneInstall, VerifiedInHand, InstalledVerified, In
<1> QED
  BY <1>1, <1>2, <1>3, <1>4, <1>5, <1>6, <1>7, <1>8, <1>9, <1>10, <1>11 DEF FilesNext

\* install_model, import_model and install_custom_model leave no file behind that is
\* loadable and not what was verified, wherever they are cancelled or cut short.
THEOREM InstalledIsVerified == FilesSpec => []InstalledVerified
<1>1. FilesInv => InstalledVerified
  BY DEF FilesInv
<1> QED
  BY FilesStart, FilesSteps, <1>1, PTL DEF FilesSpec

-----------------------------------------------------------------------------
(* Personal models.                                                         *)

CheckShape ==
  /\ check = [pc |-> check.pc, version |-> check.version, base |-> check.base]
  /\ check.version \in Versions \cup {"none"}

\* The type, as far as the proof needs it, and that no file is ever half a model.
PersonalShape ==
  /\ files \in [Versions -> {"none", "whole"}]
  /\ pointer.active \in Versions \cup {"none"}
  /\ offer \in Versions \cup {"none"}
  /\ CheckShape
  /\ queue \in Seq({"ensure", "release", "reload"})

\* A reload of the engine is on its way: it was asked for, or a thread that has
\* changed the files has yet to ask for it.
Asked == \E n \in DOMAIN queue : queue[n] = "reload"
ReloadComing ==
  \/ Asked
  \/ check.pc \in {"pointer", "rmdir"}
  \/ main \in {"rmdir", "reload"}

\* Whatever is loaded is what is chosen, or about to be replaced.  EngineCurrent
\* is what this says of the states in which nothing is on its way.
EngineFollows == engine = "none" \/ engine = Chosen \/ ReloadComing \/ stuck

PersonalInv == PersonalShape /\ EngineFollows

LEMMA PersonalStarts == PersonalInit => PersonalInv
  BY DEF PersonalInit, PersonalInv, PersonalShape, CheckShape, EngineFollows, NoPointer, NoCheck

\* A request joins the queue behind the others.
LEMMA AskKeeps ==
  ASSUME PersonalShape, NEW request \in {"ensure", "release", "reload"}, Ask(request)
  PROVE  /\ queue' \in Seq({"ensure", "release", "reload"})
         /\ Asked => Asked'
         /\ request = "reload" => Asked'
<1>1. queue \in Seq({"ensure", "release", "reload"}) /\ queue' = Append(queue, request)
  BY DEF PersonalShape, Ask
<1>2. /\ queue' \in Seq({"ensure", "release", "reload"})
      /\ Len(queue) \in Nat /\ Len(queue') = Len(queue) + 1
      /\ queue'[Len(queue) + 1] = request
      /\ \A n \in 1..Len(queue) : queue'[n] = queue[n]
  BY <1>1
<1>3. DOMAIN queue = 1..Len(queue) /\ DOMAIN queue' = 1..(Len(queue) + 1)
  BY <1>1, <1>2
<1>4. request = "reload" => Asked'
  BY <1>2, <1>3 DEF Asked
<1>5. Asked => Asked'
  BY <1>2, <1>3 DEF Asked
<1> QED
  BY <1>2, <1>4, <1>5

\* The files are as they were.
LEMMA ChosenKept ==
  ASSUME UNCHANGED <<files, pointer, choice>>
  PROVE  Chosen' = Chosen
  BY DEF Chosen, Active

LEMMA GotoKeeps ==
  ASSUME PersonalShape, NEW pc, CheckGoto(pc)
  PROVE  check' = [pc |-> pc, version |-> check.version, base |-> check.base]
<1>1. check = [pc |-> check.pc, version |-> check.version, base |-> check.base]
  BY DEF PersonalShape, CheckShape
<1>2. [[pc |-> check.pc, version |-> check.version, base |-> check.base] EXCEPT !.pc = pc]
        = [pc |-> pc, version |-> check.version, base |-> check.base]
  OBVIOUS
<1> QED
  BY <1>1, <1>2 DEF CheckGoto

LEMMA PersonalSteps == PersonalInv /\ [PersonalNext]_personalVars => PersonalInv'
<1> SUFFICES ASSUME PersonalInv, [PersonalNext]_personalVars PROVE PersonalInv'
  OBVIOUS
<1> USE DEF PersonalInv
<1>1. CASE AskServer
  <2>1. CheckShape' /\ check.pc = "idle"
    BY <1>1 DEF AskServer, CheckAt, CheckShape, PersonalShape, NoCheck
  <2> QED
    BY <1>1, <2>1, ChosenKept DEF AskServer, PersonalShape, EngineFollows, ReloadComing, Asked, disk
<1>2. CASE Compare
  <2>1. CheckShape' /\ check.pc = "compare"
    BY <1>2, GotoKeeps DEF Compare, CheckAt, CheckShape, PersonalShape, NoCheck
  <2> QED
    BY <1>2, <2>1, ChosenKept DEF Compare, others, PersonalShape, EngineFollows, ReloadComing, Asked
<1>3. CASE WritePartial
  <2>1. CheckShape' /\ check.pc = "write"
    BY <1>3, GotoKeeps DEF WritePartial, CheckAt, CheckShape, PersonalShape, NoCheck
  <2> QED
    BY <1>3, <2>1, ChosenKept DEF WritePartial, others, PersonalShape, EngineFollows, ReloadComing,
                                  Asked
<1>4. CASE RenamePartial
  <2>1. CheckShape' /\ files' \in [Versions -> {"none", "whole"}]
        /\ check.pc = "rename"
    BY <1>4, GotoKeeps DEF RenamePartial, CheckAt, CheckShape, PersonalShape, NoCheck
  <2>2. CASE partial = check.version
    <3>1. check'.pc = "pointer"
      BY <1>4, <2>2, GotoKeeps DEF RenamePartial
    <3> QED
      BY <1>4, <2>1, <3>1 DEF RenamePartial, others, PersonalShape, EngineFollows, ReloadComing
  <2>3. CASE partial # check.version
    BY <1>4, <2>1, <2>3, ChosenKept DEF RenamePartial, others, PersonalShape, EngineFollows,
                                        ReloadComing, Asked
  <2> QED
    BY <2>2, <2>3
<1>5. CASE WritePointer
  <2>1. queue' \in Seq({"ensure", "release", "reload"}) /\ Asked'
    BY <1>5, AskKeeps DEF WritePointer, AskReload
  <2>2. CheckShape' /\ pointer'.active \in Versions \cup {"none"}
    BY <1>5 DEF WritePointer, NoCheck, CheckShape, PersonalShape
  <2> QED
    BY <1>5, <2>1, <2>2 DEF WritePointer, others, PersonalShape, EngineFollows, ReloadComing
<1>6. CASE RemoveRevoked
  <2>1. check.pc = "gone" /\ CheckShape'
    BY <1>6, GotoKeeps DEF RemoveRevoked, CheckAt, CheckShape, PersonalShape, NoCheck
  <2>2. CASE Active # "none"
    <3>1. check'.pc = "rmdir"
      BY <1>6, <2>2, GotoKeeps DEF RemoveRevoked
    <3> QED
      BY <1>6, <2>1, <2>2, <3>1 DEF RemoveRevoked, others, PersonalShape, EngineFollows,
                                    ReloadComing,
                                    NoPointer
  <2>3. CASE Active = "none"
    BY <1>6, <2>1, <2>3, ChosenKept DEF RemoveRevoked, others, PersonalShape, EngineFollows,
                                        ReloadComing, Asked
  <2> QED
    BY <2>2, <2>3
<1>7. CASE RemoveRevokedDir
  <2>1. CheckShape' /\ UNCHANGED <<files, pointer, offer>>
    BY <1>7 DEF RemoveRevokedDir, NoCheck, CheckShape, others
  <2>2. CASE Empty
    <3>1. queue' \in Seq({"ensure", "release", "reload"}) /\ Asked'
      BY <1>7, <2>2, AskKeeps DEF RemoveRevokedDir, AskReload
    <3> QED
      BY <2>1, <3>1 DEF PersonalShape, EngineFollows, ReloadComing
  <2>3. CASE ~Empty
    BY <1>7, <2>1, <2>3 DEF RemoveRevokedDir, PersonalShape, EngineFollows
  <2> QED
    BY <2>2, <2>3
<1>8. CASE DeletePersonal
  <2>1. main' \in {"rmdir", "reload"}
    BY <1>8 DEF DeletePersonal
  <2> QED
    BY <1>8, <2>1 DEF DeletePersonal, Background, CheckShape, PersonalShape, EngineFollows,
                      ReloadComing, NoPointer
<1>9. CASE DeleteDir
  <2>1. main' = "reload" \/ stuck' = TRUE
    BY <1>9 DEF DeleteDir
  <2> QED
    BY <1>9, <2>1 DEF DeleteDir, Background, CheckShape, PersonalShape, EngineFollows, ReloadComing
<1>10. CASE ReloadAfterDelete
  <2>1. queue' \in Seq({"ensure", "release", "reload"}) /\ Asked'
    BY <1>10, AskKeeps DEF ReloadAfterDelete, AskReload
  <2> QED
    BY <1>10, <2>1 DEF ReloadAfterDelete, Background, disk, CheckShape, PersonalShape,
                       EngineFollows, ReloadComing
<1>11. ASSUME NEW base \in Bases, ChooseBase(base) PROVE PersonalInv'
  <2>1. queue' \in Seq({"ensure", "release", "reload"}) /\ Asked'
    BY <1>11, AskKeeps DEF ChooseBase, AskReload
  <2> QED
    BY <1>11, <2>1 DEF ChooseBase, disk, CheckShape, PersonalShape, EngineFollows, ReloadComing
<1>12. ASSUME NEW request \in {"ensure", "release"}, AskSpeech(request) PROVE PersonalInv'
  <2>1. queue' \in Seq({"ensure", "release", "reload"}) /\ (Asked => Asked')
    BY <1>12, AskKeeps DEF AskSpeech
  <2>2. Chosen' = Chosen
    BY <1>12, ChosenKept DEF AskSpeech, disk
  <2> QED
    BY <1>12, <2>1, <2>2 DEF AskSpeech, disk, CheckShape, PersonalShape, EngineFollows, ReloadComing
<1>13. ASSUME NEW v \in Versions \cup {"none"}, Offer(v) PROVE PersonalInv'
  BY <1>13, ChosenKept DEF Offer, disk, CheckShape, PersonalShape, EngineFollows, ReloadComing,
                           Asked
<1>14. CASE Serve
  <2>1. queue # <<>> /\ queue' = Tail(queue) /\ queue \in Seq({"ensure", "release", "reload"})
    BY <1>14 DEF Serve, PersonalShape
  <2>2. /\ queue' \in Seq({"ensure", "release", "reload"}) /\ Len(queue') = Len(queue) - 1
        /\ \A n \in 1..Len(queue') : queue'[n] = queue[n + 1]
        /\ Head(queue) \in {"ensure", "release", "reload"} /\ Head(queue) = queue[1]
    BY <2>1, HeadTailProperties
  <2>3. Asked => Head(queue) = "reload" \/ Asked'
    <3> SUFFICES ASSUME NEW n \in DOMAIN queue, queue[n] = "reload", n # 1 PROVE Asked'
      BY <2>2 DEF Asked
    <3>1. n - 1 \in 1..Len(queue') /\ (n - 1) + 1 = n /\ DOMAIN queue' = 1..Len(queue')
      BY <2>1, <2>2
    <3>2. queue'[n - 1] = "reload"
      BY <2>2, <3>1
    <3> QED
      BY <3>1, <3>2 DEF Asked
  <2>4. Chosen' = Chosen
    BY <1>14, ChosenKept DEF Serve, disk
  <2>5. \/ engine' \in {"none", Chosen}
        \/ engine' = engine /\ engine # "none" /\ Head(queue) = "ensure"
    BY <1>14, <2>2 DEF Serve
  <2> QED
    BY <1>14, <2>2, <2>3, <2>4, <2>5 DEF Serve, disk, CheckShape, PersonalShape, EngineFollows,
                                         ReloadComing
<1>15. CASE EndOfProgram
  <2>1. queue' \in Seq({"ensure", "release", "reload"}) /\ CheckShape'
    BY <1>15 DEF EndOfProgram, NoCheck, CheckShape
  <2> QED
    BY <1>15, <2>1 DEF EndOfProgram, disk, PersonalShape, EngineFollows
<1>16. CASE UNCHANGED personalVars
  BY <1>16, ChosenKept DEF personalVars, disk, CheckShape, PersonalShape, EngineFollows,
                           ReloadComing, Asked
<1> QED
  BY <1>1, <1>2, <1>3, <1>4, <1>5, <1>6, <1>7, <1>8, <1>9, <1>10, <1>11, <1>12, <1>13, <1>14, <1>15,
     <1>16 DEF PersonalNext

\* check_personal_model, delete_training_data, update_settings and the speech thread:
\* however they interleave, at rest the engine is the model that is chosen, and what
\* may be loaded is whole.
THEOREM EngineIsChosen == PersonalSpec => []EngineCurrent
<1>1. PersonalInv => EngineCurrent
  <2> SUFFICES ASSUME PersonalInv PROVE EngineCurrent
    OBVIOUS
  <2>1. Active # "none" => files[Active] = "whole"
    BY DEF PersonalInv, PersonalShape, Active
  <2>2. queue = <<>> => ~Asked
    BY DEF Asked
  <2> QED
    BY <2>1, <2>2 DEF PersonalInv, EngineFollows, ReloadComing, EngineCurrent, NoCheck
<1> QED
  BY PersonalStarts, PersonalSteps, <1>1, PTL DEF PersonalSpec

-----------------------------------------------------------------------------
(* The worker's pipe.                                                       *)

\* A frame that is one, on the way to the host.
Message(f) == f.kind # "nonsense"
NoMessage(q) == \A n \in DOMAIN q : ~Message(q[n])
Silent == NoMessage(output) /\ NoMessage(channel)

\* There is one message on the way at the most, and what follows it is the end of
\* the worker; so whoever takes it leaves no other behind.
OneMessage ==
  /\ \A n \in DOMAIN channel : Message(channel[n]) => n = 1 /\ NoMessage(output)
  /\ \A n \in DOMAIN output : Message(output[n]) => n = 1 /\ channel = <<>>
EndIsLast ==
  WorkerUp => /\ \A n \in DOMAIN output : Message(output[n])
              /\ \A n \in DOMAIN channel : Message(channel[n])

\* What is left of the worker when its host is between two steps of a request.
NoWorker == worker = NoProcess /\ input = <<>> /\ output = <<>> /\ channel = <<>>
Drained == running /\ input = <<>> /\ Silent /\ worker.pc \in {"read", "ended"}
Loading == /\ ~running /\ input = <<>> /\ worker.pc \in {"loading", "read", "ended"}
           /\ worker.pc = "loading" => Silent

\* A request on its way: a worker that has it, or part of it, has not answered, and
\* one that answered has nothing more to read.
HalfAsked ==
  /\ running /\ Silent /\ worker.pc \in {"read", "audio", "ended"}
  /\ worker.pc = "read" => Len(input) <= 1
  /\ worker.pc = "read" /\ input # <<>> => input[1].kind = "transcribe"
  /\ worker.pc = "audio" => input = <<>>
Asking ==
  /\ running /\ worker.pc \in {"read", "audio", "handle", "ended"}
  /\ input # <<>> \/ worker.pc \in {"audio", "handle"} => Silent
  /\ worker.pc = "read" => Len(input) <= 2
  /\ worker.pc = "read" /\ Len(input) = 2 => input[1].kind = "transcribe"
  /\ worker.pc = "audio" => Len(input) <= 1
  /\ worker.pc = "handle" => input = <<>>

Stages ==
  /\ HostAt("rest") => Drained \/ (~running /\ NoWorker)
  /\ HostAt("spawn") => ~running /\ NoWorker
  /\ HostAt("ready") => Loading
  /\ HostAt("control") => Drained
  /\ HostAt("audio") => HalfAsked
  /\ HostAt("wait") => Asking

PipeInv == PipeTypeOK /\ OneMessage /\ EndIsLast /\ Stages

-----------------------------------------------------------------------------
Hosts   == [pc : {"rest", "spawn", "ready", "control", "audio", "wait"}, id : 0..MaxRequests,
            audio : BOOLEAN]
Workers == [pc : {"none", "loading", "read", "audio", "handle", "ended"}, id : 0..MaxRequests]
Results == [kind : {"nothing", "error", "answer"}, id : 0..MaxRequests]

LEMMA PipeValues ==
  /\ AtRest \in Hosts /\ NoProcess \in Workers
  /\ \A id \in 0..MaxRequests : Frame("nothing", id) \in Results /\ Frame("error", id) \in Results
<1>1. 0 \in 0..MaxRequests
  BY PipeAssumption
<1> QED
  BY <1>1 DEF AtRest, Hosts, NoProcess, Workers, Frame, Results

LEMMA PipeStarts == PipeInit => PipeInv
<1> SUFFICES ASSUME PipeInit PROVE PipeInv
  OBVIOUS
<1>1. PipeTypeOK
  <2>1. 0 \in 0..MaxRequests /\ 1 \in 1..(MaxRequests + 1)
    BY PipeAssumption
  <2>2. host \in Hosts /\ worker \in Workers /\ result \in Results
    BY <2>1, PipeValues DEF PipeInit
  <2> QED
    BY <2>1, <2>2, EmptySeq DEF PipeInit, PipeTypeOK, Hosts, Workers, Results
<1> QED
  BY <1>1 DEF PipeInit, PipeInv, OneMessage, EndIsLast, Stages, NoMessage, WorkerUp, NoWorker,
              NoProcess, AtRest, HostAt

LEMMA KillLeavesNothing ==
  ASSUME PipeInv, Kill, Fail, UNCHANGED nextId
  PROVE  PipeInv'
<1>1. host' = AtRest /\ result' = Frame("error", host.id) /\ running' = FALSE /\ worker' = NoProcess
      /\ input' = <<>> /\ output' = <<>> /\ channel' = <<>>
  BY DEF Kill, Fail
<1>2. host.id \in 0..MaxRequests
  BY DEF PipeInv, PipeTypeOK
<1>3. PipeTypeOK'
  <2>1. host' \in Hosts /\ worker' \in Workers /\ result' \in Results
    BY <1>1, <1>2, PipeValues
  <2> QED
    BY <1>1, <2>1, EmptySeq DEF PipeInv, PipeTypeOK, Hosts, Workers, Results
<1> QED
  BY <1>1, <1>3 DEF PipeInv, OneMessage, EndIsLast, Stages, NoMessage, WorkerUp, NoWorker,
                    NoProcess, AtRest, HostAt

\* What the host does without touching the frames on their way.
LEMMA HostMoves ==
  ASSUME PipeInv, UNCHANGED <<worker, output, channel>>, PipeTypeOK', Stages'
  PROVE  PipeInv'
BY DEF PipeInv, OneMessage, EndIsLast, NoMessage, WorkerUp

\* While the worker is up, what is on its way are messages; so silence is emptiness.
LEMMA UpAndSilent ==
  ASSUME PipeInv, WorkerUp, Silent
  PROVE  output = <<>> /\ channel = <<>>
<1>1. output \in Seq(Frames) /\ channel \in Seq(Frames)
  BY DEF PipeInv, PipeTypeOK
<1>2. DOMAIN output = {} /\ DOMAIN channel = {}
  BY DEF PipeInv, EndIsLast, Silent, NoMessage
<1>3. Len(output) = 0 /\ Len(channel) = 0
  BY <1>1, <1>2
<1> QED
  BY <1>1, <1>3, EmptySeq

\* The end of the worker is one more frame on its way, no message.
WorkerEnds ==
  worker' = [pc |-> "ended", id |-> 0] /\ output' = Append(output, Frame("nonsense", 0))

LEMMA EndingKeeps ==
  ASSUME PipeInv, WorkerUp, WorkerEnds, UNCHANGED <<host, nextId, running, channel, result>>,
         input' \in Seq(Frames), input' # <<>> => input # <<>>
  PROVE  PipeInv'
<1> DEFINE f == Frame("nonsense", 0)
<1>1. f \in Frames /\ ~Message(f) /\ 0 \in 0..MaxRequests
  BY PipeAssumption DEF Frames, Frame, Message
<1>2. output \in Seq(Frames) /\ output' = Append(output, f)
  BY DEF PipeInv, PipeTypeOK, WorkerEnds
<1> HIDE DEF f
<1>3. /\ output' \in Seq(Frames)
      /\ \A n \in DOMAIN output : n \in DOMAIN output' /\ output'[n] = output[n]
      /\ \A n \in DOMAIN output' : n \in DOMAIN output \/ output'[n] = f
  BY <1>1, <1>2
<1>4. PipeTypeOK'
  BY <1>1, <1>3 DEF PipeInv, PipeTypeOK, WorkerEnds
<1>5. OneMessage'
  BY <1>1, <1>3 DEF PipeInv, OneMessage, NoMessage
<1>6. EndIsLast'
  BY DEF EndIsLast, WorkerUp, WorkerEnds
<1>7. Silent => Silent'
  BY <1>1, <1>3 DEF Silent, NoMessage
<1>8. worker.pc # "none" /\ worker'.pc = "ended"
  BY DEF WorkerUp, WorkerEnds
<1>9. Stages'
  BY <1>7, <1>8 DEF PipeInv, Stages, Drained, NoWorker, NoProcess, Loading, HalfAsked, Asking,
                    HostAt
<1> QED
  BY <1>4, <1>5, <1>6, <1>9 DEF PipeInv

LEMMA PipeSteps == PipeInv /\ [PipeNext]_pipeVars => PipeInv'
<1> SUFFICES ASSUME PipeInv, [PipeNext]_pipeVars PROVE PipeInv'
  OBVIOUS
<1> USE DEF HostAt
<1>0. /\ PipeTypeOK /\ OneMessage /\ EndIsLast /\ Stages
      /\ input \in Seq(Frames) /\ output \in Seq(Frames) /\ channel \in Seq(Frames)
      /\ host.id \in 0..MaxRequests /\ 0 \in 0..MaxRequests
      /\ host = [pc |-> host.pc, id |-> host.id, audio |-> host.audio] /\ host.audio \in BOOLEAN
      /\ worker = [pc |-> worker.pc, id |-> worker.id] /\ worker.id \in 0..MaxRequests
  BY PipeAssumption DEF PipeInv, PipeTypeOK
<1>1. ASSUME NEW audio \in BOOLEAN, Request(audio) PROVE PipeInv'
  <2>1. /\ host.pc = "rest" /\ host'.pc = (IF running THEN "control" ELSE "spawn")
        /\ UNCHANGED <<running, worker, input, output, channel, result>>
    BY <1>1 DEF Request, process
  <2>2. PipeTypeOK'
    BY <1>0, <1>1, <2>1, PipeAssumption DEF Request, PipeTypeOK
  <2>3. Stages'
    BY <1>0, <2>1 DEF Stages, Drained, NoWorker, Silent, NoMessage
  <2> QED
    BY <2>1, <2>2, <2>3, HostMoves
<1>2. CASE Spawn
  <2>1. host.pc = "spawn" /\ UNCHANGED <<nextId, running, input, output, channel>>
    BY <1>2 DEF Spawn
  <2>2. ~running /\ NoWorker
    BY <1>0, <2>1 DEF Stages
  <2>3. CASE host' = [host EXCEPT !.pc = "ready"] /\ worker' = [pc |-> "loading", id |-> 0]
             /\ UNCHANGED result
    <3>1. host' = [pc |-> "ready", id |-> host.id, audio |-> host.audio]
      BY <1>0, <2>3
    <3>2. PipeTypeOK'
      BY <1>0, <2>1, <2>3, <3>1 DEF PipeTypeOK
    <3> QED
      BY <2>1, <2>2, <2>3, <3>1, <3>2 DEF PipeInv, OneMessage, EndIsLast, Stages, NoMessage,
                                          NoWorker,
                                          Loading, Silent
  <2>4. CASE Fail /\ UNCHANGED worker
    <3>1. PipeTypeOK'
      BY <1>0, <2>1, <2>4 DEF PipeTypeOK, Fail, AtRest, Frame
    <3>2. Stages'
      BY <2>1, <2>2, <2>4 DEF Fail, AtRest, Stages, NoWorker
    <3> QED
      BY <2>1, <2>4, <3>1, <3>2, HostMoves
  <2> QED
    BY <1>2, <2>3, <2>4 DEF Spawn
<1>3. CASE Started
  <2>1. host.pc = "ready" /\ UNCHANGED nextId /\ Loading
    BY <1>0, <1>3 DEF Started, Stages
  <2>2. CASE /\ channel # <<>> /\ Head(channel).kind = "ready"
             /\ channel' = Tail(channel) /\ running' = TRUE
             /\ host' = [host EXCEPT !.pc = "control"] /\ UNCHANGED <<process, result>>
    <3>1. host' = [pc |-> "control", id |-> host.id, audio |-> host.audio]
      BY <1>0, <2>2
    <3>2. /\ channel' \in Seq(Frames) /\ Len(channel') = Len(channel) - 1
          /\ \A n \in 1..Len(channel') : channel'[n] = channel[n + 1]
          /\ Head(channel) = channel[1] /\ 1 \in DOMAIN channel
      BY <1>0, <2>2, HeadTailProperties
    <3>3. NoMessage(output) /\ Message(channel[1])
      BY <1>0, <2>2, <3>2 DEF OneMessage, Message
    <3>4. NoMessage(channel')
      <4>1. \A n \in DOMAIN channel' :
              n + 1 \in DOMAIN channel /\ n + 1 # 1 /\ channel'[n] = channel[n + 1]
        <5>1. DOMAIN channel' = 1..Len(channel') /\ DOMAIN channel = 1..Len(channel)
          BY <1>0, <3>2
        <5> QED
          BY <1>0, <3>2, <5>1
      <4> QED
        BY <1>0, <4>1 DEF OneMessage, NoMessage
    <3>5. worker.pc \in {"read", "ended"}
      BY <2>1, <3>2, <3>3 DEF Loading, Silent, NoMessage
    <3>6. UNCHANGED <<worker, input, output, result>>
      BY <2>2 DEF process
    <3>7. PipeTypeOK'
      BY <1>0, <2>1, <2>2, <3>1, <3>2, <3>6 DEF PipeTypeOK
    <3>8. Stages'
      BY <2>1, <2>2, <3>1, <3>3, <3>4, <3>5, <3>6 DEF Stages, Drained, Loading, Silent, NoMessage
    <3>9. OneMessage'
      BY <3>3, <3>4, <3>6 DEF OneMessage, NoMessage
    <3>10. EndIsLast'
      <4>1. \A n \in DOMAIN channel' : n + 1 \in DOMAIN channel /\ channel'[n] = channel[n + 1]
        BY <1>0, <3>2
      <4> QED
        BY <1>0, <3>6, <4>1 DEF EndIsLast, WorkerUp
    <3> QED
      BY <3>7, <3>8, <3>9, <3>10 DEF PipeInv
  <2>3. CASE Kill /\ Fail
    BY <2>1, <2>3, KillLeavesNothing
  <2> QED
    BY <1>3, <2>2, <2>3 DEF Started
<1>4. CASE WriteControl
  <2>1. host.pc = "control" /\ UNCHANGED nextId /\ Drained
    BY <1>0, <1>4 DEF WriteControl, Stages
  <2> DEFINE f == Frame(IF host.audio THEN "transcribe" ELSE "classify", host.id)
             to == IF host.audio THEN "audio" ELSE "wait"
  <2>2. CASE /\ input' = Append(input, f) /\ host' = [host EXCEPT !.pc = to]
             /\ UNCHANGED <<running, worker, output, channel, result>>
    <3>1. host' = [pc |-> to, id |-> host.id, audio |-> host.audio]
      BY <1>0, <2>2
    <3>2. f \in Frames /\ f.kind = (IF host.audio THEN "transcribe" ELSE "classify")
      BY <1>0 DEF Frames, Frame
    <3> HIDE DEF f
    <3>3. input' \in Seq(Frames) /\ Len(input') = 1 /\ input'[1] = f
      BY <2>1, <2>2, <3>2 DEF Drained
    <3>4. PipeTypeOK'
      BY <1>0, <2>1, <2>2, <3>1, <3>3 DEF PipeTypeOK
    <3>5. Stages'
      BY <2>1, <2>2, <3>1, <3>2, <3>3 DEF Stages, Drained, HalfAsked, Asking, Silent, NoMessage
    <3> QED
      BY <2>2, <3>4, <3>5, HostMoves
  <2>3. CASE Kill /\ Fail
    BY <2>1, <2>3, KillLeavesNothing
  <2> QED
    BY <1>4, <2>2, <2>3 DEF WriteControl
<1>5. CASE WriteAudio
  <2>1. host.pc = "audio" /\ UNCHANGED nextId /\ HalfAsked
    BY <1>0, <1>5 DEF WriteAudio, Stages
  <2> DEFINE f == Frame("audio", host.id)
  <2>2. CASE /\ input' = Append(input, f) /\ host' = [host EXCEPT !.pc = "wait"]
             /\ UNCHANGED <<running, worker, output, channel, result>>
    <3>1. host' = [pc |-> "wait", id |-> host.id, audio |-> host.audio]
      BY <1>0, <2>2
    <3>2. f \in Frames
      BY <1>0 DEF Frames, Frame
    <3> HIDE DEF f
    <3>3. /\ input' \in Seq(Frames) /\ Len(input') = Len(input) + 1 /\ Len(input) \in Nat
          /\ input # <<>> => Len(input) > 0 /\ input'[1] = input[1]
          /\ input = <<>> => Len(input) = 0
      BY <1>0, <2>2, <3>2
    <3>4. PipeTypeOK'
      BY <1>0, <2>1, <2>2, <3>1, <3>3 DEF PipeTypeOK
    <3>5. Asking'
      BY <2>1, <2>2, <3>3 DEF HalfAsked, Asking, Silent, NoMessage
    <3>6. Stages'
      BY <3>1, <3>5 DEF Stages
    <3> QED
      BY <2>2, <3>4, <3>6, HostMoves
  <2>3. CASE Kill /\ Fail
    BY <2>1, <2>3, KillLeavesNothing
  <2> QED
    BY <1>5, <2>2, <2>3 DEF WriteAudio
<1>6. CASE AwaitResponse
  <2>1. host.pc = "wait" /\ channel # <<>> /\ UNCHANGED nextId /\ Asking
    BY <1>0, <1>6 DEF AwaitResponse, Stages
  <2>2. /\ Tail(channel) \in Seq(Frames) /\ Len(Tail(channel)) = Len(channel) - 1
        /\ \A n \in 1..Len(Tail(channel)) : Tail(channel)[n] = channel[n + 1]
        /\ Head(channel) = channel[1] /\ 1 \in DOMAIN channel /\ Head(channel) \in Frames
    BY <1>0, <2>1, HeadTailProperties
  <2>3. \A n \in DOMAIN Tail(channel) :
          n + 1 \in DOMAIN channel /\ n + 1 # 1 /\ Tail(channel)[n] = channel[n + 1]
    BY <1>0, <2>2
  <2>4. CASE Head(channel).kind = "answer" /\ channel' = Tail(channel)
             /\ UNCHANGED <<running, process>>
             /\ \/ host' = AtRest /\ result' = Head(channel) /\ Head(channel).id = host.id
                \/ UNCHANGED <<host, result>>
    <3>1. NoMessage(output) /\ NoMessage(channel')
      BY <1>0, <2>2, <2>3, <2>4 DEF OneMessage, NoMessage, Message
    <3>2. ~Silent
      BY <2>2, <2>4 DEF Silent, NoMessage, Message
    <3>3. input = <<>> /\ running /\ worker.pc \in {"read", "ended"}
      BY <2>1, <3>2 DEF Asking
    <3>4. UNCHANGED <<worker, input, output>>
      BY <2>4 DEF process
    <3>5. Drained'
      BY <2>4, <3>1, <3>3, <3>4 DEF Drained, Silent, NoMessage
    <3>6. PipeTypeOK'
      <4>1. host' \in [pc : {"rest", "spawn", "ready", "control", "audio", "wait"},
                       id : 0..MaxRequests, audio : BOOLEAN]
        BY <1>0, <2>4, PipeValues DEF PipeTypeOK, Hosts
      <4>2. Head(channel) = [kind |-> "answer", id |-> Head(channel).id]
            /\ Head(channel).id \in 0..MaxRequests
        BY <2>2, <2>4 DEF Frames
      <4>3. result' \in [kind : {"nothing", "error", "answer"}, id : 0..MaxRequests]
        <5>1. Head(channel) \in [kind : {"nothing", "error", "answer"}, id : 0..MaxRequests]
          BY <4>2
        <5> QED
          BY <1>0, <2>4, <5>1 DEF PipeTypeOK
      <4> QED
        BY <1>0, <2>1, <2>2, <2>4, <3>4, <4>1, <4>3 DEF PipeTypeOK
    <3>7. Stages'
      <4>1. host'.pc \in {"rest", "wait"}
        BY <2>1, <2>4 DEF AtRest
      <4>2. Asking'
        BY <2>4, <3>1, <3>3, <3>4 DEF Asking, Silent, NoMessage
      <4> QED
        BY <3>5, <4>1, <4>2 DEF Stages
    <3>8. OneMessage' /\ EndIsLast'
      BY <1>0, <2>3, <2>4, <3>1, <3>4 DEF OneMessage, EndIsLast, NoMessage, WorkerUp
    <3> QED
      BY <3>6, <3>7, <3>8 DEF PipeInv
  <2>5. CASE Kill /\ Fail
    BY <2>1, <2>5, KillLeavesNothing
  <2> QED
    BY <1>6, <2>4, <2>5 DEF AwaitResponse, Frame
<1>7. CASE TimeOut
  BY <1>7, KillLeavesNothing DEF TimeOut
<1>8. CASE Release
  <2>1. /\ host.pc = "rest" /\ UNCHANGED <<host, nextId, result>> /\ running' = FALSE
        /\ worker' = NoProcess /\ input' = <<>> /\ output' = <<>> /\ channel' = <<>>
    BY <1>8 DEF Release, Kill
  <2>2. PipeTypeOK'
    <3>1. worker' \in Workers
      BY <2>1, PipeValues
    <3> QED
      BY <1>0, <2>1, <3>1, EmptySeq DEF PipeTypeOK, Workers
  <2> QED
    BY <2>1, <2>2 DEF PipeInv, OneMessage, EndIsLast, Stages, NoMessage, WorkerUp, NoWorker,
                      NoProcess
<1>9. CASE Forward
  <2>1. /\ output # <<>> /\ channel' = Append(channel, Head(output))
        /\ UNCHANGED <<host, nextId, running, worker, input, result>>
        /\ output' \in {<<>>, Tail(output)}
    BY <1>9 DEF Forward
  <2>2. /\ Tail(output) \in Seq(Frames) /\ Head(output) \in Frames /\ Head(output) = output[1]
        /\ 1 \in DOMAIN output
        /\ \A n \in DOMAIN Tail(output) :
             n + 1 \in DOMAIN output /\ n + 1 # 1 /\ Tail(output)[n] = output[n + 1]
    BY <1>0, <2>1, HeadTailProperties
  <2>3. /\ output' \in Seq(Frames)
        /\ \A n \in DOMAIN output' :
             n + 1 \in DOMAIN output /\ n + 1 # 1 /\ output'[n] = output[n + 1]
    <3>1. CASE output' = <<>>
      BY <3>1
    <3>2. CASE output' = Tail(output)
      BY <2>2, <3>2
    <3> QED
      BY <2>1, <3>1, <3>2
  <2>4. /\ channel' \in Seq(Frames) /\ Len(channel') = Len(channel) + 1 /\ Len(channel) \in Nat
        /\ channel'[Len(channel) + 1] = output[1]
        /\ \A n \in DOMAIN channel : channel'[n] = channel[n]
        /\ \A n \in DOMAIN channel' : n \in DOMAIN channel \/ n = Len(channel) + 1
    BY <1>0, <2>1, <2>2
  <2>5. NoMessage(output')
    BY <1>0, <2>3 DEF OneMessage, NoMessage
  <2>6. \A n \in DOMAIN channel' : Message(channel'[n]) => n = 1
    <3> SUFFICES ASSUME NEW n \in DOMAIN channel', Message(channel'[n]) PROVE n = 1
      OBVIOUS
    <3>1. CASE n \in DOMAIN channel
      BY <1>0, <2>4, <3>1 DEF OneMessage
    <3>2. CASE n = Len(channel) + 1
      <4>1. channel = <<>>
        BY <1>0, <2>2, <2>4, <3>2 DEF OneMessage
      <4> QED
        BY <3>2, <4>1
    <3> QED
      BY <2>4, <3>1, <3>2
  <2>7. OneMessage'
    BY <2>5, <2>6 DEF OneMessage, NoMessage
  <2>8. EndIsLast'
    BY <1>0, <2>1, <2>2, <2>3, <2>4 DEF EndIsLast, WorkerUp
  <2>9. Silent => Silent'
    BY <2>2, <2>3, <2>4, <2>5 DEF Silent, NoMessage
  <2>10. PipeTypeOK'
    BY <1>0, <2>1, <2>3, <2>4 DEF PipeTypeOK
  <2>11. Stages'
    BY <1>0, <2>1, <2>9 DEF Stages, Drained, NoWorker, Loading, HalfAsked, Asking
  <2> QED
    BY <2>7, <2>8, <2>10, <2>11 DEF PipeInv
<1>10. CASE AnnounceReady
  <2> DEFINE f == Frame("ready", 0)
  <2>1. /\ worker.pc = "loading" /\ UNCHANGED <<host, nextId, running, channel, result, input>>
        /\ output' = Append(output, f) /\ worker' = [pc |-> "read", id |-> 0]
    BY <1>10 DEF AnnounceReady, hosting
  <2>2. f \in Frames /\ Message(f)
    BY <1>0 DEF Frames, Frame, Message
  <2>3. host.pc = "ready" /\ Loading /\ Silent
    BY <1>0, <2>1 DEF Stages, Drained, NoWorker, NoProcess, HalfAsked, Asking, Loading, PipeTypeOK
  <2> HIDE DEF f
  <2>4. output = <<>> /\ channel = <<>>
    BY <1>0, <2>1, <2>3, UpAndSilent DEF WorkerUp
  <2>5. output' \in Seq(Frames) /\ Len(output') = 1 /\ output'[1] = f
    BY <2>1, <2>2, <2>4
  <2>6. PipeTypeOK'
    BY <1>0, <2>1, <2>5 DEF PipeTypeOK
  <2>7. Stages'
    BY <2>1, <2>3 DEF Stages, Loading
  <2>8. OneMessage' /\ EndIsLast'
    BY <2>1, <2>2, <2>4, <2>5 DEF OneMessage, EndIsLast, NoMessage
  <2> QED
    BY <2>6, <2>7, <2>8 DEF PipeInv
<1>11. CASE Answer
  <2> DEFINE f == Frame("answer", worker.id)
  <2>1. /\ worker.pc = "handle" /\ UNCHANGED <<host, nextId, running, channel, result, input>>
        /\ output' = Append(output, f) /\ worker' = [pc |-> "read", id |-> 0]
    BY <1>11 DEF Answer, hosting
  <2>2. f \in Frames /\ Message(f)
    BY <1>0 DEF Frames, Frame, Message
  <2>3. host.pc = "wait" /\ Asking /\ Silent /\ input = <<>>
    BY <1>0, <2>1 DEF Stages, Drained, NoWorker, NoProcess, HalfAsked, Asking, Loading, PipeTypeOK
  <2> HIDE DEF f
  <2>4. output = <<>> /\ channel = <<>>
    BY <1>0, <2>1, <2>3, UpAndSilent DEF WorkerUp
  <2>5. output' \in Seq(Frames) /\ Len(output') = 1 /\ output'[1] = f
    BY <2>1, <2>2, <2>4
  <2>6. PipeTypeOK'
    BY <1>0, <2>1, <2>5 DEF PipeTypeOK
  <2>7. Stages'
    BY <2>1, <2>3 DEF Stages, Asking
  <2>8. OneMessage' /\ EndIsLast'
    BY <2>1, <2>2, <2>4, <2>5 DEF OneMessage, EndIsLast, NoMessage
  <2> QED
    BY <2>6, <2>7, <2>8 DEF PipeInv
<1>12. CASE ReadControl
  <2>1. /\ worker.pc = "read" /\ input # <<>> /\ input' = Tail(input)
        /\ UNCHANGED <<host, nextId, running, channel, result>>
        /\ \/ /\ Head(input).kind = "transcribe" /\ UNCHANGED output
              /\ worker' = [pc |-> "audio", id |-> Head(input).id]
           \/ /\ Head(input).kind = "classify" /\ UNCHANGED output
              /\ worker' = [pc |-> "handle", id |-> Head(input).id]
           \/ WorkerEnds
    BY <1>12 DEF ReadControl, hosting, WorkerEnds
  <2>2. /\ input' \in Seq(Frames) /\ Len(input') = Len(input) - 1 /\ Len(input) \in Nat
        /\ Len(input) = 1 => input' = <<>>
        /\ Head(input) = input[1] /\ Head(input) \in Frames
    BY <1>0, <2>1, HeadTailProperties
  <2>3. CASE WorkerEnds
    BY <1>0, <2>1, <2>2, <2>3, EndingKeeps DEF WorkerUp
  <2>4. CASE /\ Head(input).kind = "transcribe" /\ UNCHANGED output
             /\ worker' = [pc |-> "audio", id |-> Head(input).id]
    <3>1. PipeTypeOK'
      BY <1>0, <2>1, <2>2, <2>4 DEF PipeTypeOK, Frames
    <3>2. Stages'
      BY <1>0, <2>1, <2>2, <2>4 DEF Stages, Drained, NoWorker, Loading, HalfAsked, Asking, Silent,
                                    NoMessage
    <3> QED
      BY <1>0, <2>1, <2>4, <3>1, <3>2 DEF PipeInv, OneMessage, EndIsLast, NoMessage, WorkerUp
  <2>5. CASE /\ Head(input).kind = "classify" /\ UNCHANGED output
             /\ worker' = [pc |-> "handle", id |-> Head(input).id]
    <3>1. PipeTypeOK'
      BY <1>0, <2>1, <2>2, <2>5 DEF PipeTypeOK, Frames
    <3>2. Stages'
      BY <1>0, <2>1, <2>2, <2>5 DEF Stages, Drained, NoWorker, Loading, HalfAsked, Asking, Silent,
                                    NoMessage
    <3> QED
      BY <1>0, <2>1, <2>5, <3>1, <3>2 DEF PipeInv, OneMessage, EndIsLast, NoMessage, WorkerUp
  <2> QED
    BY <2>1, <2>3, <2>4, <2>5
<1>13. CASE ReadAudio
  <2>1. /\ worker.pc = "audio" /\ input # <<>> /\ input' = Tail(input)
        /\ UNCHANGED <<host, nextId, running, channel, result>>
        /\ \/ worker' = [worker EXCEPT !.pc = "handle"] /\ UNCHANGED output
           \/ WorkerEnds
    BY <1>13 DEF ReadAudio, hosting, WorkerEnds
  <2>2. /\ input' \in Seq(Frames) /\ Len(input') = Len(input) - 1 /\ Len(input) \in Nat
        /\ Len(input) = 1 => input' = <<>>
    BY <1>0, <2>1, HeadTailProperties
  <2>3. CASE WorkerEnds
    BY <1>0, <2>1, <2>2, <2>3, EndingKeeps DEF WorkerUp
  <2>4. CASE worker' = [worker EXCEPT !.pc = "handle"] /\ UNCHANGED output
    <3>1. worker' = [pc |-> "handle", id |-> worker.id]
      BY <1>0, <2>4
    <3>2. PipeTypeOK'
      BY <1>0, <2>1, <2>2, <2>4, <3>1 DEF PipeTypeOK
    <3>3. host.pc = "wait" /\ Asking
      BY <1>0, <2>1 DEF Stages, Drained, NoWorker, NoProcess, HalfAsked, Asking, Loading, PipeTypeOK
    <3>4. Stages'
      BY <2>1, <2>2, <2>4, <3>1, <3>3 DEF Stages, Asking, Silent, NoMessage
    <3> QED
      BY <1>0, <2>1, <2>4, <3>1, <3>2, <3>4 DEF PipeInv, OneMessage, EndIsLast, NoMessage, WorkerUp
  <2> QED
    BY <2>1, <2>3, <2>4
<1>14. CASE Crash
  <2>1. WorkerUp /\ WorkerEnds /\ UNCHANGED <<host, nextId, running, channel, result, input>>
    BY <1>14 DEF Crash, hosting, WorkerEnds
  <2> QED
    BY <1>0, <2>1, EndingKeeps
<1>15. CASE UNCHANGED pipeVars
  BY <1>15 DEF pipeVars, PipeInv, PipeTypeOK, OneMessage, EndIsLast, Stages, NoMessage, WorkerUp,
               NoWorker, Drained, Loading, HalfAsked, Asking, Silent
<1> QED
  BY <1>1, <1>2, <1>3, <1>4, <1>5, <1>6, <1>7, <1>8, <1>9, <1>10, <1>11, <1>12, <1>13, <1>14, <1>15
     DEF PipeNext

\* PersistentWorker: the worker is killed in every error case, so between two requests
\* no half-finished one is left in a pipe, in the channel or in the worker.
THEOREM PipesAreDrained == PipeSpec => []PipeDrained
<1>1. PipeInv => PipeDrained
  <2> SUFFICES ASSUME PipeInv, HostAt("rest")
               PROVE  IF running
                      THEN /\ \A f \in {output[i] : i \in DOMAIN output}
                                        \cup {channel[i] : i \in DOMAIN channel} :
                                f.kind = "nonsense"
                           /\ input = <<>> /\ worker.pc \in {"read", "ended"}
                      ELSE process = <<NoProcess, <<>>, <<>>>> /\ channel = <<>>
    BY DEF PipeDrained
  <2>1. CASE Drained
    BY <2>1 DEF Drained, Silent, NoMessage, Message
  <2>2. CASE ~running /\ NoWorker
    BY <2>2 DEF NoWorker, process
  <2> QED
    BY <2>1, <2>2 DEF PipeInv, Stages
<1> QED
  BY PipeStarts, PipeSteps, <1>1, PTL DEF PipeSpec
=============================================================================
