------------------------------- MODULE Delivery -------------------------------
(***************************************************************************)
(* Handing over a dictation: into the target where it began, to the        *)
(* clipboard for a minute, or to the result panel, while the user moves    *)
(* between windows and copies other things.  A target is                   *)
(*   [app, field, protected, editable, reports]                            *)
(* where the last tells whether its toolkit reports focus.  Settings are   *)
(* inputs of the step that reads them.                                     *)
(***************************************************************************)
EXTENDS Naturals, FiniteSets

CONSTANTS Dictations,          \* the texts, one for each session
          Copied,              \* what the user copies: [text : BOOLEAN, id]
          Targets, Excluded,   \* what can have the focus; applications excluded
          MaxMoves, MaxCopies  \* bounds: changes of focus, copies

\* "any" stands for the field of a window nothing is known of.
ASSUME DeliveryAssumption ==
  /\ {MaxMoves, MaxCopies} \subseteq Nat
  /\ \A t \in Targets :
       /\ t = [app |-> t.app, field |-> t.field, protected |-> t.protected,
               editable |-> t.editable, reports |-> t.reports]
       /\ t.field # "any"

VARIABLES
  backend,   \* how focus is seen: see Reported
  focus,     \* the target that has it
  seen,      \* Accessibility.focused: the last one reported
  now,       \* the session under way and where its delivery stands
  begun,     \* sessions begun
  inserted,  \* texts inserted, with where they were meant to go and went
  panel,     \* Shared.result
  board,     \* the clipboard
  leases,    \* restores that are due
  own,       \* what the user put on the clipboard
  moves, copies

deliveryVars == <<backend, focus, seen, now, begun, inserted, panel, board, leases, own, moves, copies>>

Unknown == [app |-> "unknown", field |-> "unknown", protected |-> FALSE,
            editable |-> FALSE, reports |-> FALSE]
NoText  == "none"
Nothing == [text |-> FALSE, id |-> NoText]
HandedOver  == [pc |-> "rest", text |-> NoText, from |-> Unknown, fallback |-> FALSE,
               previous |-> Nothing, steady |-> FALSE]
Dictated(d)  == [text |-> TRUE, id |-> d]
TextOf(what) == IF what.text THEN what ELSE Nothing

\* DesktopServices::focus: the accessible object reported last where a toolkit
\* reports any, the active window on X11 and Windows, nothing elsewhere.
Reported ==
  IF backend \in {"x11", "wayland"} /\ seen # Unknown THEN seen
  ELSE IF backend \in {"x11", "windows"} THEN [focus EXCEPT !.field = "any", !.protected = FALSE]
  ELSE Unknown

DeliveryInit ==
  /\ backend \in {"x11", "wayland", "windows", "macos"}
  /\ focus \in {t \in Targets : t.reports} /\ seen = Unknown
  /\ now = HandedOver /\ begun = {} /\ inserted = {} /\ panel = NoText
  /\ board \in Copied \cup {Nothing} /\ own = {board} /\ leases = {}
  /\ moves = 0 /\ copies = 0

rest == <<backend, begun, inserted, moves, copies>>   \* changed by few

-----------------------------------------------------------------------------
(* The user and the desktop *)

Move(t) ==
  /\ moves < MaxMoves /\ t # focus /\ focus' = t /\ moves' = moves + 1
  /\ now' = [now EXCEPT !.steady = FALSE]
  /\ UNCHANGED <<backend, seen, begun, inserted, panel, board, leases, own, copies>>

\* The tracking task learns of a change of focus some time later.
Notice ==
  /\ backend \in {"x11", "wayland"} /\ focus.reports /\ seen # focus /\ seen' = focus
  /\ UNCHANGED <<focus, now, panel, board, leases, own>> /\ UNCHANGED rest

Copy(what) ==
  /\ copies < MaxCopies /\ board' = what /\ own' = own \cup {what} /\ copies' = copies + 1
  /\ UNCHANGED <<backend, focus, seen, now, begun, inserted, panel, leases, moves>>

\* copy_result takes the result out of the panel before the clipboard is tried.
CopyResult(works) ==
  /\ panel # NoText /\ panel' = NoText
  /\ IF works THEN board' = Dictated(panel) /\ own' = own \cup {board'} ELSE UNCHANGED <<board, own>>
  /\ UNCHANGED <<focus, seen, now, leases>> /\ UNCHANGED rest

DismissResult ==
  /\ panel # NoText /\ panel' = NoText
  /\ UNCHANGED <<focus, seen, now, board, leases, own>> /\ UNCHANGED rest

-----------------------------------------------------------------------------
(* deliver *)

\* start_capture remembers the target.
Begin(d) ==
  /\ now = HandedOver /\ d \notin begun /\ begun' = begun \cup {d}
  /\ now' = [HandedOver EXCEPT !.pc = "recording", !.text = d, !.from = Reported]
  /\ UNCHANGED <<backend, focus, seen, inserted, panel, board, leases, own, moves, copies>>

ToPanel == panel' = now.text /\ now' = HandedOver

\* choose_delivery, for the capabilities the desktops report: focus can be
\* tracked exactly where text can be inserted.
Insertable_Mut(from, at) ==
  /\ from # Unknown /\ at # Unknown
  /\ ~at.protected /\ at.app \notin Excluded
Insertable(from, at) ==
  /\ from # Unknown /\ at # Unknown /\ from = at
  /\ ~at.protected /\ at.app \notin Excluded

Decide(automatic, disclosed) ==
  /\ now.pc = "recording"
  /\ IF automatic /\ Insertable(now.from, Reported)
     THEN /\ now' = [now EXCEPT !.pc = IF now.from.field = "any" THEN "type" ELSE "insert",
                                !.fallback = disclosed, !.steady = TRUE]
          /\ UNCHANGED panel
     ELSE ToPanel
  /\ UNCHANGED <<focus, seen, board, leases, own>> /\ UNCHANGED rest

InsertionFailed ==
  IF now.fallback THEN now' = [now EXCEPT !.pc = "place"] /\ UNCHANGED panel ELSE ToPanel

Entered(into, via) ==
  /\ inserted' = inserted \cup {[text |-> now.text, from |-> now.from, into |-> into,
                                 via |-> via, steady |-> now.steady]}
  /\ now' = HandedOver /\ UNCHANGED panel

\* Accessibility::insert looks again, and asks the application whether the
\* object has the focus; one that cannot be edited, or whose application refuses,
\* is typed into.
InsertObject(takes) ==
  /\ now.pc = "insert"
  /\ IF seen # now.from \/ focus # now.from
     THEN InsertionFailed /\ UNCHANGED inserted
     ELSE IF ~now.from.editable \/ ~takes
     THEN now' = [now EXCEPT !.pc = "type", !.steady = TRUE] /\ UNCHANGED <<panel, inserted>>
     ELSE Entered(now.from, "object")
  /\ UNCHANGED <<backend, focus, seen, begun, board, leases, own, moves, copies>>

\* type_with_enigo and type_via_portal: the keys go to whatever has the focus.
Type(works) ==
  /\ now.pc = "type"
  /\ IF works THEN Entered(focus, "keys") ELSE InsertionFailed /\ UNCHANGED inserted
  /\ UNCHANGED <<backend, focus, seen, begun, board, leases, own, moves, copies>>

\* clipboard::place reads what is there and then writes.
PlaceRead(works) ==
  /\ now.pc = "place"
  /\ IF works THEN now' = [now EXCEPT !.pc = "write", !.previous = TextOf(board)] /\ UNCHANGED panel
              ELSE ToPanel
  /\ UNCHANGED <<focus, seen, board, leases, own>> /\ UNCHANGED rest

Lease == [placed |-> Dictated(now.text), previous |-> now.previous, due |-> FALSE]

PlaceWrite(works) ==
  /\ now.pc = "write"
  /\ IF works
     THEN /\ board' = Dictated(now.text) /\ now' = HandedOver /\ UNCHANGED panel
          /\ leases' = leases \cup {Lease}
     ELSE ToPanel /\ UNCHANGED <<board, leases>>
  /\ UNCHANGED <<focus, seen, own>> /\ UNCHANGED rest

\* ClipboardLease::restore, a minute later on a thread of its own.
RestoreLook(lease) ==
  /\ ~lease.due
  /\ leases' = (leases \ {lease}) \cup
               (IF board = lease.placed THEN {[lease EXCEPT !.due = TRUE]} ELSE {})
  /\ UNCHANGED <<focus, seen, now, panel, board, own>> /\ UNCHANGED rest

RestoreWrite(lease) ==
  /\ lease.due /\ leases' = leases \ {lease} /\ board' = lease.previous
  /\ UNCHANGED <<focus, seen, now, panel, own>> /\ UNCHANGED rest

DeliveryNext ==
  \/ \E t \in Targets : Move(t)
  \/ \E what \in Copied : Copy(what)
  \/ Notice \/ DismissResult
  \/ \E d \in Dictations : Begin(d)
  \/ \E automatic, disclosed \in BOOLEAN : Decide(automatic, disclosed)
  \/ \E flag \in BOOLEAN : \/ CopyResult(flag) \/ InsertObject(flag) \/ Type(flag)
                           \/ PlaceRead(flag) \/ PlaceWrite(flag)
  \/ \E lease \in leases : RestoreLook(lease) \/ RestoreWrite(lease)

DeliverySpec == DeliveryInit /\ [][DeliveryNext]_deliveryVars

-----------------------------------------------------------------------------
\* A dictation is inserted only where it began, never into an excluded
\* application or what is known to be a password field.  Keys alone can miss, and
\* only if the focus moved after it was looked at last ("insertion never happens
\* into a changed or unverifiable target").
InsertedWhereStarted ==
  \A i \in inserted :
    /\ i.from.app \notin Excluded /\ ~i.from.protected
    /\ i.via = "object" => i.into = i.from
    /\ i.via = "keys" /\ i.steady => /\ i.into.app = i.from.app
                                     /\ i.from.field # "any" => i.into = i.from

\* Once no restore is due any more, no dictation is on the clipboard but one the
\* user put there ("Restore the user's previous clipboard after a minute, but only if
\* it still holds the dictation").
DictationTakenBack ==
  leases = {} /\ now.pc # "write" =>
    \A d \in Dictations : board = Dictated(d) => board \in own
=============================================================================
