------------------------------ MODULE Dictation ------------------------------
(***************************************************************************)
(* What the desktop promises about dictation sessions, with no threads,    *)
(* queues or effects.  A session is opened once, at most one is open at a  *)
(* time, and it ends in exactly one way: its text is handed to the user's  *)
(* application, it turns out silent, or it is dropped.  A session that was *)
(* dropped never yields text, one whose text was handed over is never      *)
(* dropped, and only such a session may leave a training copy.             *)
(*                                                                         *)
(* Controller, the model of src-tauri/src/controller.rs, implements this.  *)
(***************************************************************************)
CONSTANT Sessions

VARIABLES phase,   \* [Sessions -> Phase]
          copied   \* sessions whose training copy was taken

Phase == {"unused", "open", "delivered", "silent", "dropped"}

Init == /\ phase = [s \in Sessions |-> "unused"]
        /\ copied = {}

Open(s) == /\ phase[s] = "unused"
           /\ \A other \in Sessions : phase[other] # "open"
           /\ phase' = [phase EXCEPT ![s] = "open"]
           /\ UNCHANGED copied

End(s, how) == /\ phase[s] = "open"
               /\ phase' = [phase EXCEPT ![s] = how]
               /\ UNCHANGED copied

Copy(s) == /\ phase[s] = "delivered"
           /\ \A other \in Sessions : phase[other] # "open"
           /\ copied' = copied \cup {s}
           /\ UNCHANGED phase

Next == \E s \in Sessions : \/ Open(s)
                            \/ \E how \in {"delivered", "silent", "dropped"} : End(s, how)
                            \/ Copy(s)

Spec == Init /\ [][Next]_<<phase, copied>>
=============================================================================
