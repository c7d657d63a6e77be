----------------------------- MODULE MCDelivery ------------------------------
(***************************************************************************)
(* Instances for Delivery: an editor with a text and a password field, a   *)
(* terminal, which has the focus but no editable text, an excluded bank    *)
(* and a game whose toolkit reports nothing.                               *)
(***************************************************************************)
EXTENDS Delivery

MCTargets ==
  {[app |-> t[1], field |-> t[2], protected |-> t[2] = "password",
    editable |-> t[2] # "terminal", reports |-> t[1] # "game"] :
     t \in {<<"editor", "body">>, <<"editor", "password">>, <<"shell", "terminal">>,
            <<"bank", "body">>, <<"game", "body">>}}

\* A text and an image.
MCCopied == {[text |-> TRUE, id |-> "c1"], [text |-> FALSE, id |-> "image"]}
=============================================================================
