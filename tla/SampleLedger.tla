---------------------------- MODULE SampleLedger ----------------------------
(***************************************************************************)
(* The promise of SampleService as a specification: whatever the training  *)
(* service does, each of its commits is one of these changes of the        *)
(* record.  A withdrawal is two of them (the consent, then the samples),   *)
(* and a deletion of everything as well, since the service may end after   *)
(* the first; a client that got no answer asks again.  SampleStore and     *)
(* Training implement this.                                                *)
(***************************************************************************)
EXTENDS SampleService

CONSTANT MaxGrants
VARIABLE sv

Init == sv = NoService(MaxGrants)

\* The consents part of DeleteEverything.
WithdrawAll(record) == [DeleteEverything(record) EXCEPT !.held = record.held,
                                                        !.buried = record.buried]

Next == \/ \E c \in 1..MaxGrants : \/ sv' = Register(sv, c)
                                   \/ sv' = Withdraw(sv, c, {})
                                   \/ \E s \in Sessions : sv' \in Admit(sv, s, c)
        \/ \E s \in Sessions : sv' = Refuse(sv, s)
        \/ \E samples \in SUBSET Sessions : sv' = Remove(sv, samples)
        \/ sv' = WithdrawAll(sv)

Spec == Init /\ [][Next]_sv
=============================================================================
