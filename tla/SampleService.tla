---------------------------- MODULE SampleService ----------------------------
(***************************************************************************)
(* What the training service promises its clients about samples, seen from *)
(* one tenant: each handler of dictation-server (http.rs) as one atomic    *)
(* operation on a record.  The handlers hold the store's mutex from first  *)
(* to last statement, and retries of a request reach it any number of      *)
(* times.  Uploads are named by their session: the code draws one          *)
(* idempotency key and one sample identifier for each package.             *)
(***************************************************************************)
EXTENDS Naturals

CONSTANT Sessions

NoService(grants) ==
  [consents |-> [c \in 1..grants |-> "unknown"],
   held     |-> {},                                  \* samples
   buried   |-> {},                                  \* tombstones
   receipts |-> [s \in Sessions |-> "none"]]

Service(grants) ==
  [consents : [1..grants -> {"unknown", "active", "withdrawn"}],
   held : SUBSET Sessions, buried : SUBSET Sessions,
   receipts : [Sessions -> {"none", "accepted", "refused"}]]

\* post_consent: the first registration counts, a later one changes nothing.
Register(sv, c) ==
  IF sv.consents[c] = "unknown" THEN [sv EXCEPT !.consents[c] = "active"] ELSE sv

Remove(sv, samples) ==
  [sv EXCEPT !.held = @ \ samples, !.buried = @ \cup samples]

\* withdraw_consent: under holds the samples received under consent c.
Withdraw(sv, c, under) ==
  LET told == IF sv.consents[c] = "active" THEN [sv EXCEPT !.consents[c] = "withdrawn"] ELSE sv
  IN  Remove(told, sv.held \cap under)

\* post_deletion for one receipt, and for everything the tenant has.
DeleteReceipt(sv, s) == IF sv.receipts[s] = "accepted" THEN Remove(sv, {s}) ELSE sv
DeleteEverything(sv) ==
  Remove([sv EXCEPT !.consents = [c \in DOMAIN @ |-> IF @[c] = "active" THEN "withdrawn"
                                                                       ELSE @[c]]],
         sv.held)

\* A refusal is recorded like a receipt: the first answer to an upload stands.
Refuse(sv, s) == IF sv.receipts[s] = "none" THEN [sv EXCEPT !.receipts[s] = "refused"] ELSE sv

\* admit: a retry gets the first receipt; otherwise the consent has to be active,
\* the sample must not have been deleted before, and the tenant's storage and the
\* package's checks are the service's choice.
Admissible(sv, s, c) ==
  sv.receipts[s] = "none" /\ sv.consents[c] = "active" /\ s \notin sv.buried
Admit(sv, s, c) ==
  IF Admissible(sv, s, c) THEN {[sv EXCEPT !.held = @ \cup {s}, !.receipts[s] = "accepted"],
                                Refuse(sv, s)}
                          ELSE {Refuse(sv, s)}
=============================================================================
