------------------------------ MODULE JobTable ------------------------------
(***************************************************************************)
(* Consent and job policy of dictation-core (contribution.rs), as data:    *)
(* the job state table, when a consent permits contribution, and when a    *)
(* failed transfer is retried.  Contribution drives jobs through it.       *)
(***************************************************************************)
EXTENDS Naturals, Sequences

JobState == {"LocalPending", "Analyzing", "Building", "Eligible", "Uploading",
             "Acknowledged", "Rejected", "Deleted"}

Terminal == {"Acknowledged", "Rejected", "Deleted"}
Cancellable == JobState \ Terminal

\* JobState::may_transition: the states a job in `from' may be moved to.
Successors(from) ==
  CASE from = "LocalPending" -> {"Analyzing", "Rejected", "Deleted"}
    [] from = "Analyzing"    -> {"Building", "LocalPending", "Rejected", "Deleted"}
    [] from = "Building"     -> {"Eligible", "LocalPending", "Rejected", "Deleted"}
    [] from = "Eligible"     -> {"Uploading", "Rejected", "Deleted"}
    [] from = "Uploading"    -> {"Acknowledged", "Eligible", "Rejected", "Deleted"}
    [] from \in {"Acknowledged", "Rejected"} -> {"Deleted"}
    [] OTHER                 -> {}

-----------------------------------------------------------------------------
(* Consents are numbered in the order of their grants; insert_consent       *)
(* revokes every earlier one, so only the last can be unrevoked.  "expired" *)
(* stays so until revoked, whether or not the user pauses it.               *)
ConsentStatus == {"active", "paused", "expired", "revoked"}

\* current_consent: the last grant unless revoked, or 0 for None.
Current(consents) ==
  IF consents # << >> /\ consents[Len(consents)] # "revoked" THEN Len(consents) ELSE 0

\* recheck, for a version and purpose that match and a target that is open.
Permits(consents, c) == c > 0 /\ consents[c] = "active"

\* check_session: the consent a session may be contributed under, or 0.
\* began is the number of grants made when the session started.
ConsentFor_Mut(consents, began, optedOut) ==
  IF Permits(consents, Current(consents)) /\ ~optedOut THEN Current(consents) ELSE 0
ConsentFor(consents, began, optedOut) ==
  IF /\ Permits(consents, Current(consents))
     /\ began >= Current(consents)
     /\ ~optedOut
  THEN Current(consents) ELSE 0

\* retry_delay answers Some: this attempt is not the last one allowed.
MayRetry_Mut(attempts, maxAttempts) == attempts <= maxAttempts
MayRetry(attempts, maxAttempts) == attempts < maxAttempts
=============================================================================
