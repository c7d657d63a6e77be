------------------------------ MODULE Pairing -------------------------------
(***************************************************************************)
(* Pairing of a client with the local API.  Any program on the machine may *)
(* open a request and poll it, on the API's threads; the user approves or  *)
(* denies it by commands of the desktop, which run one after another on    *)
(* the main thread but interleave with the API between their locks.        *)
(*                                                                         *)
(* Time passes in ticks: Window ticks are the minute of the rate limit and *)
(* Lifetime ticks the five minutes a request lives.  A token is the number *)
(* of the row in api_clients that its approval inserted.                   *)
(***************************************************************************)
EXTENDS Naturals, FiniteSets, Sequences

CONSTANTS MaxPending,   \* MAX_PENDING
          MaxRecent,    \* MAX_REQUESTS_PER_MINUTE
          Window, Lifetime,
          MaxPairings,  \* bound: requests accepted
          MaxTokens     \* bound: approvals

ASSUME PairingAssumption ==
  /\ {MaxPending, MaxRecent, Window, Lifetime, MaxPairings, MaxTokens} \subseteq Nat \ {0}
  /\ Lifetime % Window = 0

VARIABLES
  entries,   \* Pairings.entries: pairing -> stage, age and token
  opened,    \* pairings accepted so far; names are random and never come back
  recent,    \* Pairings.recent: the age of each attempt, the oldest first
  clients,   \* api_clients: whether each row still stands
  approving, \* approve_pairing under way
  released   \* how often each token was given out by a poll

pairingVars == <<entries, opened, recent, clients, approving, released>>

Ids    == 1..MaxPairings
Tokens == 1..MaxTokens
NoPairing == [stage |-> "none", age |-> 0, token |-> 0]
Nobody == [pc |-> "idle", id |-> 0]

PairingInit ==
  /\ entries = [i \in Ids |-> NoPairing] /\ opened = 0
  /\ recent = <<>>
  /\ clients = <<>> /\ approving = Nobody /\ released = [t \in Tokens |-> 0]

-----------------------------------------------------------------------------
Kept == {i \in Ids : entries[i].stage # "none"}

\* prune
Pruned_Mut == entries
Pruned == [i \in Ids |-> IF entries[i].age < Lifetime THEN entries[i] ELSE NoPairing]

\* open: an attempt counts for the rate limit even if there is no room for it.
OpenPairing_Mut ==
  /\ Len(recent) <= MaxRecent /\ opened < MaxPairings
  /\ recent' = Append(recent, 0)
  /\ entries' = [Pruned EXCEPT ![opened + 1].stage = "Pending"]
  /\ opened' = opened + 1
  /\ UNCHANGED <<clients, approving, released>>
OpenPairing ==
  /\ Len(recent) < MaxRecent /\ opened < MaxPairings
  /\ recent' = Append(recent, 0)
  /\ IF Cardinality({i \in Ids : Pruned[i].stage = "Pending"}) < MaxPending
     THEN /\ entries' = [Pruned EXCEPT ![opened + 1].stage = "Pending"]
          /\ opened' = opened + 1
     ELSE entries' = Pruned /\ UNCHANGED opened
  /\ UNCHANGED <<clients, approving, released>>

\* pending, for the desktop's list.
ListPairings == entries' = Pruned /\ UNCHANGED <<opened, recent, clients, approving, released>>

\* poll with the request's secret; without it nothing but the pruning happens.
PollPairing_Mut(i) ==
  /\ entries[i].stage = "Approved"
  /\ entries' = Pruned
  /\ released' = IF Pruned[i].stage = "Approved"
                 THEN [released EXCEPT ![Pruned[i].token] = @ + 1] ELSE released
  /\ UNCHANGED <<opened, recent, clients, approving>>
PollPairing(i) ==
  /\ entries' = IF Pruned[i].stage \in {"Approved", "Denied"}
                THEN [Pruned EXCEPT ![i] = NoPairing] ELSE Pruned
  /\ released' = IF Pruned[i].stage = "Approved"
                 THEN [released EXCEPT ![Pruned[i].token] = @ + 1] ELSE released
  /\ UNCHANGED <<opened, recent, clients, approving>>

-----------------------------------------------------------------------------
(* Commands.  approve_pairing looks the request up, whatever its stage and  *)
(* age, inserts the client and hands its token to the request if that is    *)
(* still pending; what the request says is not looked at again.             *)
Command == approving = Nobody

LookUp(i) ==
  /\ Command /\ i \in Kept /\ Len(clients) < MaxTokens
  /\ approving' = [pc |-> "insert", id |-> i]
  /\ UNCHANGED <<entries, opened, recent, clients, released>>

InsertClient ==
  /\ approving.pc = "insert"
  /\ clients' = Append(clients, TRUE)
  /\ approving' = [approving EXCEPT !.pc = "approve"]
  /\ UNCHANGED <<entries, opened, recent, released>>

Approve ==
  /\ approving.pc = "approve"
  /\ entries' = [i \in Ids |-> IF i = approving.id /\ entries[i].stage = "Pending"
                               THEN [entries[i] EXCEPT !.stage = "Approved",
                                                       !.token = Len(clients)]
                               ELSE entries[i]]
  /\ approving' = Nobody
  /\ UNCHANGED <<opened, recent, clients, released>>

Deny(i) ==
  /\ Command /\ entries[i].stage = "Pending"
  /\ entries' = [entries EXCEPT ![i].stage = "Denied"]
  /\ UNCHANGED <<opened, recent, clients, approving, released>>

Revoke(t) ==
  /\ Command /\ t \in DOMAIN clients
  /\ clients' = [clients EXCEPT ![t] = FALSE]
  /\ UNCHANGED <<entries, opened, recent, approving, released>>

\* retain, when the next attempt looks: what is older than a minute counts no more.
Later ==
  /\ entries' = [i \in Ids |-> IF i \in Kept /\ entries[i].age < Lifetime
                               THEN [entries[i] EXCEPT !.age = @ + 1] ELSE entries[i]]
  /\ \E gone \in 0..Len(recent) :
       /\ \A n \in DOMAIN recent : n <= gone <=> recent[n] + 1 = Window
       /\ recent' = [n \in 1..(Len(recent) - gone) |-> recent[n + gone] + 1]
  /\ UNCHANGED <<opened, clients, approving, released>>

PairingNext == \/ OpenPairing \/ ListPairings \/ InsertClient \/ Approve \/ Later
               \/ \E i \in Ids : PollPairing(i) \/ LookUp(i) \/ Deny(i)
               \/ \E t \in Tokens : Revoke(t)

PairingSpec == PairingInit /\ [][PairingNext]_pairingVars

-----------------------------------------------------------------------------
PairingTypeOK ==
  /\ entries \in [Ids -> [stage : {"none", "Pending", "Approved", "Denied"},
                          age : 0..Lifetime, token : 0..MaxTokens]]
  /\ opened \in 0..MaxPairings
  /\ recent \in Seq(0..(Window - 1)) /\ Len(recent) <= MaxRecent
  /\ clients \in Seq(BOOLEAN) /\ Len(clients) <= MaxTokens
  /\ approving \in [pc : {"idle", "insert", "approve"}, id : 0..MaxPairings]
  /\ released \in [Tokens -> Nat]

\* "The token is released exactly once": at any time a token has one holder at the
\* most, a request that was approved and not yet answered, or the program that
\* polled it, however approvals, polls and expiry interleave.
TokenReleasedOnce ==
  \A t \in Tokens :
    released[t] + Cardinality({i \in Ids : entries[i].stage = "Approved"
                                           /\ entries[i].token = t}) <= 1

\* Anybody can open requests, but not grow the table without limit, although
\* answered requests do not count as pending and nothing prunes it in the background:
\* it holds no more than the rate limit lets through in a lifetime.
TableBounded == Cardinality(Kept) <= MaxRecent * (Lifetime \div Window)
=============================================================================
