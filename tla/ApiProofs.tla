----------------------------- MODULE ApiProofs ------------------------------
(***************************************************************************)
(* The local API: what a client's event stream hears, for any kinds of     *)
(* events, any capacity of the bus and any number of events and            *)
(* revocations; and pairing, for any limits and any number of requests and *)
(* approvals: how a token gets out, and how many requests the table can    *)
(* hold; and live captions, for any texts and margins and any number of    *)
(* passes: what a client shows that replaces segments by their identity.   *)
(***************************************************************************)
EXTENDS EventStream, Pairing, Captions, FiniteSetTheorems, SequenceTheorems, TLAPS

\* The type, in the form the proof needs it.
StreamShape ==
  /\ published \in Seq(Kinds) /\ Sent <= MaxPublished
  /\ revocations \in Nat /\ revokedAt \in Nat
  /\ stream = [pc |-> stream.pc, from |-> stream.from, next |-> stream.next,
               generation |-> stream.generation, heard |-> stream.heard, early |-> stream.early]
  /\ stream.pc \in {"none", "upgrade", "open", "sending", "closed"}
  /\ stream.from \in Nat /\ stream.next \in Nat /\ stream.generation \in Nat
  /\ stream.next <= Sent /\ stream.from <= stream.next
  /\ stream.pc \in {"none", "upgrade"} => stream.heard = {} /\ ~stream.early

\* What a stream has heard it has read.
HeardIsRead == \A i \in stream.heard : i \in Nat /\ i <= stream.next

\* A revocation that is complete is known by the row and, to every stream that
\* had begun before, by a counter that has moved since it looked last: such a
\* stream has read nothing beyond it.  The property says nothing of how far a
\* stream may still read.
RevocationSeen ==
  /\ stream.generation <= revocations
  /\ revoking => ~row
  /\ revokedAt # Never => ~row /\ ~revoking /\ revokedAt <= Sent
  /\ revokedAt = Never \/ revokedAt <= MaxPublished
  /\ stream.early /\ revokedAt # Never =>
       /\ stream.next <= revokedAt
       /\ stream.pc \in {"open", "sending"} => stream.generation # revocations

\* The event on its way to the client is one it may hear.
SendingPermitted ==
  stream.pc = "sending" => stream.from < stream.next /\ published[stream.next] \in Permitted

StreamInv == StreamShape /\ HeardIsRead /\ RevocationSeen /\ SendingPermitted /\ NothingMissed

-----------------------------------------------------------------------------
LEMMA StreamStarts == StreamInit => StreamInv
<1> SUFFICES ASSUME StreamInit PROVE StreamInv
  OBVIOUS
<1> USE StreamAssumption
<1>1. StreamShape
  BY DEF StreamInit, NoStream, StreamShape, Sent, Never
<1> QED
  BY <1>1 DEF StreamInit, NoStream, StreamInv, HeardIsRead, RevocationSeen, SendingPermitted,
                           NothingMissed, Never

\* Nothing but the stream itself changes when it ends, whatever ends it.
LEMMA ClosingKeepsInv ==
  ASSUME StreamInv, stream' = Closed, UNCHANGED Outside
  PROVE  StreamInv'
<1>1. /\ stream' = [pc |-> "closed", from |-> stream.from, next |-> stream.next,
                    generation |-> stream.generation, heard |-> stream.heard, early |-> stream.early]
      /\ UNCHANGED <<published, row, revocations, revoking, listener, revokedAt>>
  BY DEF Closed, StreamInv, StreamShape, Outside
<1> QED
  BY <1>1 DEF StreamInv, StreamShape, HeardIsRead, RevocationSeen, SendingPermitted, NothingMissed,
              Sent

\* Having looked at the token and found it good keeps the promises too.
LEMMA RecheckKeepsInv ==
  ASSUME StreamInv, ~Refused, stream.pc = "open", stream' = Rechecked, UNCHANGED Outside
  PROVE  StreamInv'
<1>1. /\ stream' = [pc |-> stream.pc, from |-> stream.from, next |-> stream.next,
                    generation |-> revocations, heard |-> stream.heard, early |-> stream.early]
      /\ UNCHANGED <<published, row, revocations, revoking, listener, revokedAt>>
  BY DEF Rechecked, StreamInv, StreamShape, Outside
<1> QED
  BY <1>1 DEF StreamInv, StreamShape, HeardIsRead, RevocationSeen, SendingPermitted,
              NothingMissed, Sent, Refused

LEMMA StreamSteps == StreamInv /\ [StreamNext]_streamVars => StreamInv'
<1> SUFFICES ASSUME StreamInv, [StreamNext]_streamVars PROVE StreamInv'
  OBVIOUS
<1> USE StreamAssumption
<1>1. ASSUME NEW kind \in Kinds, Publish(kind) PROVE StreamInv'
  <2>1. /\ published' \in Seq(Kinds) /\ Sent' = Sent + 1
        /\ \A i \in 1..Sent : published'[i] = published[i]
    BY <1>1 DEF Publish, Sent, StreamInv, StreamShape
  <2>2. Sent \in Nat
    BY DEF Sent, StreamInv, StreamShape
  <2>3. UNCHANGED <<row, revocations, revoking, listener, stream, revokedAt>> /\ Sent < MaxPublished
    BY <1>1 DEF Publish
  <2>4. StreamShape' /\ HeardIsRead' /\ RevocationSeen'
    BY <2>1, <2>2, <2>3 DEF StreamInv, StreamShape, HeardIsRead, RevocationSeen, Never
  <2>5. SendingPermitted'
    <3>1. stream.pc = "sending" => stream.next \in 1..Sent
      BY <2>2 DEF StreamInv, StreamShape, SendingPermitted
    <3> QED
      BY <2>1, <2>3, <3>1 DEF StreamInv, SendingPermitted
  <2>6. NothingMissed'
    <3>1. /\ stream.from \in Nat /\ stream.next \in Nat /\ stream.next <= Sent
          /\ UNCHANGED stream
      BY <2>3 DEF StreamInv, StreamShape
    <3>2. (stream.from + 1)..stream.next \subseteq 1..Sent
      BY <2>2, <3>1
    <3>3. \A i \in (stream.from + 1)..stream.next : published'[i] = published[i]
      BY <2>1, <3>2
    <3>4. {i \in (stream.from + 1)..stream.next : published'[i] \in Permitted}
            = {i \in (stream.from + 1)..stream.next : published[i] \in Permitted}
      BY <3>3
    <3> QED
      BY <3>1, <3>4 DEF StreamInv, NothingMissed
  <2> QED
    BY <2>4, <2>5, <2>6 DEF StreamInv
<1>2. CASE RevokeClient
  BY <1>2 DEF RevokeClient, StreamInv, StreamShape, HeardIsRead, RevocationSeen, SendingPermitted,
              NothingMissed, Sent
<1>3. CASE BumpRevocations
  <2>1. /\ revocations' = revocations + 1 /\ UNCHANGED <<published, row, listener, stream>>
        /\ \/ revoking /\ ~revoking' /\ revokedAt' = Sent
           \/ UNCHANGED <<revoking, revokedAt>>
    BY <1>3 DEF BumpRevocations
  <2>2. Sent \in Nat /\ Sent <= MaxPublished
    BY DEF Sent, StreamInv, StreamShape
  <2>3. UNCHANGED Sent
    BY <2>1 DEF Sent
  <2>4. StreamShape' /\ HeardIsRead' /\ SendingPermitted' /\ NothingMissed'
    BY <2>1, <2>2, <2>3 DEF StreamInv, StreamShape, HeardIsRead, SendingPermitted, NothingMissed
  <2>5. RevocationSeen'
    BY <2>1, <2>2, <2>3 DEF StreamInv, StreamShape, RevocationSeen, Never
  <2> QED
    BY <2>4, <2>5 DEF StreamInv
<1>4. CASE Connect \/ Reconnect
  <2>1. PICK pc \in {"none", "upgrade"} :
          stream' = [pc |-> pc, from |-> 0, next |-> 0, generation |-> 0, heard |-> {}, early |-> FALSE]
    BY <1>4 DEF Connect, Reconnect, NoStream
  <2>2. UNCHANGED <<published, row, revocations, revoking, listener, revokedAt>>
    BY <1>4 DEF Connect, Reconnect, Outside
  <2> QED
    BY <2>1, <2>2 DEF StreamInv, StreamShape, HeardIsRead, RevocationSeen, SendingPermitted,
              NothingMissed, Sent
<1>5. CASE Subscribe
  <2>1. /\ stream'.pc = "open" /\ stream'.from = Sent /\ stream'.next = Sent
        /\ stream'.generation = revocations /\ stream'.heard = stream.heard /\ stream.heard = {}
        /\ stream'.early <=> revokedAt = Never
        /\ stream' = [pc |-> stream'.pc, from |-> stream'.from, next |-> stream'.next,
                      generation |-> stream'.generation, heard |-> stream'.heard,
                      early |-> stream'.early]
        /\ UNCHANGED <<published, row, revocations, revoking, listener, revokedAt>>
    BY <1>5 DEF Subscribe, StreamInv, StreamShape, Outside
  <2>2. Sent \in Nat
    BY DEF Sent, StreamInv, StreamShape
  <2>3. UNCHANGED Sent
    BY <2>1 DEF Sent
  <2>4. StreamShape' /\ HeardIsRead' /\ RevocationSeen' /\ SendingPermitted'
    BY <2>1, <2>2, <2>3 DEF StreamInv, StreamShape, HeardIsRead, RevocationSeen, SendingPermitted
  <2>5. (Sent + 1)..Sent = {}
    BY <2>2
  <2>6. NothingMissed'
    BY <2>1, <2>3, <2>5 DEF NothingMissed
  <2> QED
    BY <2>4, <2>6 DEF StreamInv
<1>6. CASE Receive
  <2>1. CASE Refused \/ Lagged
    BY <1>6, <2>1, ClosingKeepsInv DEF Receive
  <2>2. CASE ~(Refused \/ Lagged)
    <3>1. PICK pc \in {"sending", "open"} :
            /\ pc = "sending" <=> published[stream.next + 1] \in Permitted
            /\ stream' = [pc |-> pc, from |-> stream.from, next |-> stream.next + 1,
                          generation |-> revocations, heard |-> stream.heard, early |-> stream.early]
      BY <1>6, <2>2 DEF Receive, Rechecked, StreamInv, StreamShape
    <3>2. /\ UNCHANGED <<published, row, revocations, revoking, listener, revokedAt, Sent>>
          /\ stream.pc = "open" /\ stream.next < Sent /\ Sent \in Nat
      BY <1>6 DEF Receive, Outside, Sent, StreamInv, StreamShape
    <3>3. StreamShape' /\ HeardIsRead' /\ SendingPermitted'
      BY <3>1, <3>2 DEF StreamInv, StreamShape, HeardIsRead, SendingPermitted
    <3>4. RevocationSeen'
      BY <2>2, <3>1, <3>2 DEF StreamInv, StreamShape, RevocationSeen, Refused
    <3>5. NothingMissed'
      BY <3>1, <3>2 DEF StreamInv, StreamShape, NothingMissed
    <3> QED
      BY <3>3, <3>4, <3>5 DEF StreamInv
  <2> QED
    BY <2>1, <2>2
<1>7. CASE Send
  <2>1. CASE stream' = Closed
    BY <1>7, <2>1, ClosingKeepsInv DEF Send
  <2>2. CASE stream' = [stream EXCEPT !.pc = "open", !.heard = @ \cup {stream.next}]
    <3>1. /\ stream' = [pc |-> "open", from |-> stream.from, next |-> stream.next,
                        generation |-> stream.generation, heard |-> stream.heard \cup {stream.next},
                        early |-> stream.early]
          /\ UNCHANGED <<published, row, revocations, revoking, listener, revokedAt, Sent>>
          /\ stream.pc = "sending"
      BY <1>7, <2>2 DEF Send, Outside, Sent, StreamInv, StreamShape
    <3>2. StreamShape' /\ HeardIsRead' /\ RevocationSeen' /\ SendingPermitted'
      BY <3>1 DEF StreamInv, StreamShape, HeardIsRead, RevocationSeen, SendingPermitted
    <3>3. NothingMissed'
      BY <3>1 DEF StreamInv, StreamShape, SendingPermitted, NothingMissed
    <3> QED
      BY <3>2, <3>3 DEF StreamInv
  <2> QED
    BY <1>7, <2>1, <2>2 DEF Send
<1>8. CASE CheckRevocation
  BY <1>8, ClosingKeepsInv, RecheckKeepsInv DEF CheckRevocation
<1>9. CASE Leave
  BY <1>9, ClosingKeepsInv DEF Leave
<1>10. CASE StopListener \/ StartListener
  BY <1>10 DEF StopListener, StartListener, StreamInv, StreamShape, HeardIsRead, RevocationSeen,
               SendingPermitted,
              NothingMissed, Sent
<1>11. CASE ListenerEnds
  <2>1. CASE UNCHANGED stream
    BY <1>11, <2>1 DEF ListenerEnds, StreamInv, StreamShape, HeardIsRead, RevocationSeen,
                      SendingPermitted, NothingMissed, Sent
  <2>2. CASE stream' = Closed
    BY <1>11, <2>2 DEF ListenerEnds, Closed, StreamInv, StreamShape, HeardIsRead, RevocationSeen,
                      SendingPermitted, NothingMissed, Sent
  <2> QED
    BY <1>11, <2>1, <2>2 DEF ListenerEnds
<1>12. CASE UNCHANGED streamVars
  BY <1>12 DEF streamVars, StreamInv, StreamShape, HeardIsRead, RevocationSeen, SendingPermitted,
              NothingMissed, Sent
<1> QED
  BY <1>1, <1>2, <1>3, <1>4, <1>5, <1>6, <1>7, <1>8, <1>9, <1>10, <1>11, <1>12 DEF StreamNext

\* The event stream of server.rs never goes on over a gap: what lagged is closed.
THEOREM StreamHasNoGaps == StreamSpec => []NothingMissed
<1>1. StreamInv => NothingMissed
  BY DEF StreamInv
<1> QED
  BY StreamStarts, StreamSteps, <1>1, PTL DEF StreamSpec

\* Once revoke_client is done, a stream that had begun hears nothing published later.
THEOREM RevocationSilences == StreamSpec => []RevokedHearsNothing
<1>1. StreamInv => RevokedHearsNothing
  <2> SUFFICES ASSUME StreamInv, stream.early, NEW i \in stream.heard PROVE i <= revokedAt
    BY DEF RevokedHearsNothing
  <2>1. i \in Nat /\ i <= stream.next /\ stream.next <= MaxPublished
    BY StreamAssumption DEF StreamInv, StreamShape, HeardIsRead, Sent
  <2> QED
    BY <2>1, StreamAssumption DEF StreamInv, StreamShape, RevocationSeen, Never
<1> QED
  BY StreamStarts, StreamSteps, <1>1, PTL DEF StreamSpec

-----------------------------------------------------------------------------
\* The rate limit in the ages of what is in the table.  Names are given out in
\* order, so as long as i's own attempt counts, those of all later requests count
\* too: it stands at least that far from the end of recent.
Recency ==
  /\ \A m, n \in DOMAIN recent : m <= n => recent[m] >= recent[n]
  /\ \A i \in Kept :
       /\ i <= opened
       /\ entries[i].age < Window =>
            /\ opened - i < Len(recent)
            /\ recent[Len(recent) - (opened - i)] <= entries[i].age

\* So a request is a window older than the one MaxRecent after it, unless it is
\* over and nobody looked yet.
Spaced(es) ==
  \A i, j \in Ids :
    es[i].stage # "none" /\ es[j].stage # "none" /\ i + MaxRecent <= j
      => es[i].age = Lifetime \/ es[i].age >= es[j].age + Window

Blank(es) == \A i \in Ids : es[i].stage = "none" => es[i] = NoPairing

TableInv == PairingTypeOK /\ Recency /\ Spaced(entries) /\ Blank(entries) /\ TableBounded

\* Where a token is: its row is there, one request has it at the most, none has it
\* once a poll gave it out, and none has it yet while approve_pairing is about to
\* hand it over.
Holds(i, t) == entries[i].stage = "Approved" /\ entries[i].token = t
TokensInv ==
  /\ \A i \in Ids : entries[i].stage = "Approved" =>
       entries[i].token \in 1..Len(clients) /\ released[entries[i].token] = 0
  /\ \A i, j \in Ids, t \in Tokens : Holds(i, t) /\ Holds(j, t) => i = j
  /\ \A t \in Tokens : released[t] <= 1 /\ (t > Len(clients) => released[t] = 0)
  /\ approving.pc = "insert" => Len(clients) < MaxTokens
  /\ approving.pc = "approve" =>
       /\ Len(clients) > 0 /\ released[Len(clients)] = 0
       /\ \A i \in Ids : ~Holds(i, Len(clients))

-----------------------------------------------------------------------------
LEMMA DivMod ==
  ASSUME NEW a \in Nat, NEW b \in Nat \ {0}
  PROVE  /\ a \div b \in Nat /\ a % b \in 0..(b - 1)
         /\ a = b * (a \div b) + (a % b)
  OBVIOUS

\* Two numbers with one remainder are a divisor apart.
LEMMA SameRemainder ==
  ASSUME NEW b \in Nat \ {0}, NEW i \in Nat, NEW j \in Nat, i < j, i % b = j % b
  PROVE  i + b <= j
<1>1. /\ i \div b \in Nat /\ i = b * (i \div b) + (i % b)
      /\ j \div b \in Nat /\ j = b * (j \div b) + (j % b)
      /\ i % b \in 0..(b - 1)
  BY DivMod
<1> DEFINE p == i \div b
           q == j \div b
           r == i % b
<1>2. p \in Nat /\ q \in Nat /\ r \in Nat /\ i = b * p + r /\ j = b * q + r
  BY <1>1
<1> HIDE DEF p, q, r
<1>3. p < q
  <2>1. SUFFICES ASSUME q <= p PROVE FALSE
    BY <1>2
  <2> QED
    BY <1>2, <2>1
<1>4. b * q >= b * p + b
  <2>1. PICK d \in Nat : q = p + 1 + d
    <3>1. q - p - 1 \in Nat /\ q = p + 1 + (q - p - 1)
      BY <1>2, <1>3
    <3> QED
      BY <3>1
  <2>2. b * q = b * p + b + b * d /\ b * d \in Nat /\ b * p \in Nat
    BY <1>2, <2>1
  <2> QED
    BY <1>2, <2>2
<1> QED
  <2>1. b * p \in Nat /\ b * q \in Nat
    BY <1>2
  <2> QED
    BY <1>2, <1>4, <2>1

\* Numbers a divisor apart have different quotients, and a number below a multiple
\* has a quotient below the multiple's.
LEMMA QuotientsApart ==
  ASSUME NEW b \in Nat \ {0}, NEW i \in Nat, NEW j \in Nat, i >= j + b
  PROVE  i \div b # j \div b
<1>1. /\ i \div b \in Nat /\ i % b \in 0..(b - 1) /\ i = b * (i \div b) + (i % b)
      /\ j \div b \in Nat /\ j % b \in 0..(b - 1) /\ j = b * (j \div b) + (j % b)
  BY DivMod
<1> DEFINE p == i \div b
           q == j \div b
           r == i % b
           s == j % b
<1> SUFFICES ASSUME p = q PROVE FALSE
  OBVIOUS
<1>2. /\ i = b * p + r /\ j = b * p + s /\ b * p \in Nat /\ r \in 0..(b - 1) /\ s \in 0..(b - 1)
  BY <1>1
<1> HIDE DEF p, q, r, s
<1> QED
  BY <1>2

LEMMA QuotientBounded ==
  ASSUME NEW b \in Nat \ {0}, NEW i \in Nat, NEW n \in Nat, n % b = 0, i < n
  PROVE  i \div b \in 0..((n \div b) - 1)
<1> DEFINE p == i \div b
           q == n \div b
           r == i % b
<1>1. /\ p \in Nat /\ q \in Nat /\ r \in Nat /\ i = b * p + r /\ n = b * q
  BY DivMod
<1> HIDE DEF p, q, r
<1>2. SUFFICES ASSUME q <= p PROVE FALSE
  BY <1>1 DEF p, q
<1>3. PICK d \in Nat : p = q + d
  <2>1. p - q \in Nat /\ p = q + (p - q)
    BY <1>1, <1>2
  <2> QED
    BY <2>1
<1>4. b * p = b * q + b * d /\ b * d \in Nat /\ b * q \in Nat
  BY <1>1, <1>3
<1> QED
  BY <1>1, <1>4

-----------------------------------------------------------------------------
LEMMA Bounds ==
  /\ MaxPending \in Nat \ {0} /\ MaxRecent \in Nat \ {0} /\ Window \in Nat \ {0}
  /\ Lifetime \in Nat \ {0} /\ MaxPairings \in Nat \ {0} /\ MaxTokens \in Nat \ {0}
  /\ Lifetime % Window = 0 /\ Window <= Lifetime
<1>1. Lifetime = Window * (Lifetime \div Window) + (Lifetime % Window)
      /\ Lifetime \div Window \in Nat
  BY PairingAssumption, DivMod
<1> DEFINE q == Lifetime \div Window
<1>2. Lifetime = Window * q /\ q \in Nat /\ Lifetime \in Nat \ {0} /\ Window \in Nat \ {0}
  BY <1>1, PairingAssumption
<1>3. Window <= Lifetime
  <2> HIDE DEF q
  <2>1. q # 0
    BY <1>2
  <2>2. PICK d \in Nat : q = d + 1
    <3>1. q - 1 \in Nat /\ q = (q - 1) + 1
      BY <1>2, <2>1
    <3> QED
      BY <3>1
  <2>3. Window * q = Window * d + Window /\ Window * d \in Nat
    BY <1>2, <2>2
  <2> QED
    BY <1>2, <2>3
<1> QED
  BY <1>3, PairingAssumption

\* What the rate limit lets through in a lifetime: requests that are spaced go into
\* MaxRecent columns, by their number, of one request per window, by its age.
LEMMA SpacedAreFew ==
  ASSUME NEW es \in [Ids -> [stage : {"none", "Pending", "Approved", "Denied"},
                             age : 0..Lifetime, token : 0..MaxTokens]],
         \A i \in Ids : es[i].stage # "none" => es[i].age < Lifetime,
         Spaced(es)
  PROVE  Cardinality({i \in Ids : es[i].stage # "none"}) <= MaxRecent * (Lifetime \div Window)
<1> DEFINE K == {i \in Ids : es[i].stage # "none"}
           Columns == 0..(MaxRecent - 1)
           Rows == 0..((Lifetime \div Window) - 1)
           f == [i \in K |-> <<i % MaxRecent, es[i].age \div Window>>]
<1>1. \A i \in K : i \in Nat /\ es[i].age \in Nat /\ es[i].age < Lifetime
  BY Bounds DEF Ids
<1>2. \A i \in K : i % MaxRecent \in Columns
  BY <1>1, Bounds, DivMod
<1>3. \A i \in K : es[i].age \div Window \in Rows
  BY <1>1, Bounds, QuotientBounded
<1>4. \A i, j \in K : i < j => f[i] # f[j]
  <2> SUFFICES ASSUME NEW i \in K, NEW j \in K, i < j, i % MaxRecent = j % MaxRecent
               PROVE  es[i].age \div Window # es[j].age \div Window
    OBVIOUS
  <2>1. i + MaxRecent <= j
    BY <1>1, Bounds, SameRemainder
  <2>2. es[i].age >= es[j].age + Window
    BY <2>1, <1>1, Bounds DEF Spaced
  <2> QED
    BY <2>2, <1>1, Bounds, QuotientsApart
<1>5. f \in Injection(K, Columns \X Rows)
  <2>1. f \in [K -> Columns \X Rows]
    BY <1>2, <1>3
  <2>2. \A i, j \in K : f[i] = f[j] => i = j
    <3> HIDE DEF f
    <3> QED
      BY <1>1, <1>4
  <2> QED
    BY <2>1, <2>2 DEF Injection, IsInjective
<1>6. IsFiniteSet(Columns \X Rows)
      /\ Cardinality(Columns \X Rows) = MaxRecent * (Lifetime \div Window)
  <2>1. Lifetime \div Window \in Nat
    BY Bounds, DivMod
  <2>2. IsFiniteSet(Columns) /\ Cardinality(Columns) = MaxRecent
    BY Bounds, FS_Interval
  <2>3. IsFiniteSet(Rows) /\ Cardinality(Rows) = Lifetime \div Window
    BY <2>1, FS_Interval
  <2> HIDE DEF Columns, Rows
  <2> QED
    BY <2>2, <2>3, FS_Product
<1> HIDE DEF K, f, Columns, Rows
<1>7. Cardinality(K) <= Cardinality(Columns \X Rows)
  BY <1>5, <1>6, FS_Injection
<1> QED
  BY <1>6, <1>7 DEF K

-----------------------------------------------------------------------------
Entry == [stage : {"none", "Pending", "Approved", "Denied"}, age : 0..Lifetime,
          token : 0..MaxTokens]

LEMMA BlankIsTyped == NoPairing \in Entry
  BY Bounds DEF NoPairing, Entry

LEMMA PrunedIsTyped ==
  ASSUME PairingTypeOK
  PROVE  Pruned \in [Ids -> Entry]
  BY BlankIsTyped DEF Pruned, PairingTypeOK, Entry

LEMMA TableStarts == PairingInit => TableInv /\ TokensInv
<1> SUFFICES ASSUME PairingInit PROVE TableInv /\ TokensInv
  OBVIOUS
<1>1. entries = [i \in Ids |-> NoPairing] /\ Kept = {}
  BY DEF PairingInit, Kept, NoPairing
<1>2. PairingTypeOK
  BY <1>1, BlankIsTyped, Bounds DEF PairingInit, PairingTypeOK, Nobody, Entry, Tokens
<1>3. Recency /\ Spaced(entries) /\ Blank(entries)
  BY <1>1 DEF PairingInit, Recency, Spaced, Blank, NoPairing
<1>4. TableBounded
  <2>1. Lifetime \div Window \in Nat
    BY Bounds, DivMod
  <2>2. MaxRecent * (Lifetime \div Window) \in Nat
    BY <2>1, Bounds
  <2> QED
    BY <1>1, <2>2, FS_EmptySet DEF TableBounded
<1>5. TokensInv
  BY <1>1 DEF PairingInit, TokensInv, Holds, NoPairing, Nobody
<1> QED
  BY <1>2, <1>3, <1>4, <1>5 DEF TableInv

\* What leaves the table, and what changes but its age, bothers the others not.
LEMMA ThinningKeeps ==
  ASSUME TableInv, PairingTypeOK', UNCHANGED <<opened, recent>>,
         \A i \in Ids : \/ entries'[i] = NoPairing
                        \/ /\ entries[i].stage # "none" /\ entries'[i].stage # "none"
                           /\ entries'[i].age = entries[i].age
  PROVE  TableInv'
<1>1. \A i \in Ids : entries'[i].stage # "none" =>
        entries[i].stage # "none" /\ entries'[i].age = entries[i].age
  BY DEF NoPairing
<1>2. Kept' \subseteq Kept
  BY <1>1 DEF Kept
<1>3. Recency'
  BY <1>1, <1>2 DEF TableInv, Recency, Kept
<1>4. Spaced(entries)'
  BY <1>1 DEF TableInv, Spaced
<1>5. Blank(entries)'
  BY DEF Blank
<1>6. TableBounded'
  <2>1. IsFiniteSet(Kept) /\ Cardinality(Kept) \in Nat
    <3>1. IsFiniteSet(Ids)
      BY Bounds, FS_Interval DEF Ids
    <3> QED
      BY <3>1, FS_Subset, FS_CardinalityType DEF Kept
  <2>2. IsFiniteSet(Kept') /\ Cardinality(Kept') <= Cardinality(Kept) /\ Cardinality(Kept') \in Nat
    BY <1>2, <2>1, FS_Subset, FS_CardinalityType
  <2>3. Lifetime \div Window \in Nat
    BY Bounds, DivMod
  <2>4. MaxRecent * (Lifetime \div Window) \in Nat
    BY <2>3, Bounds
  <2>5. Cardinality(Kept') <= MaxRecent * (Lifetime \div Window)
    BY <2>1, <2>2, <2>4 DEF TableInv, TableBounded
  <2> QED
    BY <2>5 DEF TableBounded, Kept
<1> QED
  BY <1>3, <1>4, <1>5, <1>6 DEF TableInv

\* open, for the table: what is pruned is old enough to be anywhere, and the new
\* request is behind all whose attempts still count.
LEMMA OpeningKeepsTable ==
  ASSUME TableInv, OpenPairing, PairingTypeOK'
  PROVE  TableInv'
<1> DEFINE new == opened + 1
<1>1. /\ opened \in Nat /\ new \in Ids /\ Len(recent) \in Nat
      /\ recent \in Seq(0..(Window - 1)) /\ Len(recent) < MaxRecent
      /\ entries \in [Ids -> Entry]
  BY Bounds DEF TableInv, PairingTypeOK, OpenPairing, Ids, Entry
<1>2. /\ recent' = Append(recent, 0) /\ Len(recent') = Len(recent) + 1
      /\ recent'[Len(recent) + 1] = 0
      /\ \A n \in 1..Len(recent) : recent'[n] = recent[n] /\ recent[n] \in Nat
  BY <1>1, Bounds DEF OpenPairing
<1>3. entries[new] = NoPairing
  BY <1>1 DEF TableInv, Recency, Blank, Kept
<1>4. /\ \A i \in Ids : i # new => entries'[i] = Pruned[i]
      /\ \/ entries'[new] = [stage |-> "Pending", age |-> 0, token |-> 0] /\ opened' = opened + 1
         \/ entries'[new] = NoPairing /\ opened' = opened
  <2>1. Pruned \in [Ids -> Entry] /\ Pruned[new] = NoPairing
    BY <1>1, <1>3, Bounds, PrunedIsTyped DEF Pruned, NoPairing, TableInv
  <2>2. CASE entries' = [Pruned EXCEPT ![opened + 1].stage = "Pending"] /\ opened' = opened + 1
    BY <1>1, <2>1, <2>2 DEF NoPairing
  <2>3. CASE entries' = Pruned /\ UNCHANGED opened
    BY <2>1, <2>3
  <2> QED
    BY <2>2, <2>3 DEF OpenPairing
<1>5. \A i \in Ids : entries'[i].stage # "none" =>
        /\ entries'[i].age < Lifetime
        /\ \/ i = new /\ entries'[i].age = 0 /\ opened' = opened + 1
           \/ /\ i # new /\ i \in Kept /\ i <= opened /\ i \in Nat
              /\ entries'[i].age = entries[i].age /\ entries[i].age \in Nat
  <2> SUFFICES ASSUME NEW i \in Ids, entries'[i].stage # "none"
               PROVE  /\ entries'[i].age < Lifetime
                      /\ \/ i = new /\ entries'[i].age = 0 /\ opened' = opened + 1
                         \/ /\ i # new /\ i \in Kept /\ i <= opened /\ i \in Nat
                            /\ entries'[i].age = entries[i].age /\ entries[i].age \in Nat
    OBVIOUS
  <2>1. CASE i = new
    BY <1>4, <2>1, Bounds DEF NoPairing
  <2>2. CASE i # new
    <3>1. entries[i].age < Lifetime /\ entries'[i] = entries[i]
      BY <1>4, <2>2 DEF Pruned, NoPairing
    <3>2. i \in Kept /\ i \in Nat /\ entries[i].age \in Nat
      BY <1>1, <3>1, Bounds DEF Kept, Entry, Ids
    <3> QED
      BY <2>2, <3>1, <3>2 DEF TableInv, Recency
  <2> QED
    BY <2>1, <2>2
<1>6. Recency'
  <2>1. \A m, n \in DOMAIN recent' : m <= n => recent'[m] >= recent'[n]
    BY <1>1, <1>2 DEF TableInv, Recency
  <2>2. ASSUME NEW i \in Ids, entries'[i].stage # "none"
        PROVE  /\ i <= opened'
               /\ entries'[i].age < Window =>
                    /\ opened' - i < Len(recent')
                    /\ recent'[Len(recent') - (opened' - i)] <= entries'[i].age
    <3>1. CASE i = new /\ entries'[i].age = 0 /\ opened' = opened + 1
      BY <1>1, <1>2, <3>1
    <3>2. CASE /\ i # new /\ i \in Kept /\ i <= opened /\ i \in Nat
               /\ entries'[i].age = entries[i].age /\ entries[i].age \in Nat
      <4>1. i <= opened' /\ opened' \in {opened, opened + 1}
        BY <1>1, <1>4, <3>2
      <4> SUFFICES ASSUME entries[i].age < Window
                   PROVE  /\ opened' - i < Len(recent')
                          /\ recent'[Len(recent') - (opened' - i)] <= entries[i].age
        BY <3>2, <4>1
      <4> DEFINE k == Len(recent) - (opened - i)
      <4>2. k \in 1..Len(recent) /\ recent[k] <= entries[i].age
        BY <1>1, <3>2 DEF TableInv, Recency
      <4>3. CASE opened' = opened + 1
        <5>1. Len(recent') - (opened' - i) = k
          BY <1>1, <1>2, <3>2, <4>3
        <5> HIDE DEF k
        <5> QED
          BY <1>1, <1>2, <3>2, <4>2, <4>3, <5>1
      <4>4. CASE opened' = opened
        <5>1. Len(recent') - (opened' - i) = k + 1
          BY <1>1, <1>2, <3>2, <4>4
        <5>2. k < Len(recent) => recent[k + 1] <= recent[k]
          BY <1>1, <4>2 DEF TableInv, Recency
        <5>3. opened' - i < Len(recent')
          BY <1>1, <1>2, <3>2, <4>2, <4>4
        <5> HIDE DEF k
        <5> QED
          BY <1>1, <1>2, <3>2, <4>2, <5>1, <5>2, <5>3
      <4> QED
        BY <4>1, <4>3, <4>4
    <3> QED
      BY <1>5, <2>2, <3>1, <3>2
  <2> QED
    BY <2>1, <2>2 DEF Recency, Kept
<1>7. Spaced(entries)'
  <2> SUFFICES ASSUME NEW i \in Ids, NEW j \in Ids, entries'[i].stage # "none",
                      entries'[j].stage # "none", i + MaxRecent <= j
               PROVE  entries'[i].age = Lifetime \/ entries'[i].age >= entries'[j].age + Window
    BY DEF Spaced
  <2>1. i # new /\ i \in Kept /\ i \in Nat /\ i <= opened
        /\ entries'[i].age = entries[i].age /\ entries[i].age \in Nat
    BY <1>1, <1>5, Bounds DEF Ids
  <2>2. CASE j = new /\ entries'[j].age = 0
    BY <1>1, <2>1, <2>2, Bounds DEF TableInv, Recency
  <2>3. CASE j \in Kept /\ entries'[j].age = entries[j].age
    BY <2>1, <2>3 DEF TableInv, Spaced, Kept
  <2> QED
    BY <1>5, <2>2, <2>3
<1>8. Blank(entries)'
  BY <1>1, <1>4 DEF Blank, TableInv, Pruned, NoPairing
<1>9. TableBounded'
  <2>1. entries' \in [Ids -> [stage : {"none", "Pending", "Approved", "Denied"},
                              age : 0..Lifetime, token : 0..MaxTokens]]
    BY DEF PairingTypeOK
  <2>2. Spaced(entries')
    BY <1>7 DEF Spaced
  <2>3. \A i \in Ids : entries'[i].stage # "none" => entries'[i].age < Lifetime
    BY <1>5
  <2>4. Cardinality({i \in Ids : entries'[i].stage # "none"}) <= MaxRecent * (Lifetime \div Window)
    BY <2>1, <2>2, <2>3, SpacedAreFew
  <2> QED
    BY <2>4 DEF TableBounded, Kept
<1> QED
  BY <1>6, <1>7, <1>8, <1>9 DEF TableInv

\* Time passes for the requests and for the attempts alike.
LEMMA TimeKeepsTable ==
  ASSUME TableInv, Later, PairingTypeOK'
  PROVE  TableInv'
<1>1. /\ opened \in Nat /\ opened' = opened /\ recent \in Seq(0..(Window - 1))
      /\ Len(recent) \in Nat /\ entries \in [Ids -> Entry]
  BY DEF TableInv, PairingTypeOK, Later, Entry
<1>2. /\ Kept' = Kept
      /\ \A i \in Kept : /\ entries[i].age \in 0..Lifetime /\ entries'[i].age \in 0..Lifetime
                         /\ entries[i].age < Lifetime => entries'[i].age = entries[i].age + 1
                         /\ entries[i].age = Lifetime => entries'[i].age = Lifetime
      /\ \A i \in Ids : entries'[i].stage = entries[i].stage
      /\ \A i \in Ids \ Kept : entries'[i] = entries[i]
  BY <1>1, Bounds DEF Later, Kept, Entry
<1>3. PICK gone \in 0..Len(recent) :
        /\ \A n \in DOMAIN recent : n <= gone <=> recent[n] + 1 = Window
        /\ recent' = [n \in 1..(Len(recent) - gone) |-> recent[n + gone] + 1]
  BY DEF Later
<1>4. Len(recent') = Len(recent) - gone /\ DOMAIN recent' = 1..(Len(recent) - gone)
  BY <1>1, <1>3 DEF PairingTypeOK
<1>5. Recency'
  <2>1. \A m, n \in DOMAIN recent' : m <= n => recent'[m] >= recent'[n]
    <3> SUFFICES ASSUME NEW m \in 1..(Len(recent) - gone), NEW n \in 1..(Len(recent) - gone), m <= n
                 PROVE  recent'[m] >= recent'[n]
      BY <1>4
    <3>1. recent'[m] = recent[m + gone] + 1 /\ recent'[n] = recent[n + gone] + 1
      BY <1>3
    <3>2. /\ m + gone \in DOMAIN recent /\ n + gone \in DOMAIN recent /\ m + gone <= n + gone
          /\ recent[m + gone] \in Nat /\ recent[n + gone] \in Nat
      <4>1. m + gone \in 1..Len(recent) /\ n + gone \in 1..Len(recent) /\ m + gone <= n + gone
        BY <1>1
      <4> QED
        BY <1>1, <4>1, Bounds
    <3>3. recent[m + gone] >= recent[n + gone]
      BY <3>2 DEF TableInv, Recency
    <3> QED
      BY <3>1, <3>2, <3>3
  <2>2. ASSUME NEW i \in Kept
        PROVE  /\ i <= opened
               /\ entries'[i].age < Window =>
                    /\ opened - i < Len(recent')
                    /\ recent'[Len(recent') - (opened - i)] <= entries'[i].age
    <3>1. i <= opened /\ i \in Nat
      BY DEF TableInv, Recency, Kept, Ids
    <3> SUFFICES ASSUME entries'[i].age < Window
                 PROVE  /\ opened - i < Len(recent')
                        /\ recent'[Len(recent') - (opened - i)] <= entries'[i].age
      BY <3>1
    <3>2. entries[i].age + 1 = entries'[i].age /\ entries[i].age \in Nat /\ entries[i].age < Window
      BY <1>2, Bounds
    <3> DEFINE k == Len(recent) - (opened - i)
    <3>3. k \in 1..Len(recent) /\ recent[k] <= entries[i].age /\ recent[k] \in Nat
      <4>1. opened - i < Len(recent) /\ recent[k] <= entries[i].age
        BY <3>2 DEF TableInv, Recency
      <4>2. k \in 1..Len(recent)
        BY <1>1, <3>1, <4>1
      <4> QED
        BY <1>1, <4>1, <4>2, Bounds
    <3>4. ~(k <= gone)
      BY <1>1, <1>3, <3>2, <3>3, Bounds
    <3>5. Len(recent') - (opened - i) = k - gone /\ opened - i = Len(recent) - k
      BY <1>1, <1>4, <3>1
    <3> HIDE DEF k
    <3>6. k - gone \in 1..(Len(recent) - gone)
      BY <1>1, <3>3, <3>4
    <3>7. recent'[k - gone] = recent[k] + 1
      BY <1>1, <1>3, <3>3, <3>6
    <3> QED
      BY <1>1, <1>4, <3>2, <3>3, <3>5, <3>6, <3>7
  <2> QED
    BY <1>1, <1>2, <2>1, <2>2 DEF Recency
<1>6. Spaced(entries)'
  <2> SUFFICES ASSUME NEW i \in Kept, NEW j \in Kept, i + MaxRecent <= j
               PROVE  entries'[i].age = Lifetime \/ entries'[i].age >= entries'[j].age + Window
    BY <1>2 DEF Spaced, Kept
  <2>1. entries[i].age = Lifetime \/ entries[i].age >= entries[j].age + Window
    BY DEF TableInv, Spaced, Kept
  <2>2. /\ entries[i].age \in 0..Lifetime /\ entries'[i].age \in 0..Lifetime
        /\ entries[i].age < Lifetime => entries'[i].age = entries[i].age + 1
        /\ entries[i].age = Lifetime => entries'[i].age = Lifetime
    BY <1>2
  <2>3. /\ entries[j].age \in 0..Lifetime /\ entries'[j].age \in 0..Lifetime
        /\ entries[j].age < Lifetime => entries'[j].age = entries[j].age + 1
        /\ entries[j].age = Lifetime => entries'[j].age = Lifetime
    BY <1>2
  <2>4. \A a, b, c, d \in 0..Lifetime :
          /\ a = Lifetime \/ a >= c + Window
          /\ a < Lifetime => b = a + 1
          /\ a = Lifetime => b = Lifetime
          /\ c < Lifetime => d = c + 1
          => b = Lifetime \/ b >= d + Window
    BY Bounds
  <2> QED
    BY <2>1, <2>2, <2>3, <2>4
<1>7. Blank(entries)'
  BY <1>2 DEF TableInv, Blank, Kept
<1>8. TableBounded'
  BY <1>2 DEF TableInv, TableBounded
<1> QED
  BY <1>5, <1>6, <1>7, <1>8 DEF TableInv

-----------------------------------------------------------------------------
LEMMA TypeSteps == TableInv /\ TokensInv /\ [PairingNext]_pairingVars => PairingTypeOK'
<1> SUFFICES ASSUME TableInv, PairingTypeOK, TokensInv, [PairingNext]_pairingVars
             PROVE  PairingTypeOK'
  BY DEF TableInv
<1> USE DEF Entry
<1>1. entries \in [Ids -> Entry] /\ Pruned \in [Ids -> Entry] /\ NoPairing \in Entry
  BY PrunedIsTyped, BlankIsTyped DEF PairingTypeOK
<1>2. CASE OpenPairing
  <2>1. Len(recent) \in Nat /\ Len(recent) + 1 <= MaxRecent
        /\ recent' \in Seq(0..(Window - 1)) /\ Len(recent') = Len(recent) + 1
    BY <1>2, Bounds DEF OpenPairing, PairingTypeOK
  <2>2. entries' \in [Ids -> Entry]
    <3>1. CASE entries' = [Pruned EXCEPT ![opened + 1].stage = "Pending"]
      <4>1. ASSUME NEW e \in Entry PROVE [e EXCEPT !.stage = "Pending"] \in Entry
        BY <4>1
      <4>2. [Pruned[opened + 1] EXCEPT !.stage = "Pending"] \in Entry \/ opened + 1 \notin Ids
        BY <1>1, <4>1
      <4> QED
        BY <1>1, <3>1, <4>2
    <3> QED
      BY <1>1, <1>2, <3>1 DEF OpenPairing
  <2>3. opened' \in 0..MaxPairings
    BY <1>2, Bounds DEF OpenPairing, PairingTypeOK
  <2> QED
    BY <1>2, <2>1, <2>2, <2>3 DEF OpenPairing, PairingTypeOK
<1>3. CASE ListPairings
  BY <1>1, <1>3 DEF ListPairings, PairingTypeOK
<1>4. CASE InsertClient
  <2>1. clients' \in Seq(BOOLEAN) /\ Len(clients') <= MaxTokens
    BY <1>4, Bounds DEF InsertClient, PairingTypeOK, TokensInv
  <2>2. approving' \in [pc : {"idle", "insert", "approve"}, id : 0..MaxPairings]
    BY <1>4 DEF InsertClient, PairingTypeOK
  <2> QED
    BY <1>4, <2>1, <2>2 DEF InsertClient, PairingTypeOK
<1>5. CASE Approve
  <2>1. Len(clients) \in 0..MaxTokens
    BY Bounds DEF PairingTypeOK
  <2>2. ASSUME NEW i \in Ids
        PROVE  [entries[i] EXCEPT !.stage = "Approved", !.token = Len(clients)] \in Entry
    BY <1>1, <2>1
  <2>3. entries' \in [Ids -> Entry]
    BY <1>1, <1>5, <2>2 DEF Approve
  <2>4. approving' \in [pc : {"idle", "insert", "approve"}, id : 0..MaxPairings]
    <3>1. Nobody \in [pc : {"idle", "insert", "approve"}, id : 0..MaxPairings]
      BY Bounds DEF Nobody
    <3> QED
      BY <1>5, <3>1 DEF Approve
  <2> QED
    BY <1>5, <2>3, <2>4 DEF Approve, PairingTypeOK
<1>6. CASE Later
  <2>1. entries' \in [Ids -> Entry]
    <3>1. ASSUME NEW i \in Ids, entries[i].age < Lifetime
          PROVE  [entries[i] EXCEPT !.age = @ + 1] \in Entry
      BY <1>1, <3>1, Bounds
    <3> QED
      BY <1>1, <1>6, <3>1 DEF Later
  <2>2. recent' \in Seq(0..(Window - 1)) /\ Len(recent') <= MaxRecent
    <3>1. Len(recent) \in Nat /\ Len(recent) <= MaxRecent
      BY DEF PairingTypeOK
    <3>2. PICK gone \in 0..Len(recent) :
            /\ \A n \in DOMAIN recent : n <= gone <=> recent[n] + 1 = Window
            /\ recent' = [n \in 1..(Len(recent) - gone) |-> recent[n + gone] + 1]
      BY <1>6 DEF Later
    <3>3. ASSUME NEW n \in 1..(Len(recent) - gone) PROVE recent[n + gone] + 1 \in 0..(Window - 1)
      <4>1. n + gone \in 1..Len(recent) /\ ~(n + gone <= gone)
        BY <3>1
      <4>2. recent[n + gone] \in 0..(Window - 1)
        BY <4>1, ElementOfSeq DEF PairingTypeOK
      <4>3. recent[n + gone] + 1 # Window
        BY <3>2, <4>1 DEF PairingTypeOK
      <4> QED
        BY <4>2, <4>3, Bounds
    <3>4. Len(recent) - gone \in Nat /\ Len(recent) - gone <= MaxRecent
      BY <3>1, Bounds
    <3>5. recent' \in [1..(Len(recent) - gone) -> 0..(Window - 1)]
      BY <3>2, <3>3
    <3>6. recent' \in Seq(0..(Window - 1))
      BY <3>4, <3>5, SeqDef
    <3>7. Len(recent') = Len(recent) - gone
      BY <3>4, <3>5, <3>6, LenProperties
    <3> QED
      BY <3>4, <3>6, <3>7
  <2> QED
    BY <1>6, <2>1, <2>2 DEF Later, PairingTypeOK
<1>7. ASSUME NEW i \in Ids, PollPairing(i) PROVE PairingTypeOK'
  <2>1. entries' \in [Ids -> Entry]
    BY <1>1, <1>7 DEF PollPairing
  <2>2. released' \in [Tokens -> Nat]
    <3>1. \A t \in Tokens : [released EXCEPT ![t] = @ + 1] \in [Tokens -> Nat]
      BY DEF PairingTypeOK
    <3>2. Pruned[i].stage = "Approved" => Pruned[i].token \in Tokens
      BY Bounds DEF Pruned, NoPairing, TokensInv, PairingTypeOK, Tokens
    <3> QED
      BY <1>7, <3>1, <3>2 DEF PollPairing, PairingTypeOK
  <2> QED
    BY <1>7, <2>1, <2>2 DEF PollPairing, PairingTypeOK
<1>8. ASSUME NEW i \in Ids, LookUp(i) PROVE PairingTypeOK'
  <2>1. approving' \in [pc : {"idle", "insert", "approve"}, id : 0..MaxPairings]
    BY <1>8, Bounds DEF LookUp, Ids
  <2> QED
    BY <1>8, <2>1 DEF LookUp, PairingTypeOK
<1>9. ASSUME NEW i \in Ids, Deny(i) PROVE PairingTypeOK'
  <2>1. [entries[i] EXCEPT !.stage = "Denied"] \in Entry
    BY <1>1
  <2>2. entries' \in [Ids -> Entry]
    BY <1>1, <1>9, <2>1 DEF Deny
  <2> QED
    BY <1>9, <2>2 DEF Deny, PairingTypeOK
<1>10. ASSUME NEW t \in Tokens, Revoke(t) PROVE PairingTypeOK'
  <2>1. clients' \in Seq(BOOLEAN) /\ Len(clients') = Len(clients)
    BY <1>10, ExceptSeq DEF Revoke, PairingTypeOK
  <2> QED
    BY <1>10, <2>1 DEF Revoke, PairingTypeOK
<1>11. CASE UNCHANGED pairingVars
  BY <1>11 DEF pairingVars, PairingTypeOK
<1> QED
  BY <1>2, <1>3, <1>4, <1>5, <1>6, <1>7, <1>8, <1>9, <1>10, <1>11 DEF PairingNext

LEMMA TableSteps == TableInv /\ TokensInv /\ [PairingNext]_pairingVars => TableInv'
<1> SUFFICES ASSUME TableInv, TokensInv, [PairingNext]_pairingVars PROVE TableInv'
  OBVIOUS
<1>1. PairingTypeOK' /\ entries \in [Ids -> Entry] /\ Pruned \in [Ids -> Entry]
  BY TypeSteps, PrunedIsTyped DEF TableInv, PairingTypeOK, Entry
<1>2. \A i \in Ids : Pruned[i] = NoPairing \/ Pruned[i] = entries[i]
  BY DEF Pruned
<1>3. \A i \in Ids : entries[i].stage = "none" => entries[i] = NoPairing
  BY DEF TableInv, Blank
<1>4. CASE OpenPairing
  BY <1>1, <1>4, OpeningKeepsTable
<1>5. CASE ListPairings
  BY <1>1, <1>2, <1>3, <1>5, ThinningKeeps DEF ListPairings
<1>6. CASE InsertClient
  BY <1>1, <1>3, <1>6, ThinningKeeps DEF InsertClient
<1>7. CASE Approve
  <2>1. ASSUME NEW i \in Ids
        PROVE  \/ entries'[i] = entries[i]
               \/ /\ entries[i].stage = "Pending" /\ entries'[i].stage = "Approved"
                  /\ entries'[i].age = entries[i].age
    <3>1. /\ [entries[i] EXCEPT !.stage = "Approved", !.token = Len(clients)].stage = "Approved"
          /\ [entries[i] EXCEPT !.stage = "Approved", !.token = Len(clients)].age = entries[i].age
      BY <1>1 DEF Entry
    <3>2. entries'[i] = IF i = approving.id /\ entries[i].stage = "Pending"
                        THEN [entries[i] EXCEPT !.stage = "Approved", !.token = Len(clients)]
                        ELSE entries[i]
      BY <1>7 DEF Approve
    <3> QED
      BY <3>1, <3>2, Zenon
  <2> QED
    BY <1>1, <1>3, <1>7, <2>1, ThinningKeeps DEF Approve
<1>8. CASE Later
  BY <1>1, <1>8, TimeKeepsTable
<1>9. ASSUME NEW i \in Ids, PollPairing(i) PROVE TableInv'
  <2>1. \A k \in Ids : entries'[k] = NoPairing \/ entries'[k] = entries[k]
    BY <1>1, <1>2, <1>9 DEF PollPairing
  <2> QED
    BY <1>1, <1>3, <1>9, <2>1, ThinningKeeps DEF PollPairing
<1>10. ASSUME NEW i \in Ids, LookUp(i) PROVE TableInv'
  BY <1>1, <1>3, <1>10, ThinningKeeps DEF LookUp
<1>11. ASSUME NEW i \in Ids, Deny(i) PROVE TableInv'
  <2>1. ASSUME NEW k \in Ids
        PROVE  \/ entries'[k] = entries[k]
               \/ /\ entries[k].stage = "Pending" /\ entries'[k].stage = "Denied"
                  /\ entries'[k].age = entries[k].age
    BY <1>1, <1>11 DEF Deny, Entry
  <2> QED
    BY <1>1, <1>3, <1>11, <2>1, ThinningKeeps DEF Deny
<1>12. ASSUME NEW t \in Tokens, Revoke(t) PROVE TableInv'
  BY <1>1, <1>3, <1>12, ThinningKeeps DEF Revoke
<1>13. CASE UNCHANGED pairingVars
  BY <1>1, <1>3, <1>13, ThinningKeeps DEF pairingVars
<1> QED
  BY <1>4, <1>5, <1>6, <1>7, <1>8, <1>9, <1>10, <1>11, <1>12, <1>13 DEF PairingNext

-----------------------------------------------------------------------------
\* Steps that hand no token over and insert no client.
LEMMA HoldersKept ==
  ASSUME TokensInv, PairingTypeOK,
         \A i \in Ids : entries'[i].stage = "Approved" =>
           entries[i].stage = "Approved" /\ entries'[i].token = entries[i].token,
         UNCHANGED released, Len(clients') = Len(clients),
         \/ UNCHANGED approving
         \/ approving'.pc = "insert" /\ Len(clients) < MaxTokens
  PROVE  TokensInv'
<1>1. \A i \in Ids : \A t : Holds(i, t)' => Holds(i, t)
  BY DEF Holds
<1>2. \A i \in Ids : entries'[i].stage = "Approved" =>
        entries'[i].token \in 1..Len(clients') /\ released'[entries'[i].token] = 0
  BY DEF TokensInv
<1>3. \A i, j \in Ids, t \in Tokens : Holds(i, t)' /\ Holds(j, t)' => i = j
  BY <1>1 DEF TokensInv
<1>4. \A t \in Tokens : released'[t] <= 1 /\ (t > Len(clients') => released'[t] = 0)
  BY DEF TokensInv
<1>5. approving'.pc = "insert" => Len(clients') < MaxTokens
  BY DEF TokensInv
<1>6. approving'.pc = "approve" =>
        /\ Len(clients') > 0 /\ released'[Len(clients')] = 0
        /\ \A i \in Ids : ~(entries'[i].stage = "Approved" /\ entries'[i].token = Len(clients'))
  BY <1>1 DEF TokensInv, Holds
<1> QED
  BY <1>2, <1>3, <1>4, <1>5, <1>6 DEF TokensInv, Holds

LEMMA TokenSteps == TableInv /\ TokensInv /\ [PairingNext]_pairingVars => TokensInv'
<1> SUFFICES ASSUME TableInv, TokensInv, [PairingNext]_pairingVars PROVE TokensInv'
  OBVIOUS
<1>1. PairingTypeOK /\ entries \in [Ids -> Entry] /\ Pruned \in [Ids -> Entry]
  BY PrunedIsTyped DEF TableInv, PairingTypeOK, Entry
<1>2. \A i \in Ids : Pruned[i].stage = "Approved" => Pruned[i] = entries[i]
  BY DEF Pruned, NoPairing
<1>3. Len(clients) \in Nat
  BY <1>1 DEF PairingTypeOK
<1>4. CASE OpenPairing
  <2>1. \A i \in Ids : entries'[i].stage = "Approved" => entries'[i] = Pruned[i]
    BY <1>1, <1>4 DEF OpenPairing, Entry
  <2> QED
    BY <1>1, <1>2, <1>4, <2>1, HoldersKept DEF OpenPairing
<1>5. CASE ListPairings
  BY <1>1, <1>2, <1>5, HoldersKept DEF ListPairings
<1>6. CASE InsertClient
  <2> DEFINE n == Len(clients) + 1
  <2>1. /\ Len(clients') = n /\ n \in Nat /\ n \in Tokens /\ n > Len(clients)
        /\ approving'.pc = "approve" /\ UNCHANGED <<entries, released>>
    BY <1>1, <1>3, <1>6, Bounds DEF InsertClient, TokensInv, PairingTypeOK, Tokens
  <2>2. released[n] = 0
    BY <2>1 DEF TokensInv
  <2>3. \A i \in Ids : ~Holds(i, n)
    BY <1>3, <2>1 DEF TokensInv, Holds
  <2> HIDE DEF n
  <2>4. \A i \in Ids : entries'[i].stage = "Approved" =>
          entries'[i].token \in 1..Len(clients') /\ released'[entries'[i].token] = 0
    BY <1>3, <2>1 DEF TokensInv, n
  <2>5. \A i, j \in Ids, t \in Tokens : Holds(i, t)' /\ Holds(j, t)' => i = j
    BY <2>1 DEF TokensInv, Holds
  <2>6. \A t \in Tokens : released'[t] <= 1 /\ (t > Len(clients') => released'[t] = 0)
    BY <1>3, <2>1, Bounds DEF TokensInv, Tokens
  <2>7. \A i \in Ids : ~(entries'[i].stage = "Approved" /\ entries'[i].token = n)
    BY <2>1, <2>3 DEF Holds
  <2> QED
    BY <2>1, <2>2, <2>4, <2>5, <2>6, <2>7, <1>3 DEF TokensInv, Holds
<1>7. CASE Approve
  <2> DEFINE n == Len(clients)
  <2>1. n > 0 /\ n \in Tokens /\ released[n] = 0 /\ \A i \in Ids : ~Holds(i, n)
    <3>1. approving.pc = "approve"
      BY <1>7 DEF Approve
    <3>2. n > 0 /\ released[n] = 0 /\ \A i \in Ids : ~Holds(i, n)
      BY <3>1 DEF TokensInv
    <3>3. n <= MaxTokens
      BY <1>1 DEF PairingTypeOK
    <3> QED
      BY <1>3, <3>2, <3>3, Bounds DEF Tokens
  <2>2. \A i \in Ids :
          \/ entries'[i] = entries[i]
          \/ i = approving.id /\ entries'[i].stage = "Approved" /\ entries'[i].token = n
    <3> SUFFICES ASSUME NEW i \in Ids
                 PROVE  \/ entries'[i] = entries[i]
                        \/ i = approving.id /\ entries'[i].stage = "Approved" /\ entries'[i].token = n
      OBVIOUS
    <3>1. /\ [entries[i] EXCEPT !.stage = "Approved", !.token = Len(clients)].stage = "Approved"
          /\ [entries[i] EXCEPT !.stage = "Approved", !.token = Len(clients)].token = n
      BY <1>1 DEF Entry
    <3>2. entries'[i] = IF i = approving.id /\ entries[i].stage = "Pending"
                        THEN [entries[i] EXCEPT !.stage = "Approved", !.token = Len(clients)]
                        ELSE entries[i]
      BY <1>7 DEF Approve
    <3> HIDE DEF n
    <3> QED
      BY <3>1, <3>2, Zenon
  <2>3. UNCHANGED <<clients, released>> /\ approving'.pc = "idle"
    BY <1>7 DEF Approve, Nobody
  <2>4. \A i \in Ids : entries'[i].stage = "Approved" =>
          entries'[i].token \in 1..n /\ released[entries'[i].token] = 0
    BY <1>3, <2>1, <2>2 DEF TokensInv
  <2>5. \A i, j \in Ids, t \in Tokens : Holds(i, t)' /\ Holds(j, t)' => i = j
    <3> SUFFICES ASSUME NEW i \in Ids, NEW j \in Ids, NEW t \in Tokens, Holds(i, t)', Holds(j, t)'
                 PROVE  i = j
      OBVIOUS
    <3>1. CASE t = n
      BY <2>1, <2>2, <3>1 DEF Holds
    <3>2. CASE t # n
      <4>1. Holds(i, t) /\ Holds(j, t)
        BY <2>2, <3>2 DEF Holds
      <4> QED
        BY <4>1 DEF TokensInv
    <3> QED
      BY <3>1, <3>2
  <2> QED
    BY <2>3, <2>4, <2>5 DEF TokensInv
<1>8. CASE Later
  <2>1. \A i \in Ids : entries'[i].stage = entries[i].stage /\ entries'[i].token = entries[i].token
    BY <1>1, <1>8 DEF Later, Entry
  <2> QED
    BY <1>1, <1>8, <2>1, HoldersKept DEF Later
<1>9. ASSUME NEW i \in Ids, PollPairing(i) PROVE TokensInv'
  <2>1. \A k \in Ids : entries'[k].stage = "Approved" =>
          entries'[k] = entries[k] /\ (k = i => Pruned[i].stage # "Approved")
    BY <1>1, <1>2, <1>9 DEF PollPairing, NoPairing
  <2>2. CASE Pruned[i].stage # "Approved"
    BY <1>1, <1>9, <2>1, <2>2, HoldersKept DEF PollPairing
  <2>3. CASE Pruned[i].stage = "Approved"
    <3> DEFINE t == entries[i].token
    <3>1. entries[i].stage = "Approved" /\ t \in 1..Len(clients) /\ t \in Tokens /\ released[t] = 0
          /\ Holds(i, t)
      BY <1>1, <1>2, <1>3, <2>3, Bounds DEF TokensInv, PairingTypeOK, Tokens, Holds
    <3>2. UNCHANGED <<clients, approving>> /\ released' = [released EXCEPT ![t] = @ + 1]
      BY <1>2, <1>9, <2>3 DEF PollPairing
    <3>3. released'[t] = 1 /\ \A u \in Tokens : u # t => released'[u] = released[u]
      BY <1>1, <3>1, <3>2 DEF PairingTypeOK
    <3>4. \A k \in Ids : entries'[k].stage = "Approved" =>
            entries[k].stage = "Approved" /\ entries'[k].token = entries[k].token /\ k # i
      BY <2>1, <2>3
    <3>5. \A k \in Ids : entries'[k].stage = "Approved" => entries'[k].token # t
      BY <3>1, <3>4 DEF TokensInv, Holds
    <3> HIDE DEF t
    <3>6. \A k \in Ids : entries'[k].stage = "Approved" =>
            entries'[k].token \in 1..Len(clients') /\ released'[entries'[k].token] = 0
      <4> SUFFICES ASSUME NEW k \in Ids, entries'[k].stage = "Approved"
                   PROVE  entries'[k].token \in 1..Len(clients) /\ released'[entries'[k].token] = 0
        BY <3>2
      <4>1. entries'[k].token \in 1..Len(clients) /\ released[entries'[k].token] = 0
        BY <3>4 DEF TokensInv
      <4>2. entries'[k].token \in Tokens
        BY <4>1, <1>1, <1>3, Bounds DEF PairingTypeOK, Tokens
      <4> QED
        BY <4>1, <4>2, <3>3, <3>5
    <3>7. \A k, l \in Ids, u \in Tokens : Holds(k, u)' /\ Holds(l, u)' => k = l
      BY <3>4 DEF TokensInv, Holds
    <3>8. \A u \in Tokens : released'[u] <= 1 /\ (u > Len(clients') => released'[u] = 0)
      <4>1. ~(t > Len(clients))
        BY <1>3, <3>1
      <4> QED
        BY <3>2, <3>3, <4>1 DEF TokensInv
    <3>9. approving.pc = "approve" => Len(clients) # t /\ Len(clients) \in Tokens
      BY <1>1, <1>3, <3>1, Bounds DEF TokensInv, PairingTypeOK, Tokens
    <3>10. approving'.pc = "approve" =>
             /\ Len(clients') > 0 /\ released'[Len(clients')] = 0
             /\ \A k \in Ids : ~(entries'[k].stage = "Approved" /\ entries'[k].token = Len(clients'))
      BY <3>2, <3>3, <3>4, <3>9 DEF TokensInv, Holds
    <3>11. approving'.pc = "insert" => Len(clients') < MaxTokens
      BY <3>2 DEF TokensInv
    <3> QED
      BY <3>6, <3>7, <3>8, <3>10, <3>11 DEF TokensInv, Holds
  <2> QED
    BY <2>2, <2>3
<1>10. ASSUME NEW i \in Ids, LookUp(i) PROVE TokensInv'
  BY <1>1, <1>10, HoldersKept DEF LookUp
<1>11. ASSUME NEW i \in Ids, Deny(i) PROVE TokensInv'
  <2>1. \A k \in Ids : entries'[k].stage = "Approved" => entries'[k] = entries[k]
    BY <1>1, <1>11 DEF Deny, Entry
  <2> QED
    BY <1>1, <1>11, <2>1, HoldersKept DEF Deny
<1>12. ASSUME NEW t \in Tokens, Revoke(t) PROVE TokensInv'
  <2>1. Len(clients') = Len(clients)
    BY <1>1, <1>12, ExceptSeq DEF Revoke, PairingTypeOK
  <2> QED
    BY <1>1, <1>12, <2>1, HoldersKept DEF Revoke
<1>13. CASE UNCHANGED pairingVars
  BY <1>1, <1>13, HoldersKept DEF pairingVars
<1> QED
  BY <1>4, <1>5, <1>6, <1>7, <1>8, <1>9, <1>10, <1>11, <1>12, <1>13 DEF PairingNext

\* pairing.rs and approve_pairing: however approvals, polls and expiry interleave, no
\* token is given out twice, nor to two requests.
THEOREM TokensGoOutOnce == PairingSpec => []TokenReleasedOnce
<1>1. TableInv /\ TokensInv => TokenReleasedOnce
  <2> SUFFICES ASSUME TableInv, TokensInv, NEW t \in Tokens
               PROVE  released[t] + Cardinality({i \in Ids : entries[i].stage = "Approved"
                                                             /\ entries[i].token = t}) <= 1
    BY DEF TokenReleasedOnce
  <2> DEFINE H == {i \in Ids : entries[i].stage = "Approved" /\ entries[i].token = t}
  <2>1. released[t] \in Nat /\ released[t] <= 1
    BY DEF TableInv, PairingTypeOK, TokensInv
  <2>2. \A i \in H : released[t] = 0
    BY DEF TokensInv
  <2>3. \A i, j \in H : i = j
    BY DEF TokensInv, Holds
  <2> HIDE DEF H
  <2>4. CASE H = {}
    <3>1. Cardinality(H) = 0
      BY <2>4, FS_EmptySet
    <3> QED
      BY <2>1, <3>1 DEF H
  <2>5. CASE H # {}
    <3>1. PICK i : H = {i}
      BY <2>3, <2>5
    <3>2. Cardinality(H) = 1 /\ released[t] = 0
      BY <2>2, <3>1, FS_Singleton
    <3> QED
      BY <3>2 DEF H
  <2> QED
    BY <2>4, <2>5
<1> QED
  BY TableStarts, TableSteps, TokenSteps, <1>1, PTL DEF PairingSpec

\* The table of pairing.rs is pruned only when somebody looks, and its limit counts
\* only what is pending: what bounds it is the rate limit and the lifetime.
THEOREM TableStaysBounded == PairingSpec => []TableBounded
<1>1. TableInv => TableBounded
  BY DEF TableInv
<1> QED
  BY TableStarts, TableSteps, TokenSteps, <1>1, PTL DEF PairingSpec

-----------------------------------------------------------------------------

\* What an update may say: the text of a segment, or of the segments joined.
Said    == Texts \cup {FlattenSeq(texts) : texts \in Seq(Texts)}
Updates == [id : Nat, revision : Nat, text : Said]

CaptionsShape ==
  /\ live = [until |-> live.until, committed |-> live.committed, provisional |-> live.provisional,
             next |-> live.next, updates |-> live.updates]
  /\ live.committed \in Seq(Updates)
  /\ live.provisional \in Updates \cup {NoSegment}
  /\ live.next \in Nat

\* Identities are given out in order: those of the committed segments lie below the
\* provisional one's, and all below the next.  CaptionsAgree says nothing of what a
\* later segment may be called.
InOrder ==
  /\ \A i \in 1..Len(live.committed) :
       /\ live.committed[i].id < live.next
       /\ live.provisional # NoSegment => live.committed[i].id < live.provisional.id
  /\ live.provisional # NoSegment => live.provisional.id < live.next

CaptionsInv == CaptionsShape /\ InOrder /\ CaptionsAgree

LEMMA CaptionsStart == CaptionsInit => CaptionsInv
<1> SUFFICES ASSUME CaptionsInit PROVE CaptionsInv
  OBVIOUS
<1>1. live.committed = <<>> /\ live.provisional = NoSegment /\ live.next = 0 /\ shown = <<>>
  BY DEF CaptionsInit
<1>2. CaptionsShape
  BY <1>1, EmptySeq DEF CaptionsInit, CaptionsShape
<1>3. InOrder
  BY <1>1 DEF InOrder
<1>4. CaptionsAgree
  BY <1>1 DEF CaptionsAgree
<1> QED
  BY <1>2, <1>3, <1>4 DEF CaptionsInv

LEMMA CommittableBounds ==
  ASSUME NEW segments, Len(segments) \in Nat, NEW audioEnd
  PROVE  Committable(segments, audioEnd) \in 0..Len(segments)
<1> DEFINE S == {k \in 1..(Len(segments) - 1) : \A i \in 1..k :
                   \/ audioEnd - live.until > MaxTail
                   \/ segments[i].end <= (IF audioEnd > StabilityMargin
                                          THEN audioEnd - StabilityMargin ELSE 0)}
<1>1. IsFiniteSet(1..(Len(segments) - 1))
      /\ Cardinality(1..(Len(segments) - 1)) <= Len(segments)
      /\ Cardinality(1..(Len(segments) - 1)) \in Nat
  <2>1. Len(segments) - 1 \in Int
    OBVIOUS
  <2>2. Cardinality(1..(Len(segments) - 1)) = IF 1 > Len(segments) - 1 THEN 0
                                              ELSE Len(segments) - 1 - 1 + 1
    BY <2>1, FS_Interval
  <2>3. IsFiniteSet(1..(Len(segments) - 1))
    BY <2>1, FS_Interval
  <2>4. Cardinality(1..(Len(segments) - 1)) \in 0..Len(segments)
    BY <2>1, <2>2
  <2> QED
    BY <2>3, <2>4
<1>2. S \subseteq 1..(Len(segments) - 1)
  OBVIOUS
<1> HIDE DEF S
<1>3. IsFiniteSet(S) /\ Cardinality(S) <= Cardinality(1..(Len(segments) - 1)) /\ Cardinality(S) \in Nat
  BY <1>1, <1>2, FS_Subset, FS_CardinalityType
<1>4. Cardinality(S) \in 0..Len(segments)
  BY <1>1, <1>3
<1>5. Committable(segments, audioEnd) = Cardinality(S)
  BY DEF Committable, S
<1> QED
  BY <1>4, <1>5

\* The names of the segments a pass commits: the first that of the provisional
\* segment, the others the next ones in turn.
Base == IF live.provisional = NoSegment THEN 0 ELSE 1
LEMMA CommitNames ==
  ASSUME CaptionsInv, NEW n \in Nat, NEW text \in Said
  PROVE  /\ AfterCommits(n).next \in Nat /\ live.next <= AfterCommits(n).next
         /\ AfterCommits(n).provisional \in {NoSegment, live.provisional}
         /\ n > 0 => /\ AfterCommits(n).provisional = NoSegment
                     /\ AfterCommits(n).next = live.next + n - Base
         /\ n = 0 => AfterCommits(n) = [provisional |-> live.provisional, next |-> live.next]
         /\ Revision(AfterCommits(n), text) \in Updates
         /\ Revision(AfterCommits(n), text).id =
              IF n = 0 /\ live.provisional # NoSegment THEN live.provisional.id
              ELSE live.next + n - Base
<1>1. live.next \in Nat /\ live.provisional \in Updates \cup {NoSegment} /\ Base \in {0, 1}
  BY DEF CaptionsInv, CaptionsShape, Base
<1>2. CASE n = 0
  <2>1. AfterCommits(n) = [provisional |-> live.provisional, next |-> live.next]
    BY <1>2 DEF AfterCommits
  <2>2. CASE live.provisional = NoSegment
    BY <1>1, <1>2, <2>1, <2>2 DEF Revision, Updates, Base
  <2>3. CASE live.provisional # NoSegment
    BY <1>1, <1>2, <2>1, <2>3 DEF Revision, Updates, Base
  <2> QED
    BY <2>2, <2>3
<1>3. CASE n > 0
  <2>1. AfterCommits(n) = [provisional |-> NoSegment, next |-> live.next + n - Base]
    BY <1>3 DEF AfterCommits, Base
  <2>2. live.next + n - Base \in Nat /\ live.next <= live.next + n - Base
    BY <1>1, <1>3
  <2>3. Revision(AfterCommits(n), text)
          = [id |-> live.next + n - Base, revision |-> 1, text |-> text]
    BY <2>1 DEF Revision
  <2> QED
    BY <1>3, <2>1, <2>2, <2>3 DEF Updates
<1> QED
  BY <1>2, <1>3

\* CaptionsAgree, said of the committed segments and the provisional one apart.
Shows(view, committed, provisional) ==
  /\ DOMAIN view = {committed[i].id : i \in 1..Len(committed)}
                   \cup (IF provisional = NoSegment THEN {} ELSE {provisional.id})
  /\ \A i \in 1..Len(committed) : /\ view[committed[i].id] = committed[i]
                                  /\ i > 1 => committed[i - 1].id < committed[i].id
  /\ provisional # NoSegment => view[provisional.id] = provisional

LEMMA ShowsIsAgreement ==
  ASSUME NEW committed \in Seq(Updates), NEW provisional \in Updates \cup {NoSegment}, NEW view,
         provisional # NoSegment => \A i \in 1..Len(committed) : committed[i].id < provisional.id
  PROVE  Shows(view, committed, provisional) <=>
           LET all == IF provisional = NoSegment THEN committed ELSE Append(committed, provisional)
           IN  /\ DOMAIN view = {all[i].id : i \in 1..Len(all)}
               /\ \A i \in 1..Len(all) : /\ view[all[i].id] = all[i]
                                         /\ i > 1 => all[i - 1].id < all[i].id
<1>1. CASE provisional = NoSegment
  BY <1>1 DEF Shows
<1>2. CASE provisional # NoSegment
  <2> DEFINE all == Append(committed, provisional)
             n == Len(committed)
  <2>1. /\ n \in Nat /\ Len(all) = n + 1 /\ all[n + 1] = provisional
        /\ \A i \in 1..n : all[i] = committed[i]
    BY <1>2
  <2>2. 1..Len(all) = 1..n \cup {n + 1}
    BY <2>1
  <2> HIDE DEF all
  <2>3. {all[i].id : i \in 1..Len(all)} = {committed[i].id : i \in 1..n} \cup {provisional.id}
    <3>1. {all[i].id : i \in 1..Len(all)} \subseteq {committed[i].id : i \in 1..n} \cup {provisional.id}
      BY <2>1, <2>2
    <3>2. \A i \in 1..n : committed[i].id \in {all[j].id : j \in 1..Len(all)}
      <4> SUFFICES ASSUME NEW i \in 1..n PROVE \E j \in 1..Len(all) : committed[i].id = all[j].id
        OBVIOUS
      <4>1. i \in 1..Len(all) /\ committed[i].id = all[i].id
        BY <2>1, <2>2
      <4> QED
        BY <4>1
    <3>3. provisional.id \in {all[j].id : j \in 1..Len(all)}
      BY <2>1, <2>2
    <3> QED
      BY <3>1, <3>2, <3>3
  <2>4. (\A i \in 1..Len(all) : /\ view[all[i].id] = all[i]
                                /\ i > 1 => all[i - 1].id < all[i].id)
        <=> /\ \A i \in 1..n : /\ view[committed[i].id] = committed[i]
                               /\ i > 1 => committed[i - 1].id < committed[i].id
            /\ view[provisional.id] = provisional
    <3>1. ASSUME NEW i \in 1..n
          PROVE  /\ i \in 1..Len(all) /\ all[i] = committed[i]
                 /\ i > 1 => all[i - 1] = committed[i - 1]
      BY <2>1, <2>2
    <3>2. n + 1 > 1 => all[n + 1 - 1].id < provisional.id
      BY <2>1, <1>2
    <3> DEFINE Right(i) == view[all[i].id] = all[i] /\ (i > 1 => all[i - 1].id < all[i].id)
    <3>3. \A i \in 1..n : Right(i) <=> /\ view[committed[i].id] = committed[i]
                                       /\ i > 1 => committed[i - 1].id < committed[i].id
      BY <3>1
    <3>4. Right(n + 1) <=> view[provisional.id] = provisional
      BY <2>1, <3>2
    <3>5. (\A i \in 1..Len(all) : Right(i)) <=> (\A i \in 1..n : Right(i)) /\ Right(n + 1)
      <4> HIDE DEF Right
      <4> QED
        BY <2>2
    <3>6. (\A i \in 1..Len(all) : Right(i))
            <=> /\ \A i \in 1..n : /\ view[committed[i].id] = committed[i]
                                   /\ i > 1 => committed[i - 1].id < committed[i].id
                /\ view[provisional.id] = provisional
      <4> HIDE DEF Right
      <4> QED
        BY <3>3, <3>4, <3>5, Zenon
    <3> QED
      BY <3>6
  <2>5. Shows(view, committed, provisional) <=>
          /\ DOMAIN view = {all[i].id : i \in 1..Len(all)}
          /\ \A i \in 1..Len(all) : /\ view[all[i].id] = all[i]
                                    /\ i > 1 => all[i - 1].id < all[i].id
    <3>1. DOMAIN view = {committed[i].id : i \in 1..n}
                          \cup (IF provisional = NoSegment THEN {} ELSE {provisional.id})
          <=> DOMAIN view = {all[i].id : i \in 1..Len(all)}
      BY <1>2, <2>3
    <3> DEFINE Names  == DOMAIN view = {committed[i].id : i \in 1..Len(committed)}
                           \cup (IF provisional = NoSegment THEN {} ELSE {provisional.id})
               Values == \A i \in 1..Len(committed) :
                           /\ view[committed[i].id] = committed[i]
                           /\ i > 1 => committed[i - 1].id < committed[i].id
               LastOne == view[provisional.id] = provisional
    <3>2. Shows(view, committed, provisional)
            <=> Names /\ Values /\ (provisional # NoSegment => LastOne)
      BY DEF Shows
    <3>3. Names <=> DOMAIN view = {all[i].id : i \in 1..Len(all)}
      BY <3>1
    <3>4. (\A i \in 1..Len(all) : /\ view[all[i].id] = all[i]
                                  /\ i > 1 => all[i - 1].id < all[i].id) <=> Values /\ LastOne
      BY <2>4
    <3> HIDE DEF Names, Values, LastOne
    <3> QED
      BY <1>2, <3>2, <3>3, <3>4
  <2> QED
    BY <1>2, <2>5 DEF all
<1> QED
  BY <1>1, <1>2

\* What a client shows that applied updates with names of their own: those, and the
\* rest as it was.
NamesApart(updates) ==
  \A i, j \in 1..Len(updates) : updates[i].id = updates[j].id => i = j
ShownByName(after, view, updates) ==
  /\ DOMAIN after = DOMAIN view \cup {updates[i].id : i \in 1..Len(updates)}
  /\ \A i \in 1..Len(updates) : after[updates[i].id] = updates[i]
  /\ \A id \in DOMAIN view : (\A i \in 1..Len(updates) : updates[i].id # id) => after[id] = view[id]

LEMMA ReplacedByName ==
  ASSUME NEW updates \in Seq(Updates), NEW view, NamesApart(updates)
  PROVE  ShownByName(Replaced(view, updates), view, updates)
<1> DEFINE About(id) == {i \in 1..Len(updates) : updates[i].id = id}
<1>1. Replaced(view, updates)
        = [id \in DOMAIN view \cup {updates[i].id : i \in 1..Len(updates)} |->
             IF About(id) = {} THEN view[id] ELSE updates[Max(About(id))]]
  BY DEF Replaced
<1>2. ASSUME NEW i \in 1..Len(updates)
      PROVE  Replaced(view, updates)[updates[i].id] = updates[i]
  <2>1. About(updates[i].id) = {i}
    BY <1>2 DEF NamesApart
  <2>2. Max({i}) = i
    BY DEF Max
  <2> HIDE DEF About
  <2>3. Replaced(view, updates)[updates[i].id] = updates[Max(About(updates[i].id))]
    BY <1>1, <2>1
  <2> QED
    BY <2>1, <2>2, <2>3
<1>3. ASSUME NEW id \in DOMAIN view, \A i \in 1..Len(updates) : updates[i].id # id
      PROVE  Replaced(view, updates)[id] = view[id]
  <2>1. About(id) = {}
    BY <1>3
  <2> HIDE DEF About
  <2> QED
    BY <1>1, <2>1
<1>4. DOMAIN Replaced(view, updates) = DOMAIN view \cup {updates[i].id : i \in 1..Len(updates)}
  BY DEF Replaced
<1> QED
  BY <1>2, <1>3, <1>4 DEF ShownByName

\* The name of the i-th update of a pass.
Name(i) == IF i = 1 /\ live.provisional # NoSegment THEN live.provisional.id
           ELSE live.next + (i - 1) - Base

LEMMA NamesAscend ==
  ASSUME CaptionsInv
  PROVE  /\ \A i \in Nat \ {0} : Name(i) \in Nat /\ Name(i) <= live.next + i - 1
         /\ \A i, j \in Nat \ {0} : i < j => Name(i) < Name(j)
         /\ \A i \in Nat \ {0}, j \in 1..Len(live.committed) : live.committed[j].id < Name(i)
<1>1. live.next \in Nat /\ live.provisional \in Updates \cup {NoSegment}
  BY DEF CaptionsInv, CaptionsShape
<1>2. \A j \in 1..Len(live.committed) : live.committed[j].id \in Nat
  <2> SUFFICES ASSUME NEW j \in 1..Len(live.committed) PROVE live.committed[j].id \in Nat
    OBVIOUS
  <2>1. live.committed[j] \in Updates
    BY ElementOfSeq DEF CaptionsInv, CaptionsShape
  <2> QED
    BY <2>1 DEF Updates
<1>3. \A j \in 1..Len(live.committed) :
        /\ live.committed[j].id < live.next
        /\ live.provisional # NoSegment => live.committed[j].id < live.provisional.id
  BY DEF CaptionsInv, InOrder
<1>4. CASE live.provisional = NoSegment
  <2>1. \A i \in Nat \ {0} : Name(i) = live.next + (i - 1)
    BY <1>1, <1>4 DEF Name, Base
  <2>2. \A i \in Nat \ {0} : Name(i) \in Nat /\ Name(i) <= live.next + i - 1
    BY <1>1, <2>1
  <2>3. \A i, j \in Nat \ {0} : i < j => Name(i) < Name(j)
    BY <1>1, <2>1
  <2>4. \A i \in Nat \ {0}, j \in 1..Len(live.committed) : live.committed[j].id < Name(i)
    <3> SUFFICES ASSUME NEW i \in Nat \ {0}, NEW j \in 1..Len(live.committed)
                 PROVE  live.committed[j].id < Name(i)
      OBVIOUS
    <3>1. live.committed[j].id \in Nat /\ live.committed[j].id < live.next
      BY <1>2, <1>3
    <3>2. Name(i) = live.next + (i - 1)
      BY <2>1
    <3>3. \A x, y \in Nat : x < y => x < y + (i - 1)
      OBVIOUS
    <3> QED
      BY <1>1, <3>1, <3>2, <3>3
  <2> QED
    BY <2>2, <2>3, <2>4
<1>5. CASE live.provisional # NoSegment
  <2>1. \A i \in Nat \ {0} : Name(i) = IF i = 1 THEN live.provisional.id ELSE live.next + (i - 2)
    BY <1>1, <1>5 DEF Name, Base
  <2>2. live.provisional.id \in Nat /\ live.provisional.id < live.next
    BY <1>1, <1>5 DEF Updates, CaptionsInv, InOrder
  <2>3. \A i \in Nat \ {0} : Name(i) \in Nat /\ Name(i) <= live.next + i - 1
    BY <1>1, <2>1, <2>2
  <2>4. \A i, j \in Nat \ {0} : i < j => Name(i) < Name(j)
    BY <1>1, <2>1, <2>2
  <2>5. \A i \in Nat \ {0}, j \in 1..Len(live.committed) : live.committed[j].id < Name(i)
    <3> SUFFICES ASSUME NEW i \in Nat \ {0}, NEW j \in 1..Len(live.committed)
                 PROVE  live.committed[j].id < Name(i)
      OBVIOUS
    <3>1. live.committed[j].id \in Nat /\ live.committed[j].id < live.next
          /\ live.committed[j].id < live.provisional.id
      BY <1>2, <1>3, <1>5
    <3>2. Name(i) = IF i = 1 THEN live.provisional.id ELSE live.next + (i - 2)
      BY <2>1
    <3>3. \A x, y \in Nat : x < y /\ i # 1 => x < y + (i - 2)
      OBVIOUS
    <3> QED
      BY <1>1, <3>1, <3>2, <3>3
  <2> QED
    BY <2>3, <2>4, <2>5
<1> QED
  BY <1>4, <1>5

\* What a pass does: it commits segments under the first names, and either leaves
\* nothing new or revises the segment of the next name.
Committed(k, commits) ==
  /\ k \in Nat /\ commits \in Seq(Updates) /\ Len(commits) = k
  /\ \A i \in 1..k : commits[i].id = Name(i)
Left(a, k, commits) ==
  /\ a.updates = commits
  /\ a.provisional = IF k = 0 THEN live.provisional ELSE NoSegment
  /\ a.next = IF k = 0 THEN live.next ELSE live.next + k - Base
Revised(a, k, commits) ==
  /\ a.updates = Append(commits, a.provisional)
  /\ a.provisional \in Updates /\ a.provisional.id = Name(k + 1)
  /\ a.next \in Nat /\ Name(k + 1) < a.next

Shaped(a) == a = [until |-> a.until, committed |-> a.committed, provisional |-> a.provisional,
                  next |-> a.next, updates |-> a.updates]

LEMMA PassUpdates ==
  ASSUME CaptionsInv, NEW n \in Nat, NEW segments \in [1..n -> [end : Int, text : Texts]],
         NEW audioEnd
  PROVE  LET a == Applied(segments, audioEnd)
         IN  /\ Shaped(a)
             /\ \E k \in Nat, commits \in Seq(Updates) :
                  /\ Committed(k, commits)
                  /\ a.committed = live.committed \o commits
                  /\ Left(a, k, commits) \/ Revised(a, k, commits)
<1> DEFINE a       == Applied(segments, audioEnd)
           k       == Committable(segments, audioEnd)
           commits == [i \in 1..k |-> Revision(AfterCommits(i - 1), segments[i].text)]
           rest    == AfterCommits(k)
           texts   == [i \in 1..(Len(segments) - k) |-> segments[k + i].text]
           tail    == FlattenSeq(texts)
           revised == Revision(rest, tail)
           kept    == tail = <<>> \/ (rest.provisional # NoSegment /\ rest.provisional.text = tail)
<1>1. Len(segments) = n
  OBVIOUS
<1>2. k \in 0..n
  BY <1>1, CommittableBounds
<1>3. a = [until       |-> Max({live.until} \cup {segments[i].end : i \in 1..k}),
           committed   |-> live.committed \o commits,
           provisional |-> IF kept THEN rest.provisional ELSE revised,
           next        |-> IF ~kept /\ rest.provisional = NoSegment THEN rest.next + 1 ELSE rest.next,
           updates     |-> IF kept THEN commits ELSE Append(commits, revised)]
  BY DEF Applied
<1> HIDE DEF a, k
<1>4. live.next \in Nat /\ live.provisional \in Updates \cup {NoSegment} /\ Base \in {0, 1}
  BY DEF CaptionsInv, CaptionsShape, Base
<1>5. \A i \in 1..n : segments[i].text \in Said
  BY DEF Said
<1>6. tail \in Said
  <2>1. texts \in Seq(Texts)
    BY <1>1, <1>2
  <2> HIDE DEF texts
  <2> QED
    BY <2>1 DEF Said
<1> HIDE DEF tail
<1>7. ASSUME NEW i \in 1..k
      PROVE  /\ Revision(AfterCommits(i - 1), segments[i].text) \in Updates
             /\ Revision(AfterCommits(i - 1), segments[i].text).id = Name(i)
  <2>1. i - 1 \in Nat /\ segments[i].text \in Said
    BY <1>2, <1>5
  <2>2. /\ Revision(AfterCommits(i - 1), segments[i].text) \in Updates
        /\ Revision(AfterCommits(i - 1), segments[i].text).id =
             IF i - 1 = 0 /\ live.provisional # NoSegment THEN live.provisional.id
             ELSE live.next + (i - 1) - Base
    BY <2>1, CommitNames
  <2> QED
    BY <1>2, <2>2 DEF Name
<1>8. Committed(k, commits)
  BY <1>2, <1>7 DEF Committed
<1>9. /\ rest.next \in Nat /\ live.next <= rest.next
      /\ k > 0 => rest.provisional = NoSegment /\ rest.next = live.next + k - Base
      /\ k = 0 => rest.provisional = live.provisional /\ rest.next = live.next
      /\ revised \in Updates
      /\ revised.id = IF k = 0 /\ live.provisional # NoSegment THEN live.provisional.id
                      ELSE live.next + k - Base
  BY <1>2, <1>6, CommitNames
<1>10. revised.id = Name(k + 1)
  BY <1>2, <1>4, <1>9 DEF Name
<1> HIDE DEF rest, revised, commits
<1>11. Shaped(a) /\ a.committed = live.committed \o commits
  BY <1>3 DEF Shaped
<1>12. k \in Nat /\ commits \in Seq(Updates)
  BY <1>8 DEF Committed
<1>13. CASE kept
  <2>1. Left(a, k, commits)
    BY <1>2, <1>3, <1>9, <1>13 DEF Left
  <2> QED
    BY <1>8, <1>11, <1>12, <2>1 DEF a
<1>14. CASE ~kept
  <2>1. a.updates = Append(commits, a.provisional) /\ a.provisional = revised
        /\ a.next = IF rest.provisional = NoSegment THEN rest.next + 1 ELSE rest.next
    BY <1>3, <1>14
  <2>2. revised.id < a.next /\ a.next \in Nat
    <3>1. CASE k > 0
      BY <1>4, <1>9, <2>1, <3>1
    <3>2. CASE k = 0 /\ live.provisional = NoSegment
      BY <1>4, <1>9, <2>1, <3>2 DEF Base
    <3>3. CASE k = 0 /\ live.provisional # NoSegment
      BY <1>4, <1>9, <2>1, <3>3 DEF CaptionsInv, InOrder
    <3> QED
      BY <1>2, <3>1, <3>2, <3>3
  <2>3. Revised(a, k, commits)
    BY <1>9, <1>10, <2>1, <2>2 DEF Revised
  <2> QED
    BY <1>8, <1>11, <1>12, <2>3 DEF a
<1> QED
  BY <1>13, <1>14

\* Committed segments with names in order keep them when more follow.
LEMMA JoinedInOrder ==
  ASSUME CaptionsInv, NEW k, NEW commits, Committed(k, commits),
         NEW joined, joined = live.committed \o commits
  PROVE  /\ joined \in Seq(Updates) /\ Len(joined) = Len(live.committed) + k
         /\ \A i \in 1..Len(live.committed) : joined[i] = live.committed[i]
         /\ \A i \in 1..k : /\ joined[Len(live.committed) + i] = commits[i]
                            /\ joined[Len(live.committed) + i].id = Name(i)
         /\ \A i \in 1..Len(joined) : i \notin 1..Len(live.committed) =>
              i - Len(live.committed) \in 1..k
         /\ {joined[i].id : i \in 1..Len(joined)}
              = {live.committed[i].id : i \in 1..Len(live.committed)} \cup {Name(i) : i \in 1..k}
         /\ \A i \in 1..Len(joined) : joined[i].id < Name(k + 1)
         /\ \A i \in 1..Len(joined) : i > 1 => joined[i - 1].id < joined[i].id
<1> DEFINE m == Len(live.committed)
<1>1. live.committed \in Seq(Updates) /\ m \in Nat
  BY LenProperties DEF CaptionsInv, CaptionsShape
<1>2. k \in Nat /\ commits \in Seq(Updates) /\ Len(commits) = k
      /\ \A i \in 1..k : commits[i].id = Name(i)
  BY DEF Committed
<1>3. joined \in Seq(Updates) /\ Len(joined) = m + k
      /\ \A i \in 1..(m + k) : joined[i] = IF i <= m THEN live.committed[i] ELSE commits[i - m]
  BY <1>1, <1>2, ConcatProperties
<1>4. \A i \in 1..m : i \in 1..Len(joined) /\ joined[i] = live.committed[i]
  BY <1>1, <1>2, <1>3
<1>5. \A i \in 1..k : /\ m + i \in 1..Len(joined) /\ joined[m + i] = commits[i]
                      /\ joined[m + i].id = Name(i)
  <2> SUFFICES ASSUME NEW i \in 1..k
               PROVE  /\ m + i \in 1..Len(joined) /\ joined[m + i] = commits[i]
                      /\ joined[m + i].id = Name(i)
    OBVIOUS
  <2>1. m + i \in 1..(m + k) /\ ~(m + i <= m) /\ m + i - m = i
    BY <1>1, <1>2
  <2> QED
    BY <1>2, <1>3, <2>1
<1>6. \A i \in 1..Len(joined) : i \notin 1..m => i - m \in 1..k /\ m + (i - m) = i
  BY <1>1, <1>2, <1>3
<1>7. {joined[i].id : i \in 1..Len(joined)}
        = {live.committed[i].id : i \in 1..m} \cup {Name(i) : i \in 1..k}
  <2>1. ASSUME NEW i \in 1..Len(joined)
        PROVE  joined[i].id \in {live.committed[j].id : j \in 1..m} \cup {Name(j) : j \in 1..k}
    <3>1. CASE i \in 1..m
      BY <1>4, <3>1
    <3>2. CASE i \notin 1..m
      <4>1. i - m \in 1..k /\ m + (i - m) = i
        BY <1>6, <3>2
      <4>2. joined[m + (i - m)].id = Name(i - m)
        BY <1>5, <4>1
      <4> QED
        BY <4>1, <4>2
    <3> QED
      BY <3>1, <3>2
  <2>2. \A j \in 1..m : live.committed[j].id \in {joined[i].id : i \in 1..Len(joined)}
    BY <1>4
  <2>3. \A j \in 1..k : Name(j) \in {joined[i].id : i \in 1..Len(joined)}
    BY <1>5
  <2> QED
    BY <2>1, <2>2, <2>3
<1>8. \A i \in 1..Len(joined) : joined[i].id < Name(k + 1)
  <2> SUFFICES ASSUME NEW i \in 1..Len(joined) PROVE joined[i].id < Name(k + 1)
    OBVIOUS
  <2>0. k + 1 \in Nat \ {0}
    BY <1>2
  <2>1. CASE i \in 1..m
    BY <1>4, <2>0, <2>1, NamesAscend
  <2>2. CASE i \notin 1..m
    <3>1. i - m \in 1..k /\ m + (i - m) = i
      BY <1>6, <2>2
    <3>2. i - m \in Nat \ {0} /\ i - m < k + 1
      BY <1>2, <3>1
    <3>3. joined[m + (i - m)].id = Name(i - m)
      BY <1>5, <3>1
    <3> QED
      BY <2>0, <3>1, <3>2, <3>3, NamesAscend
  <2> QED
    BY <2>1, <2>2
<1>9. \A i \in 1..Len(joined) : i > 1 => joined[i - 1].id < joined[i].id
  <2> SUFFICES ASSUME NEW i \in 1..Len(joined), i > 1 PROVE joined[i - 1].id < joined[i].id
    OBVIOUS
  <2>1. CASE i \in 1..m
    <3>1. i - 1 \in 1..m
      BY <1>1, <2>1
    <3>2. live.committed[i - 1].id < live.committed[i].id
      <4> DEFINE all == IF live.provisional = NoSegment THEN live.committed
                        ELSE Append(live.committed, live.provisional)
      <4>1. \A j \in 1..m : j \in 1..Len(all) /\ all[j] = live.committed[j]
        BY <1>1
      <4>2. \A j \in 1..Len(all) : j > 1 => all[j - 1].id < all[j].id
        BY DEF CaptionsInv, CaptionsAgree
      <4> HIDE DEF all
      <4>3. i \in 1..Len(all) /\ all[i] = live.committed[i] /\ all[i - 1] = live.committed[i - 1]
        BY <2>1, <3>1, <4>1
      <4> QED
        BY <4>2, <4>3
    <3> QED
      BY <1>4, <2>1, <3>1, <3>2
  <2>2. CASE i \notin 1..m
    <3>1. i - m \in 1..k /\ m + (i - m) = i
      BY <1>6, <2>2
    <3>2. joined[i].id = Name(i - m)
      BY <1>5, <3>1
    <3>3. i - m \in Nat \ {0}
      BY <1>2, <3>1
    <3>4. CASE i - 1 \in 1..m
      BY <1>4, <3>2, <3>3, <3>4, NamesAscend
    <3>5. CASE i - 1 \notin 1..m
      <4>1. i - 1 \in 1..Len(joined)
        BY <1>1, <1>2, <1>3
      <4>2. (i - 1) - m \in 1..k /\ m + ((i - 1) - m) = i - 1
        BY <1>6, <3>5, <4>1
      <4>3. joined[i - 1].id = Name((i - 1) - m)
        BY <1>5, <4>2
      <4>4. (i - 1) - m \in Nat \ {0} /\ (i - 1) - m < i - m
        <5>1. i \in Int /\ k \in Nat /\ m \in Int
          BY <1>1, <1>2, <1>3
        <5>2. \A x, y \in Int : (x - 1) - y < x - y
          OBVIOUS
        <5>3. (i - 1) - m \in Nat \ {0}
          BY <4>2, <5>1
        <5> QED
          BY <5>1, <5>2, <5>3
      <4> QED
        BY <3>2, <3>3, <4>3, <4>4, NamesAscend
    <3> QED
      BY <3>4, <3>5
  <2> QED
    BY <2>1, <2>2
<1> QED
  BY <1>3, <1>4, <1>5, <1>6, <1>7, <1>8, <1>9

LEMMA PassAgrees ==
  ASSUME CaptionsInv, NEW a, NEW k \in Nat, NEW commits \in Seq(Updates),
         Committed(k, commits), a.committed = live.committed \o commits,
         Left(a, k, commits) \/ Revised(a, k, commits)
  PROVE  /\ a.committed \in Seq(Updates) /\ a.provisional \in Updates \cup {NoSegment}
         /\ a.next \in Nat
         /\ \A i \in 1..Len(a.committed) :
              /\ a.committed[i].id < a.next
              /\ a.provisional # NoSegment => a.committed[i].id < a.provisional.id
         /\ a.provisional # NoSegment => a.provisional.id < a.next
         /\ Shows(Replaced(shown, a.updates), a.committed, a.provisional)
<1> DEFINE m    == Len(live.committed)
           view == Replaced(shown, a.updates)
           n    == Len(a.updates)
<1>1. /\ live.committed \in Seq(Updates) /\ m \in Nat /\ live.next \in Nat
      /\ live.provisional \in Updates \cup {NoSegment} /\ Base \in {0, 1}
  BY LenProperties DEF CaptionsInv, CaptionsShape, Base
<1>2. Shows(shown, live.committed, live.provisional)
  BY <1>1, ShowsIsAgreement DEF CaptionsInv, CaptionsAgree, InOrder
<1>3. /\ a.committed \in Seq(Updates) /\ Len(a.committed) = m + k
      /\ \A i \in 1..m : a.committed[i] = live.committed[i]
      /\ \A i \in 1..k : a.committed[m + i] = commits[i] /\ a.committed[m + i].id = Name(i)
      /\ \A i \in 1..Len(a.committed) : i \notin 1..m => i - m \in 1..k
      /\ {a.committed[i].id : i \in 1..Len(a.committed)}
           = {live.committed[i].id : i \in 1..m} \cup {Name(i) : i \in 1..k}
      /\ \A i \in 1..Len(a.committed) : a.committed[i].id < Name(k + 1)
      /\ \A i \in 1..Len(a.committed) : i > 1 => a.committed[i - 1].id < a.committed[i].id
  BY JoinedInOrder
<1>4. /\ a.updates \in Seq(Updates) /\ n \in {k, k + 1}
      /\ \A i \in 1..n : a.updates[i].id = Name(i)
      /\ \A i \in 1..k : i \in 1..n /\ a.updates[i] = commits[i]
  <2>1. commits \in Seq(Updates) /\ Len(commits) = k /\ \A i \in 1..k : commits[i].id = Name(i)
    BY DEF Committed
  <2>2. CASE Left(a, k, commits)
    BY <2>1, <2>2 DEF Left
  <2>3. CASE Revised(a, k, commits)
    <3>1. a.updates = Append(commits, a.provisional) /\ a.provisional \in Updates
          /\ a.provisional.id = Name(k + 1)
      BY <2>3 DEF Revised
    <3>2. a.updates \in Seq(Updates) /\ Len(a.updates) = k + 1 /\ a.updates[k + 1] = a.provisional
          /\ \A i \in 1..k : a.updates[i] = commits[i]
      BY <2>1, <3>1, AppendProperties
    <3> QED
      BY <2>1, <3>1, <3>2
  <2> QED
    BY <2>2, <2>3
<1>5. \A i, j \in 1..n : a.updates[i].id = a.updates[j].id => i = j
  <2> SUFFICES ASSUME NEW i \in 1..n, NEW j \in 1..n, a.updates[i].id = a.updates[j].id PROVE i = j
    OBVIOUS
  <2>1. i \in Nat \ {0} /\ j \in Nat \ {0} /\ Name(i) = Name(j)
    BY <1>4
  <2>2. Name(i) \in Nat /\ (i < j => Name(i) < Name(j)) /\ (j < i => Name(j) < Name(i))
    BY <2>1, NamesAscend
  <2>3. ~(i < j) /\ ~(j < i)
    BY <2>1, <2>2
  <2> QED
    BY <2>1, <2>3
<1>6. /\ DOMAIN view = DOMAIN shown \cup {a.updates[i].id : i \in 1..n}
      /\ \A i \in 1..n : view[a.updates[i].id] = a.updates[i]
      /\ \A id \in DOMAIN shown : (\A i \in 1..n : a.updates[i].id # id) => view[id] = shown[id]
  <2>1. a.updates \in Seq(Updates) /\ NamesApart(a.updates)
    BY <1>4, <1>5 DEF NamesApart
  <2>2. ShownByName(view, shown, a.updates)
    BY <2>1, ReplacedByName
  <2> QED
    BY <2>2 DEF ShownByName
<1> HIDE DEF view
<1>7. {a.updates[i].id : i \in 1..n} = {Name(i) : i \in 1..n}
  BY <1>4
<1>8. /\ DOMAIN shown = {live.committed[i].id : i \in 1..m}
                        \cup (IF live.provisional = NoSegment THEN {} ELSE {live.provisional.id})
      /\ \A i \in 1..m : shown[live.committed[i].id] = live.committed[i]
      /\ live.provisional # NoSegment => shown[live.provisional.id] = live.provisional
  BY <1>2 DEF Shows
<1>9. \A i \in 1..m : view[live.committed[i].id] = live.committed[i]
  <2> SUFFICES ASSUME NEW i \in 1..m PROVE view[live.committed[i].id] = live.committed[i]
    OBVIOUS
  <2>1. \A j \in 1..n : a.updates[j].id # live.committed[i].id
    <3> SUFFICES ASSUME NEW j \in 1..n PROVE a.updates[j].id # live.committed[i].id
      OBVIOUS
    <3>1. j \in Nat \ {0} /\ a.updates[j].id = Name(j)
      BY <1>4
    <3>2. Name(j) \in Nat /\ live.committed[i].id < Name(j)
      BY <3>1, NamesAscend
    <3> QED
      BY <3>1, <3>2
  <2> QED
    BY <1>6, <1>8, <2>1
<1>10. \A i \in 1..Len(a.committed) : view[a.committed[i].id] = a.committed[i]
  <2> SUFFICES ASSUME NEW i \in 1..Len(a.committed) PROVE view[a.committed[i].id] = a.committed[i]
    OBVIOUS
  <2>1. CASE i \in 1..m
    BY <1>3, <1>9, <2>1
  <2>2. CASE i \notin 1..m
    <3>1. i - m \in 1..k /\ m + (i - m) = i
      BY <1>1, <1>3, <2>2
    <3>2. a.committed[i] = commits[i - m]
      BY <1>3, <3>1
    <3>3. view[commits[i - m].id] = commits[i - m]
      BY <1>4, <1>6, <3>1
    <3> QED
      BY <3>2, <3>3
  <2> QED
    BY <2>1, <2>2
<1>11. live.provisional # NoSegment => live.provisional.id = Name(1)
  BY DEF Name
<1>12. CASE Left(a, k, commits)
  <2>1. /\ a.updates = commits /\ n = k
        /\ a.provisional = IF k = 0 THEN live.provisional ELSE NoSegment
        /\ a.next = IF k = 0 THEN live.next ELSE live.next + k - Base
    BY <1>12 DEF Left, Committed
  <2>2. CASE k = 0
    <3>1. a.provisional = live.provisional /\ a.next = live.next
      BY <2>1, <2>2
    <3>2. \A i \in 1..Len(a.committed) :
            /\ a.committed[i].id < a.next
            /\ a.provisional # NoSegment => a.committed[i].id < a.provisional.id
      BY <1>1, <1>3, <2>2, <3>1 DEF CaptionsInv, InOrder
    <3>3. DOMAIN view = DOMAIN shown /\ \A id \in DOMAIN shown : view[id] = shown[id]
      <4>1. 1..n = {}
        BY <2>1, <2>2
      <4> QED
        BY <1>6, <4>1
    <3>4. {a.committed[i].id : i \in 1..Len(a.committed)} = {live.committed[i].id : i \in 1..m}
      BY <1>3, <2>2
    <3>5. Shows(view, a.committed, a.provisional)
      <4>1. a.provisional # NoSegment => view[a.provisional.id] = a.provisional
        BY <1>8, <3>1, <3>3
      <4>2. DOMAIN view = {a.committed[i].id : i \in 1..Len(a.committed)}
                           \cup (IF a.provisional = NoSegment THEN {} ELSE {a.provisional.id})
        BY <1>8, <3>1, <3>3, <3>4
      <4> QED
        BY <1>3, <1>10, <4>1, <4>2 DEF Shows
    <3> QED
      BY <1>1, <1>3, <3>1, <3>2, <3>5 DEF view, CaptionsInv, InOrder
  <2>3. CASE k > 0
    <3>1. a.provisional = NoSegment /\ a.next = live.next + k - Base /\ a.next \in Nat
      BY <1>1, <2>1, <2>3
    <3>2. Name(k + 1) = a.next
      BY <1>1, <2>3, <3>1 DEF Name
    <3>3. DOMAIN view = {a.committed[i].id : i \in 1..Len(a.committed)}
      <4>1. live.provisional # NoSegment => live.provisional.id \in {Name(i) : i \in 1..k}
        BY <1>11, <2>3
      <4> QED
        BY <1>3, <1>6, <1>7, <1>8, <2>1, <4>1
    <3>4. Shows(view, a.committed, a.provisional)
      BY <1>3, <1>10, <3>1, <3>3 DEF Shows
    <3> QED
      BY <1>3, <3>1, <3>2, <3>4 DEF view
  <2> QED
    BY <2>2, <2>3
<1>13. CASE Revised(a, k, commits)
  <2>1. /\ a.updates = Append(commits, a.provisional)
        /\ a.provisional \in Updates /\ a.provisional.id = Name(k + 1)
        /\ a.next \in Nat /\ Name(k + 1) < a.next
    BY <1>13 DEF Revised
  <2>2. n = k + 1 /\ a.updates[k + 1] = a.provisional /\ k + 1 \in 1..n
    BY <2>1, AppendProperties DEF Committed
  <2>3. a.provisional # NoSegment
    BY <2>1 DEF Updates, NoSegment
  <2>4. \A i \in 1..Len(a.committed) : a.committed[i].id < a.next
    <3> SUFFICES ASSUME NEW i \in 1..Len(a.committed) PROVE a.committed[i].id < a.next
      OBVIOUS
    <3>1. a.committed[i].id \in Nat
      <4>1. a.committed[i] \in Updates
        BY <1>3, ElementOfSeq
      <4> QED
        BY <4>1 DEF Updates
    <3>2. Name(k + 1) \in Nat /\ a.committed[i].id < Name(k + 1)
      BY <1>3, NamesAscend
    <3> QED
      BY <2>1, <3>1, <3>2
  <2>5. view[a.provisional.id] = a.provisional
    BY <1>6, <2>2
  <2>6. DOMAIN view = {a.committed[i].id : i \in 1..Len(a.committed)} \cup {a.provisional.id}
    <3>1. live.provisional # NoSegment => live.provisional.id \in {Name(i) : i \in 1..(k + 1)}
      BY <1>11
    <3>2. {Name(i) : i \in 1..(k + 1)} = {Name(i) : i \in 1..k} \cup {a.provisional.id}
      <4>1. 1..(k + 1) = 1..k \cup {k + 1}
        OBVIOUS
      <4> QED
        BY <2>1, <4>1
    <3> QED
      BY <1>3, <1>6, <1>7, <1>8, <2>2, <3>1, <3>2
  <2>7. Shows(view, a.committed, a.provisional)
    BY <1>3, <1>10, <2>3, <2>5, <2>6 DEF Shows
  <2> QED
    BY <1>3, <2>1, <2>4, <2>7 DEF view
<1> QED
  BY <1>12, <1>13

LEMMA CaptionsSteps == CaptionsInv /\ [CaptionsNext]_captionVars => CaptionsInv'
<1> SUFFICES ASSUME CaptionsInv, [CaptionsNext]_captionVars PROVE CaptionsInv'
  OBVIOUS
<1>1. CASE UNCHANGED captionVars
  BY <1>1 DEF captionVars, CaptionsInv, CaptionsShape, InOrder, CaptionsAgree
<1>2. CASE CaptionsNext
  <2>1. PICK audioEnd \in 1..MaxAudio : \E segments \in Recognised(audioEnd) : Pass(segments, audioEnd)
    BY <1>2 DEF CaptionsNext
  <2>2. PICK segments \in Recognised(audioEnd) : Pass(segments, audioEnd)
    BY <2>1
  <2>3. \E n \in Nat : segments \in [1..n -> [end : Int, text : Texts]]
    <3>1. PICK n \in 0..MaxSegments :
            segments \in [1..n -> [end : live.until..(audioEnd + Lag), text : Texts]]
      BY <2>2 DEF Recognised
    <3>2. live.until..(audioEnd + Lag) \subseteq Int
      OBVIOUS
    <3>3. segments \in [1..n -> [end : Int, text : Texts]]
      BY <3>1, <3>2
    <3>4. n \in Nat
      BY CaptionsAssumption
    <3> QED
      BY <3>3, <3>4
  <2>4. live' = Applied(segments, audioEnd) /\ shown' = Replaced(shown, live'.updates)
    BY <2>2 DEF Pass
  <2>5. /\ Shaped(live')
        /\ \E k \in Nat, commits \in Seq(Updates) :
             /\ Committed(k, commits)
             /\ live'.committed = live.committed \o commits
             /\ Left(live', k, commits) \/ Revised(live', k, commits)
    BY <2>3, <2>4, PassUpdates
  <2>6. /\ live'.committed \in Seq(Updates) /\ live'.provisional \in Updates \cup {NoSegment}
        /\ live'.next \in Nat
        /\ \A i \in 1..Len(live'.committed) :
             /\ live'.committed[i].id < live'.next
             /\ live'.provisional # NoSegment => live'.committed[i].id < live'.provisional.id
        /\ live'.provisional # NoSegment => live'.provisional.id < live'.next
        /\ Shows(shown', live'.committed, live'.provisional)
    BY <2>4, <2>5, PassAgrees
  <2>7. CaptionsShape' /\ InOrder'
    BY <2>5, <2>6 DEF CaptionsShape, InOrder, Shaped
  <2>8. CaptionsAgree'
    BY <2>6, ShowsIsAgreement DEF CaptionsAgree
  <2> QED
    BY <2>7, <2>8 DEF CaptionsInv
<1> QED
  BY <1>1, <1>2

\* Whatever the passes recognise and however often a segment is revised or
\* committed, a client that applies each update by its identity shows what the
\* server has (CaptionsAgree).
THEOREM ClientsAgree == CaptionsSpec => []CaptionsAgree
<1>1. CaptionsInv => CaptionsAgree
  BY DEF CaptionsInv
<1> QED
  BY <1>1, CaptionsStart, CaptionsSteps, PTL DEF CaptionsSpec
=============================================================================
