---------------------- MODULE CredentialRotationProofs ----------------------
(* Proofs about CredentialLoss, and so about CredentialRotation, for any number *)
(* of processes, accounts, consents and rotations.                             *)
EXTENDS CredentialLoss, TLAPS

Steps == {"idle", "asked", "answered"}
Flights == [pc : Steps, id : 1..MaxGrants, user : Users, cred : Credentials, new : Credentials]

\* An exchange in flight never holds a credential newer than the row's, and knows whose it is.
Behind(f) ==
    f.pc # "idle" => /\ ~Newer(f.cred, row.cred)
                     /\ f.cred = row.cred => f.id = row.id /\ f.user = row.user

\* An answer is the same turn, perhaps encrypted again, or the next one; and the next turn of
\* the row's token stays good until someone else uses it, which nobody can before the row
\* holds it.
Sound(f) ==
    f.pc = "answered" =>
        /\ f.new.grant = f.cred.grant
        /\ f.new.turn \in {f.cred.turn, f.cred.turn + 1}
        /\ f.new = f.cred \/ Newer(f.new, f.cred)
        /\ f.new.turn # f.cred.turn /\ Token(f.cred) = Token(row.cred) => Token(f.new) \in live

\* The grant of a callback in flight is newer than the row's and nobody used it.
Linking == link.open => link.grant > row.cred.grant /\ Token(First(link.grant)) \in live

\* Two credentials have one token when grant and turn agree.
LEMMA TokensEqual ==
    ASSUME NEW c, NEW d
    PROVE  Token(c) = Token(d) <=> c.grant = d.grant /\ c.turn = d.turn
BY DEF Token

LEMMA FirstIs ==
    ASSUME NEW grant
    PROVE  First(grant).grant = grant /\ First(grant).turn = 0 /\ First(grant).seal = 0
BY DEF First

RowOK ==
    /\ row \in [id : 1..MaxGrants, cred : Credentials, revoked : BOOLEAN, user : Users]
    /\ row.id <= row.cred.grant
    /\ permitted \in BOOLEAN
    /\ live \subseteq Tokens
LinkOK ==
    /\ link \in [open : BOOLEAN, user : Users, target : 0..MaxGrants, grant : 1..MaxGrants]
    /\ Linking
FlightOK(f) == Behind(f) /\ Sound(f)
FlightsOK ==
    /\ flight \in [Processes -> Flights]
    /\ \A x \in Processes : FlightOK(flight[x])

\* The inductive invariant of the rotation.
RInv == RowOK /\ LinkOK /\ FlightsOK

USE PartiesOK

-----------------------------------------------------------------------------

LEMMA InvTypes == RInv => CredentialsOK
BY DEF RInv, RowOK, LinkOK, FlightsOK, FlightOK, Behind, CredentialsOK, CredentialOK, Flights, Steps

LEMMA IdleOK == ASSUME RInv PROVE Idle \in Flights /\ Idle.pc = "idle"
<1>1. (CHOOSE u \in Users : TRUE) \in Users
  BY DEF RInv, RowOK
<1> QED BY <1>1 DEF Idle, Flights, Steps, Credentials, First

LEMMA NoLinkOK ==
    ASSUME RInv
    PROVE  /\ NoLink \in [open : BOOLEAN, user : Users, target : 0..MaxGrants, grant : 1..MaxGrants]
           /\ ~NoLink.open
<1>1. (CHOOSE u \in Users : TRUE) \in Users
  BY DEF RInv, RowOK
<1> QED BY <1>1 DEF NoLink

\* A step that leaves every exchange as sound as it was, and moves one of them.
Harmless == \A f \in Flights : FlightOK(f) => FlightOK(f)'

LEMMA StillHarmless == ASSUME UNCHANGED <<row, live>> PROVE Harmless
BY DEF Harmless, FlightOK, Behind, Sound, Newer

LEMMA OneMoves ==
    ASSUME RInv, NEW x \in Processes, NEW f \in Flights,
           flight' = [flight EXCEPT ![x] = f], Harmless, FlightOK(f)'
    PROVE  FlightsOK'
<1>1. flight' \in [Processes -> Flights]
  BY DEF RInv, FlightsOK
<1>2. \A y \in Processes : flight'[y] = f \/ flight'[y] = flight[y]
  BY DEF RInv, FlightsOK
<1>3. \A y \in Processes : flight[y] \in Flights /\ FlightOK(flight[y])
  BY DEF RInv, FlightsOK
<1>4. ASSUME NEW y \in Processes PROVE FlightOK(flight[y])'
  <2>1. CASE flight'[y] = f
    BY <2>1 DEF FlightOK, Behind, Sound, Newer
  <2>2. CASE flight'[y] = flight[y]
    BY <2>2, <1>3 DEF Harmless, FlightOK, Behind, Sound, Newer
  <2> QED BY <2>1, <2>2, <1>2
<1> QED BY <1>1, <1>4 DEF FlightsOK

LEMMA Landing ==
    ASSUME RInv, NEW x \in Processes, Land(x), Harmless
    PROVE  FlightsOK'
<1>1. FlightOK(Idle)'
  BY IdleOK DEF FlightOK, Behind, Sound
<1> QED BY <1>1, IdleOK, OneMoves DEF Land

LEMMA OthersStand ==
    ASSUME RInv, UNCHANGED flight, Harmless
    PROVE  FlightsOK'
<1>1. \A y \in Processes : flight[y] \in Flights /\ FlightOK(flight[y])
  BY DEF RInv, FlightsOK
<1>2. ASSUME NEW y \in Processes PROVE FlightOK(flight[y])'
  BY <1>1 DEF Harmless, FlightOK, Behind, Sound, Newer
<1> QED BY <1>1, <1>2 DEF FlightsOK, RInv

-----------------------------------------------------------------------------
(* The exchange *)

LEMMA SnapshotStep ==
    ASSUME RInv, NEW x \in Processes, Snapshot(x)
    PROVE  RInv'
<1>1. Started("asked") \in Flights /\ FlightOK(Started("asked"))
  BY DEF RInv, RowOK, Started, Flights, FlightOK, Behind, Sound, Newer, Credentials, Steps
<1>2. PICK f \in Flights : f = Started("asked")
  BY <1>1
<1>3. FlightOK(f)' /\ Harmless
  BY <1>1, <1>2, StillHarmless DEF Snapshot, FlightOK, Behind, Sound, Newer
<1>4. FlightsOK'
  BY <1>2, <1>3, OneMoves DEF Snapshot
<1> QED BY <1>4 DEF Snapshot, RInv, RowOK, LinkOK, Linking

LEMMA SoldOK ==
    ASSUME RInv, NEW x \in Processes, flight[x].pc = "asked", NEW new \in Sold(flight[x])
    PROVE  /\ new \in Credentials /\ new.grant = flight[x].cred.grant
           /\ new.turn \in {flight[x].cred.turn, flight[x].cred.turn + 1}
           /\ new = flight[x].cred \/ Newer(new, flight[x].cred)
           /\ Token(flight[x].cred) \in live
<1>1. PICK c \in Credentials : c = flight[x].cred
  BY DEF RInv, FlightsOK, Flights
<1>2. c.grant \in 1..MaxGrants /\ c.turn \in 0..MaxTurns /\ c.seal \in 0..MaxSeals
  BY DEF Credentials
<1>3. Token(c) \in live
  BY <1>1 DEF Sold
<1>4. CASE new = c
  BY <1>1, <1>2, <1>3, <1>4
<1>5. ASSUME NEW n \in {c.seal + 1} \cap 0..MaxSeals, new = [c EXCEPT !.seal = n]
      PROVE  new \in Credentials /\ new.grant = c.grant /\ new.turn = c.turn /\ Newer(new, c)
  BY <1>2, <1>5 DEF Credentials, Newer
<1>6. ASSUME NEW n \in {c.turn + 1} \cap 0..MaxTurns, new = [c EXCEPT !.turn = n, !.seal = 0]
      PROVE  new \in Credentials /\ new.grant = c.grant /\ new.turn = c.turn + 1 /\ Newer(new, c)
  <2>1. new = [grant |-> c.grant, turn |-> n, seal |-> 0]
    BY <1>6 DEF Credentials
  <2> QED BY <1>2, <2>1 DEF Credentials, Newer
<1>7. \/ new = c
      \/ \E n \in {c.seal + 1} \cap 0..MaxSeals : new = [c EXCEPT !.seal = n]
      \/ \E n \in {c.turn + 1} \cap 0..MaxTurns : new = [c EXCEPT !.turn = n, !.seal = 0]
  BY <1>1, <1>3 DEF Sold
<1> QED BY <1>1, <1>3, <1>4, <1>5, <1>6, <1>7

\* The identity provider sells one token: what the others wait for stays good.
LEMMA SaleOK ==
    ASSUME RInv, NEW x \in Processes, flight[x].pc = "asked", NEW new \in Sold(flight[x]),
           live' = Accepted(flight[x], new), UNCHANGED <<row, link, permitted>>
    PROVE  RowOK' /\ LinkOK' /\ Harmless
<1>1. PICK c \in Credentials : c = flight[x].cred /\ ~Newer(c, row.cred)
  BY DEF RInv, FlightsOK, FlightOK, Behind, Flights
<1>2. live' = (live \ {Token(c)}) \cup {Token(new)}
  BY <1>1 DEF Accepted
<1>3. Token(new) \in Tokens
  BY SoldOK DEF Token, Tokens, Credentials
<1>4. RowOK'
  BY <1>2, <1>3 DEF RInv, RowOK
<1>5. row.cred \in Credentials
  BY DEF RInv, RowOK
<1>6. LinkOK'
  <2>1. ASSUME link.open PROVE Token(First(link.grant)) \in live'
    <3>1. link.grant > row.cred.grant /\ Token(First(link.grant)) \in live /\ link.grant \in Nat
      BY <2>1 DEF RInv, LinkOK, Linking
    <3>2. c.grant # link.grant
      BY <1>1, <1>5, <3>1 DEF Newer, Credentials
    <3>3. Token(First(link.grant)) # Token(c)
      BY <3>2, TokensEqual, FirstIs
    <3> QED BY <1>2, <3>1, <3>3
  <2> QED BY <2>1 DEF RInv, LinkOK, Linking
<1>7. ASSUME NEW f \in Flights, FlightOK(f) PROVE FlightOK(f)'
  <2>1. Behind(f)'
    BY <1>7 DEF FlightOK, Behind, Newer
  <2>2. ASSUME f.pc = "answered", f.new.turn # f.cred.turn, Token(f.cred) = Token(row.cred)
        PROVE  Token(f.new) # Token(c)
    <3>1. f.new \in Credentials /\ f.cred \in Credentials /\ f.new.grant = f.cred.grant
          /\ f.new.turn = f.cred.turn + 1
      BY <1>7, <2>2 DEF FlightOK, Sound, Flights
    <3>2. f.cred.grant = row.cred.grant /\ f.cred.turn = row.cred.turn
      BY <2>2, TokensEqual
    <3>3. ~(c.grant = row.cred.grant /\ c.turn = row.cred.turn + 1)
      BY <1>1, <1>5 DEF Newer, Credentials
    <3> QED BY <3>1, <3>2, <3>3, TokensEqual
  <2>3. Sound(f)'
    BY <1>2, <2>2, <1>7 DEF FlightOK, Sound, Newer, Token
  <2> QED BY <2>1, <2>3 DEF FlightOK
<1> QED BY <1>4, <1>6, <1>7 DEF Harmless

LEMMA AnswerStep ==
    ASSUME RInv, NEW x \in Processes, Answer(x)
    PROVE  RInv'
<1>1. PICK new \in Sold(flight[x]) :
          /\ flight' = [flight EXCEPT ![x] = [flight[x] EXCEPT !.pc = "answered", !.new = new]]
          /\ live' = Accepted(flight[x], new)
  BY DEF Answer
<1>2. PICK f \in Flights : f = flight[x] /\ f.pc = "asked" /\ FlightOK(f)
  BY DEF RInv, FlightsOK, Answer
<1>3. PICK g \in Flights : g = [f EXCEPT !.pc = "answered", !.new = new]
  <2>1. [f EXCEPT !.pc = "answered", !.new = new] \in Flights
    BY <1>2, SoldOK DEF Flights, Steps
  <2> QED BY <2>1
<1>4. flight' = [flight EXCEPT ![x] = g]
  BY <1>1, <1>2, <1>3
<1>5. RowOK' /\ LinkOK' /\ Harmless
  BY <1>1, <1>2, SaleOK DEF Answer
<1>6. g.pc = "answered" /\ g.id = f.id /\ g.user = f.user /\ g.cred = f.cred /\ g.new = new
  BY <1>3 DEF Flights
<1>7. Behind(g)'
  BY <1>2, <1>6 DEF Answer, FlightOK, Behind, Newer
<1>8. Sound(g)'
  <2>1. Token(new) \in live'
    BY <1>1 DEF Accepted
  <2> QED BY <1>1, <1>2, <1>6, <2>1, SoldOK DEF Sound, Newer, Token
<1>9. FlightOK(g)'
  BY <1>7, <1>8 DEF FlightOK
<1> QED BY <1>4, <1>5, <1>9, OneMoves DEF RInv

LEMMA GiveUpStep ==
    ASSUME RInv, NEW x \in Processes, GiveUp(x)
    PROVE  RInv'
<1>1. CASE UNCHANGED live
  BY <1>1, StillHarmless, Landing DEF GiveUp, RInv, RowOK, LinkOK, Linking
<1>2. CASE \E new \in Sold(flight[x]) : live' = Accepted(flight[x], new)
  BY <1>2, SaleOK, Landing DEF GiveUp, Unanswered, RInv
<1> QED BY <1>1, <1>2 DEF GiveUp, Unanswered

LEMMA DropStep ==
    ASSUME RInv, NEW x \in Processes, Land(x), UNCHANGED <<row, permitted, live, link>>
    PROVE  RInv'
BY StillHarmless, Landing DEF RInv, RowOK, LinkOK, Linking

\* An answer to the row's credential replaces it.
LEMMA SaveStep ==
    ASSUME RInv, NEW x \in Processes, flight[x].pc = "answered",
           row' = Swapped(flight[x]), Land(x), UNCHANGED <<permitted, live, link>>
    PROVE  /\ RInv'
           /\ row'.cred # row.cred => /\ Newer(row'.cred, row.cred)
                                      /\ row'.cred.grant = row.cred.grant
<1>1. CASE ~Swappable(flight[x])
  BY <1>1, DropStep DEF Swapped
<1>2. CASE Swappable(flight[x])
  <2> DEFINE f == flight[x]
  <2>1. f \in Flights /\ Sound(f)
    BY DEF RInv, FlightsOK, FlightOK
  <2>2. row' = [id |-> row.id, cred |-> f.new, revoked |-> row.revoked, user |-> row.user]
    BY <1>2 DEF Swapped, RInv, RowOK
  <2>3. /\ f.cred = row.cred /\ f.new.grant = row.cred.grant /\ f.new \in Credentials
        /\ f.new.turn \in {row.cred.turn, row.cred.turn + 1} /\ row.cred \in Credentials
        /\ f.new = row.cred \/ Newer(f.new, row.cred)
    BY <1>2, <2>1 DEF Swappable, Sound, Flights, RInv, RowOK
  <2> HIDE DEF f
  <2>4. RowOK' /\ LinkOK'
    BY <2>2, <2>3 DEF RInv, RowOK, LinkOK, Linking
  <2>5. Harmless
    <3>1. CASE f.new = row.cred
      BY <3>1, <2>2 DEF Harmless, FlightOK, Behind, Sound, Newer
    <3>2. CASE Newer(f.new, row.cred)
      <4>1. ASSUME NEW g \in Flights, FlightOK(g) PROVE FlightOK(g)'
        <5>1. g.pc # "idle" => ~Newer(g.cred, row.cred)
          BY <4>1 DEF FlightOK, Behind
        <5>2. g.cred \in Credentials
          BY DEF Flights
        <5>3. g.pc # "idle" => ~Newer(g.cred, f.new) /\ g.cred # f.new
          BY <5>1, <5>2, <3>2, <2>3 DEF Newer, Credentials
        <5>4. Behind(g)'
          BY <5>3, <2>2 DEF Behind, Newer
        <5>5. ASSUME g.pc = "answered", Token(g.cred) = Token(f.new)
              PROVE  Token(g.cred) = Token(row.cred)
          <6>1. g.cred.grant = f.new.grant /\ g.cred.turn = f.new.turn
            BY <5>5, TokensEqual
          <6>2. f.new.turn = row.cred.turn
            BY <5>1, <5>2, <5>5, <6>1, <2>3 DEF Newer, Credentials
          <6> QED BY <6>1, <6>2, <2>3, TokensEqual
        <5>6. Sound(g)'
          BY <4>1, <5>5, <2>2 DEF FlightOK, Sound, Newer, Token
        <5> QED BY <5>4, <5>6 DEF FlightOK
      <4> QED BY <4>1 DEF Harmless
    <3> QED BY <3>1, <3>2, <2>3
  <2> QED BY <2>2, <2>3, <2>4, <2>5, Landing DEF RInv
<1> QED BY <1>1, <1>2

LEMMA PersistStep ==
    ASSUME RInv, NEW c \in Processes, Persist(c)
    PROVE  /\ RInv'
           /\ row'.cred # row.cred => /\ Newer(row'.cred, row.cred)
                                      /\ row'.cred.grant = row.cred.grant
<1>1. CASE Persistable(flight[c])
  BY <1>1, SaveStep DEF Persist, Persistable, Swappable, Swapped
<1>2. CASE ~Persistable(flight[c])
  BY <1>2, DropStep DEF Persist
<1> QED BY <1>1, <1>2

-----------------------------------------------------------------------------
(* The pilot and the account *)

LEMMA UnlinkStep == ASSUME RInv, Unlink PROVE RInv'
<1>1. row' = [id |-> row.id, cred |-> row.cred, revoked |-> TRUE, user |-> row.user]
  BY DEF Unlink, RInv, RowOK
<1>2. Harmless
  BY <1>1 DEF Unlink, Harmless, FlightOK, Behind, Sound, Newer
<1> QED BY <1>1, <1>2, OthersStand DEF Unlink, RInv, RowOK, LinkOK, Linking

LEMMA BeginLinkStep == ASSUME RInv, NEW u \in Users, BeginLink(u) PROVE RInv'
<1>1. PICK grant \in 2..MaxGrants :
          /\ grant > row.cred.grant
          /\ link' = [open |-> TRUE, user |-> u, target |-> IF row.revoked THEN 0 ELSE row.id,
                      grant |-> grant]
          /\ live' = live \cup {Token(First(grant))}
  BY DEF BeginLink
<1>2. LinkOK'
  BY <1>1 DEF BeginLink, RInv, RowOK, LinkOK, Linking
<1>3. RowOK'
  BY <1>1 DEF BeginLink, RInv, RowOK, Token, First, Tokens
<1>4. Harmless
  BY <1>1 DEF BeginLink, Harmless, FlightOK, Behind, Sound, Newer
<1> QED BY <1>2, <1>3, <1>4, OthersStand DEF BeginLink, RInv

LEMMA SaveLinkStep ==
    ASSUME RInv, SaveLink
    PROVE  /\ RInv'
           /\ row'.cred = First(link.grant)
           /\ row'.cred.grant > row.cred.grant /\ Token(row'.cred) \in live
<1> DEFINE cred == First(link.grant)
<1>1. /\ cred \in Credentials /\ Token(cred) \in live /\ cred.grant > row.cred.grant
      /\ row.cred \in Credentials
  BY DEF SaveLink, RInv, RowOK, LinkOK, Linking, Credentials, First
<1>2. \/ row' = [id |-> row.id + 1, cred |-> cred, revoked |-> FALSE, user |-> link.user]
      \/ row' = [id |-> row.id, cred |-> cred, revoked |-> row.revoked, user |-> link.user]
  BY DEF SaveLink, RInv, RowOK
<1>5. link.user \in Users
  BY DEF RInv, LinkOK
<1> HIDE DEF cred
<1>3. RowOK'
  <2>1. row.id + 1 \in 1..MaxGrants /\ row.id + 1 <= cred.grant /\ row.id <= cred.grant
    BY <1>1 DEF RInv, RowOK, Credentials
  <2>2. UNCHANGED <<permitted, live>>
    BY DEF SaveLink
  <2>3. permitted \in BOOLEAN /\ live \subseteq Tokens /\ row.id \in 1..MaxGrants /\ row.revoked \in BOOLEAN
    BY DEF RInv, RowOK
  <2>4. row' \in [id : 1..MaxGrants, cred : Credentials, revoked : BOOLEAN, user : Users]
    <3>1. CASE row' = [id |-> row.id + 1, cred |-> cred, revoked |-> FALSE, user |-> link.user]
      BY <3>1, <1>1, <1>5, <2>1
    <3>2. CASE row' = [id |-> row.id, cred |-> cred, revoked |-> row.revoked, user |-> link.user]
      BY <3>2, <1>1, <1>5, <2>3
    <3> QED BY <3>1, <3>2, <1>2
  <2>5. row'.id <= row'.cred.grant
    BY <1>2, <2>1
  <2> QED BY <2>2, <2>3, <2>4, <2>5 DEF RowOK
<1>4. LinkOK'
  BY NoLinkOK DEF SaveLink, LinkOK, Linking
<1>6. ASSUME NEW g \in Flights, g.pc # "idle", ~Newer(g.cred, row.cred)
      PROVE  ~Newer(g.cred, cred) /\ g.cred # cred /\ Token(g.cred) # Token(cred)
  <2>1. g.cred \in Credentials /\ g.cred.grant < cred.grant
    BY <1>6, <1>1 DEF Newer, Flights, Credentials
  <2> QED BY <2>1, <1>1, TokensEqual DEF Newer, Credentials
<1>7. Harmless
  <2> SUFFICES ASSUME NEW g \in Flights, FlightOK(g) PROVE FlightOK(g)'
    BY DEF Harmless
  <2>1. row'.cred = cred
    BY <1>2
  <2>2. Behind(g)'
    BY <1>6, <2>1 DEF FlightOK, Behind, Newer
  <2>3. g.pc = "answered" => Token(g.cred) # Token(cred)
    BY <1>6 DEF FlightOK, Behind
  <2>4. Sound(g)'
    BY <2>1, <2>3 DEF FlightOK, Sound, Newer, Token
  <2> QED BY <2>2, <2>4 DEF FlightOK
<1> QED BY <1>1, <1>2, <1>3, <1>4, <1>7, OthersStand DEF SaveLink, RInv, cred

LEMMA LoseRoleStep == ASSUME RInv, LoseRole PROVE RInv'
BY StillHarmless, OthersStand DEF LoseRole, RInv, RowOK, LinkOK, Linking

-----------------------------------------------------------------------------
(* The theorems *)

LEMMA RInvInit == CredentialInit => RInv
<1> SUFFICES ASSUME CredentialInit PROVE RInv
  OBVIOUS
<1>1. PICK u \in Users :
          row = [id |-> 1, cred |-> First(1), revoked |-> FALSE, user |-> u]
  BY DEF CredentialInit
<1>2. (CHOOSE w \in Users : TRUE) \in Users
  OBVIOUS
<1>3. RowOK
  BY <1>1 DEF CredentialInit, RowOK, Credentials, Tokens, Token, First
<1>4. LinkOK
  BY <1>2 DEF CredentialInit, LinkOK, Linking, NoLink
<1>5. Idle \in Flights /\ Idle.pc = "idle"
  BY <1>2 DEF Idle, Flights, Steps, Credentials, First
<1>6. FlightsOK
  BY <1>5 DEF CredentialInit, FlightsOK, FlightOK, Behind, Sound
<1> QED BY <1>3, <1>4, <1>6 DEF RInv

\* Every action keeps the invariant and moves the credential forward or not at all.
Forward == row'.cred # row.cred => /\ Newer(row'.cred, row.cred)
                                   /\ SaveLink \/ row'.cred.grant = row.cred.grant

LEMMA RInvStep == RInv /\ [CredentialNext]_credentialVars => RInv' /\ Forward
<1> SUFFICES ASSUME RInv, [CredentialNext]_credentialVars PROVE RInv' /\ Forward
  OBVIOUS
<1>1. ASSUME NEW x \in Processes, Snapshot(x) PROVE RInv' /\ Forward
  BY <1>1, SnapshotStep DEF Snapshot, Forward
<1>2. ASSUME NEW x \in Processes, Answer(x) PROVE RInv' /\ Forward
  BY <1>2, AnswerStep DEF Answer, Forward
<1>3. ASSUME NEW x \in Processes, GiveUp(x) PROVE RInv' /\ Forward
  BY <1>3, GiveUpStep DEF GiveUp, Forward
<1>4. ASSUME NEW x \in Processes, Die(x) PROVE RInv' /\ Forward
  BY <1>4, DropStep DEF Die, Forward
<1>5. ASSUME NEW c \in Callers, Busy(c) PROVE RInv' /\ Forward
  BY <1>5, DropStep DEF Busy, Forward, Processes
<1>6. ASSUME NEW c \in Callers, Persist(c) PROVE RInv' /\ Forward
  BY <1>6, PersistStep DEF Forward, Processes
<1>7. ASSUME NEW p \in Samplers, Swap(p) PROVE RInv' /\ Forward
  BY <1>7, SaveStep DEF Swap, Forward, Processes
<1>8. CASE Unlink
  <2>1. row'.cred = row.cred
    BY <1>8 DEF Unlink, RInv, RowOK
  <2> QED BY <1>8, <2>1, UnlinkStep DEF Forward
<1>9. ASSUME NEW u \in Users, BeginLink(u) PROVE RInv' /\ Forward
  BY <1>9, BeginLinkStep DEF BeginLink, Forward
<1>10. CASE SaveLink
  BY <1>10, SaveLinkStep DEF Forward, Newer
<1>11. CASE LoseRole
  BY <1>11, LoseRoleStep DEF LoseRole, Forward
<1>12. CASE UNCHANGED credentialVars
  <2>1. UNCHANGED <<row, permitted, live, flight, link>>
    BY <1>12 DEF credentialVars
  <2> QED BY <2>1, StillHarmless, OthersStand DEF RInv, RowOK, LinkOK, Linking, Forward
<1> QED BY <1>1, <1>2, <1>3, <1>4, <1>5, <1>6, <1>7, <1>8, <1>9, <1>10, <1>11, <1>12
        DEF CredentialNext, Exchange, Refresh, Account, Processes

\* Remembering the losses adds no step.
LEMMA RotationStep == [Next]_vars => [CredentialNext]_credentialVars
BY DEF Next, Losses, Others, vars, CredentialNext, Exchange, Refresh, Account, Processes

\* CredentialsOK: types, and whoever exchanges the credential the row holds knows the row's ID
\* and its account (esi_refresh.persist, journey_worker._refresh_token): however many processes
\* there are, and however often the character is linked and unlinked in between.
THEOREM CredentialsAreTheirs == Spec => []CredentialsOK
<1>1. Init => RInv
  BY RInvInit DEF Init
<1>2. RInv /\ [Next]_vars => RInv'
  BY RInvStep, RotationStep
<1> QED BY <1>1, <1>2, InvTypes, PTL DEF Spec

\* CredentialMovesForward: no refresher writes an older refresh token over a newer one.
THEOREM NeverBack == Spec => CredentialMovesForward
<1>1. Init => RInv
  BY RInvInit DEF Init
<1>2. RInv /\ [Next]_vars => RInv'
  BY RInvStep, RotationStep
<1>3. RInv /\ [Next]_vars => [Forward]_credentialVars
  BY RInvStep, RotationStep
<1>4. [Forward]_credentialVars <=>
         [row'.cred # row.cred => /\ Newer(row'.cred, row.cred)
                                  /\ SaveLink \/ row'.cred.grant = row.cred.grant]_credentialVars
  BY DEF Forward
<1> QED BY <1>1, <1>2, <1>3, <1>4, PTL DEF Spec, CredentialMovesForward

-----------------------------------------------------------------------------
(* Only losses lose *)

\* The exchange that will replace the row's credential by a good one.
Saves(f) == f.pc = "answered" /\ f.cred = row.cred /\ Token(f.new) \in live

\* As long as nothing was overtaken, whoever exchanges the row's token started from the
\* encryption the row holds.
Fresh == \A x \in Processes :
    flight[x].pc # "idle" /\ Token(flight[x].cred) = Token(row.cred) => flight[x].cred = row.cred

\* An exchange that did not move still saves what it saved.
LEMMA SaverStays ==
    ASSUME RInv, NEW x \in Processes, NEW f, flight' = [flight EXCEPT ![x] = f],
           UNCHANGED row, NEW w \in Processes, w # x, Saves(flight[w]), Token(flight[w].new) \in live'
    PROVE  Recoverable'
<1>1. flight'[w] = flight[w]
  BY DEF RInv, FlightsOK
<1> QED BY <1>1 DEF Saves, Recoverable

LEMMA SnapshotKeeps ==
    ASSUME RInv, Recoverable, NEW x \in Processes, Snapshot(x)
    PROVE  Recoverable'
<1>1. CASE Token(row.cred) \in live
  BY <1>1 DEF Snapshot, Recoverable
<1>2. CASE \E w \in Processes : Saves(flight[w])
  <2>1. PICK w \in Processes : Saves(flight[w])
    BY <1>2
  <2>2. w # x /\ Token(flight[w].new) \in live'
    BY <2>1 DEF Snapshot, Saves
  <2>3. flight'[w] = flight[w]
    BY <2>2 DEF Snapshot, RInv, FlightsOK
  <2> QED BY <2>1, <2>2, <2>3 DEF Snapshot, Saves, Recoverable
<1> QED BY <1>1, <1>2 DEF Recoverable, Saves

LEMMA AnswerKeeps ==
    ASSUME RInv, Fresh, Recoverable, NEW x \in Processes, Answer(x)
    PROVE  Recoverable'
<1>1. PICK new \in Sold(flight[x]) :
          /\ flight' = [flight EXCEPT ![x] = [flight[x] EXCEPT !.pc = "answered", !.new = new]]
          /\ live' = Accepted(flight[x], new)
  BY DEF Answer
<1>2. flight[x] \in Flights /\ flight[x].pc = "asked" /\ ~Newer(flight[x].cred, row.cred)
  BY DEF Answer, RInv, FlightsOK, FlightOK, Behind
<1>3. CASE flight[x].cred = row.cred
  <2>1. [flight[x] EXCEPT !.pc = "answered", !.new = new].pc = "answered"
        /\ [flight[x] EXCEPT !.pc = "answered", !.new = new].cred = flight[x].cred
        /\ [flight[x] EXCEPT !.pc = "answered", !.new = new].new = new
    BY <1>2 DEF Flights
  <2>2. flight'[x] = [flight[x] EXCEPT !.pc = "answered", !.new = new]
    BY <1>1 DEF RInv, FlightsOK
  <2>3. Token(new) \in live'
    BY <1>1 DEF Accepted
  <2> QED BY <1>1, <1>3, <2>1, <2>2, <2>3 DEF Answer, Recoverable
<1>4. CASE flight[x].cred # row.cred /\ Token(row.cred) \in live
  <2>1. Token(flight[x].cred) # Token(row.cred)
    BY <1>2, <1>4 DEF Fresh
  <2>2. Token(row.cred) \in live'
    BY <1>1, <1>4, <2>1 DEF Accepted
  <2> QED BY <2>2 DEF Answer, Recoverable
<1>5. CASE \E w \in Processes : Saves(flight[w]) /\ Token(row.cred) \notin live
  <2>1. PICK w \in Processes : Saves(flight[w]) /\ Token(row.cred) \notin live
    BY <1>5
  <2>2. flight[w] \in Flights /\ Sound(flight[w]) /\ row.cred \in Credentials
    BY DEF RInv, FlightsOK, FlightOK, RowOK
  <2>3. flight[w].new.grant = row.cred.grant /\ flight[w].new.turn = row.cred.turn + 1
    <3>1. Token(flight[w].new) # Token(row.cred)
      BY <2>1 DEF Saves
    <3> QED BY <2>1, <2>2, <3>1, TokensEqual DEF Saves, Sound
  <2>4. Token(flight[w].new) # Token(flight[x].cred)
    <3>1. flight[x].cred \in Credentials
      BY <1>2 DEF Flights
    <3>2. ~(flight[x].cred.grant = row.cred.grant /\ flight[x].cred.turn = row.cred.turn + 1)
      BY <1>2, <2>2, <3>1 DEF Newer, Credentials
    <3> QED BY <2>3, <3>2, TokensEqual
  <2>5. w # x /\ Token(flight[w].new) \in live'
    BY <2>1, <2>4, <1>1, <1>2 DEF Saves, Accepted
  <2>6. flight'[w] = flight[w]
    BY <2>5, <1>1 DEF RInv, FlightsOK
  <2> QED BY <2>1, <2>5, <2>6 DEF Answer, Saves, Recoverable
<1> QED BY <1>3, <1>4, <1>5 DEF Recoverable, Saves

\* A saved answer is the row's new credential; one that is not saved was nobody's hope, and
\* one that is leaves nobody behind who hoped for another.
LEMMA SaveKeeps ==
    ASSUME RInv, Recoverable, ~row.revoked, NEW x \in Processes, flight[x].pc = "answered",
           row' = Swapped(flight[x]), Land(x), UNCHANGED live, ~Overtakes
    PROVE  Recoverable'
<1>1. PICK f \in Flights : f = flight[x] /\ Sound(f) /\ Behind(f) /\ f.pc = "answered"
  BY DEF RInv, FlightsOK, FlightOK
<1>2. row.cred \in Credentials
  BY DEF RInv, RowOK
<1>3. f.cred = row.cred => Swappable(f)
  BY <1>1 DEF Behind, Swappable, SameHolder
<1>4. ASSUME NEW w \in Processes, w # x PROVE flight'[w] = flight[w]
  BY <1>4 DEF Land, RInv, FlightsOK
<1>5. CASE row' = row
  <2>1. CASE Token(row.cred) \in live
    BY <1>5, <2>1 DEF Recoverable
  <2>2. CASE \E w \in Processes : Saves(flight[w])
    <3>1. PICK w \in Processes : Saves(flight[w])
      BY <2>2
    <3>2. CASE w = x
      <4>1. row'.cred = f.new /\ Token(f.new) \in live
        BY <1>1, <1>3, <3>1, <3>2 DEF Saves, Swapped, RInv, RowOK
      <4> QED BY <4>1 DEF Recoverable
    <3>3. CASE w # x
      BY <1>4, <1>5, <3>1, <3>3 DEF Saves, Recoverable
    <3> QED BY <3>2, <3>3
  <2> QED BY <2>1, <2>2 DEF Recoverable, Saves
<1>6. CASE row' # row
  <2>1. Swappable(f) /\ f.cred = row.cred /\ row'.cred = f.new /\ f.new # row.cred
    <3>1. Swappable(f) /\ row' = [row EXCEPT !.cred = f.new]
      BY <1>1, <1>6 DEF Swapped
    <3>2. row'.cred = f.new /\ (f.new = row.cred => row' = row)
      BY <3>1 DEF RInv, RowOK
    <3> QED BY <1>6, <3>1, <3>2 DEF Swappable
  <2>2. CASE Token(f.new) \in live
    BY <2>1, <2>2 DEF Recoverable
  <2>3. CASE Token(f.new) \notin live
    <3>1. f.new.grant = row.cred.grant /\ f.new.turn = row.cred.turn
      BY <1>1, <2>1, <2>3, TokensEqual DEF Sound
    <3>2. Token(f.new) = Token(row.cred)
      BY <3>1, TokensEqual
    <3>3. PICK w \in Processes : Saves(flight[w])
      BY <2>3, <3>2 DEF Recoverable, Saves
    <3>4. w # x
      BY <1>1, <2>3, <3>3 DEF Saves
    <3>5. flight'[w].pc # "idle" /\ flight'[w].cred = row.cred
      BY <1>4, <3>3, <3>4 DEF Saves
    <3> QED BY <2>1, <3>2, <3>5 DEF Overtakes
  <2> QED BY <2>2, <2>3
<1> QED BY <1>5, <1>6

LEMMA LandsFresh ==
    ASSUME RInv, NEW x \in Processes, Land(x)
    PROVE  \A y \in Processes : flight'[y].pc = "idle" \/ flight'[y] = flight[y]
BY IdleOK DEF Land, RInv, FlightsOK

\* A store that overtakes nobody.
LEMMA SaveFresh ==
    ASSUME RInv, Fresh, NEW x \in Processes, flight[x].pc = "answered",
           row' = Swapped(flight[x]), Land(x), ~Overtakes
    PROVE  Fresh'
<1>1. \A y \in Processes : flight'[y].pc = "idle" \/ flight'[y] = flight[y]
  BY LandsFresh
<1>2. CASE row'.cred = row.cred
  BY <1>1, <1>2 DEF Fresh, Token
<1>3. CASE row'.cred # row.cred
  <2>1. PICK f \in Flights : f = flight[x] /\ Sound(f) /\ f.pc = "answered"
    BY DEF RInv, FlightsOK, FlightOK
  <2>2. f.cred = row.cred /\ row'.cred = f.new /\ row.cred \in Credentials /\ f.new \in Credentials
    BY <1>3, <2>1 DEF Swapped, Swappable, RInv, RowOK, Flights
  <2> SUFFICES ASSUME NEW y \in Processes, flight'[y].pc # "idle",
                      Token(flight'[y].cred) = Token(f.new)
               PROVE  FALSE
    BY <2>2 DEF Fresh, Token
  <2>3. flight'[y] = flight[y]
    BY <1>1
  <2>4. flight[y].cred \in Credentials /\ ~Newer(flight[y].cred, row.cred)
    BY <2>3 DEF RInv, FlightsOK, FlightOK, Behind, Flights
  <2>5. flight[y].cred.grant = f.new.grant /\ flight[y].cred.turn = f.new.turn
    BY <2>3, TokensEqual
  <2>6. f.new.grant = row.cred.grant /\ f.new.turn = row.cred.turn
    BY <2>1, <2>2, <2>4, <2>5 DEF Sound, Newer, Credentials
  <2>7. Token(f.new) = Token(row.cred)
    BY <2>6, TokensEqual
  <2>8. flight[y].cred = row.cred
    BY <2>3, <2>7 DEF Fresh
  <2> QED BY <1>3, <2>2, <2>3, <2>7, <2>8 DEF Overtakes
<1> QED BY <1>2, <1>3

LEMMA FreshStep == RInv /\ (lost \/ Fresh) /\ [Next]_vars => (lost \/ Fresh)'
<1> SUFFICES ASSUME RInv, lost \/ Fresh, [Next]_vars PROVE lost' \/ Fresh'
  OBVIOUS
<1>1. CASE Losses /\ lost' = TRUE
  BY <1>1
<1>2. CASE SaveLink
  <2>1. row'.cred.grant > row.cred.grant /\ UNCHANGED flight /\ RInv'
    BY <1>2, SaveLinkStep DEF SaveLink
  <2> SUFFICES ASSUME NEW x \in Processes, flight[x].pc # "idle"
               PROVE  Token(flight[x].cred) # Token(row'.cred)
    BY <2>1 DEF Fresh, Token
  <2>2. flight[x].cred \in Credentials /\ ~Newer(flight[x].cred, row.cred)
        /\ row.cred \in Credentials /\ row'.cred \in Credentials
    BY <2>1 DEF RInv, RowOK, FlightsOK, FlightOK, Behind, Flights
  <2>3. flight[x].cred.grant # row'.cred.grant
    BY <2>1, <2>2 DEF Newer, Credentials
  <2> QED BY <2>3, TokensEqual
<1>3. CASE UNCHANGED vars
  BY <1>3 DEF vars, credentialVars, Fresh
<1>4. ASSUME Others, UNCHANGED lost, Fresh PROVE Fresh'
  <2>1. ASSUME NEW x \in Processes, Snapshot(x) PROVE Fresh'
    <3>1. \A y \in Processes : flight'[y].cred = row.cred \/ flight'[y] = flight[y]
      BY <2>1 DEF Snapshot, Started, RInv, FlightsOK
    <3> QED BY <1>4, <2>1, <3>1 DEF Snapshot, Fresh
  <2>2. ASSUME NEW x \in Processes, Answer(x) PROVE Fresh'
    <3>1. PICK new : flight' = [flight EXCEPT ![x] = [flight[x] EXCEPT !.pc = "answered", !.new = new]]
      BY <2>2 DEF Answer
    <3>2. flight[x].pc = "asked" /\ flight[x] \in Flights
      BY <2>2 DEF Answer, RInv, FlightsOK
    <3>3. [flight[x] EXCEPT !.pc = "answered", !.new = new].cred = flight[x].cred
      BY <3>2 DEF Flights
    <3>4. \A y \in Processes : flight'[y] = flight[y] \/
             (flight[y].pc # "idle" /\ flight'[y].cred = flight[y].cred)
      BY <3>1, <3>2, <3>3 DEF RInv, FlightsOK
    <3>5. UNCHANGED row
      BY <2>2 DEF Answer
    <3> QED BY <1>4, <3>4, <3>5 DEF Fresh
  <2>3. ASSUME NEW c \in Callers, Persist(c), permitted, ~Overtakes PROVE Fresh'
    <3>1. row' = Swapped(flight[c])
      BY <2>3 DEF Persist, Persistable, Swapped, Swappable
    <3> QED BY <1>4, <2>3, <3>1, SaveFresh DEF Persist, Processes
  <2>4. ASSUME NEW p \in Samplers, Swap(p), ~Overtakes PROVE Fresh'
    BY <1>4, <2>4, SaveFresh DEF Swap, Processes
  <2>5. ASSUME UNCHANGED <<row, flight>> PROVE Fresh'
    BY <1>4, <2>5 DEF Fresh
  <2>6. CASE Unlink
    <3>1. row'.cred = row.cred /\ UNCHANGED flight
      BY <2>6 DEF Unlink, RInv, RowOK
    <3> QED BY <1>4, <3>1 DEF Fresh
  <2>7. (\E u \in Users : BeginLink(u)) \/ LoseRole => UNCHANGED <<row, flight>>
    BY DEF BeginLink, LoseRole
  <2> QED BY <1>4, <2>1, <2>2, <2>3, <2>4, <2>5, <2>6, <2>7 DEF Others
<1> QED BY <1>1, <1>2, <1>3, <1>4 DEF Next, vars

LEMMA LossesKeep == RInv /\ (lost \/ Fresh) /\ OnlyLossesLose /\ [Next]_vars => OnlyLossesLose'
<1> SUFFICES ASSUME RInv, lost \/ Fresh, OnlyLossesLose, [Next]_vars PROVE OnlyLossesLose'
  OBVIOUS
<1>1. CASE Losses /\ lost' = TRUE
  BY <1>1 DEF OnlyLossesLose
<1>2. CASE SaveLink
  <2>1. Token(row'.cred) \in live'
    BY <1>2, SaveLinkStep DEF SaveLink
  <2> QED BY <2>1 DEF OnlyLossesLose, Recoverable
<1>3. CASE UNCHANGED vars
  BY <1>3 DEF vars, credentialVars, OnlyLossesLose, Recoverable
<1>4. CASE Others /\ UNCHANGED lost /\ (lost \/ row.revoked)
  <2>1. row.revoked => row'.revoked
    <3>1. \A c \in Callers : Persist(c) => UNCHANGED row.revoked
      BY DEF Persist, RInv, RowOK
    <3>2. \A p \in Samplers : Swap(p) => UNCHANGED row.revoked
      BY DEF Swap, Swapped, RInv, RowOK
    <3>3. Unlink => row'.revoked
      BY DEF Unlink, RInv, RowOK
    <3>4. \A x \in Processes : Snapshot(x) \/ Answer(x) => UNCHANGED row
      BY DEF Snapshot, Answer
    <3>5. (\E u \in Users : BeginLink(u)) \/ LoseRole => UNCHANGED row
      BY DEF BeginLink, LoseRole
    <3> QED BY <1>4, <3>1, <3>2, <3>3, <3>4, <3>5 DEF Others
  <2> QED BY <1>4, <2>1 DEF OnlyLossesLose
<1>5. ASSUME Others, UNCHANGED lost, ~lost, ~row.revoked PROVE OnlyLossesLose'
  <2>1. Recoverable
    BY <1>5 DEF OnlyLossesLose
  <2>2. ASSUME NEW x \in Processes, Snapshot(x) PROVE Recoverable'
    BY <2>1, <2>2, SnapshotKeeps
  <2>3. ASSUME NEW x \in Processes, Answer(x) PROVE Recoverable'
    BY <1>5, <2>1, <2>3, AnswerKeeps
  <2>4. ASSUME NEW c \in Callers, Persist(c), permitted, ~Overtakes PROVE Recoverable'
    <3>1. row' = Swapped(flight[c])
      BY <2>4 DEF Persist, Persistable, Swapped, Swappable
    <3> QED BY <1>5, <2>1, <2>4, <3>1, SaveKeeps DEF Persist, Processes
  <2>5. ASSUME NEW p \in Samplers, Swap(p), ~Overtakes PROVE Recoverable'
    BY <1>5, <2>1, <2>5, SaveKeeps DEF Swap, Processes
  <2>6. ASSUME NEW u \in Users, BeginLink(u) PROVE Recoverable'
    BY <2>1, <2>6 DEF BeginLink, Recoverable
  <2>7. CASE Unlink
    BY <2>7 DEF Unlink, RInv, RowOK, OnlyLossesLose
  <2>8. CASE LoseRole
    BY <2>1, <2>8 DEF LoseRole, Recoverable, OnlyLossesLose
  <2> QED BY <1>5, <2>2, <2>3, <2>4, <2>5, <2>6, <2>7, <2>8 DEF Others, OnlyLossesLose
<1> QED BY <1>1, <1>2, <1>3, <1>4, <1>5 DEF Next

\* OnlyLossesLose: a linked character's refresh token goes bad only when an answer is lost, a
\* process dies with it, it is dropped on purpose, or one refresher stores an unrotated token
\* encrypted again while another exchanges it: no other overlap of refreshers is harmful.
THEOREM OverlapsAreHarmless == Spec => []OnlyLossesLose
<1>1. Init => RInv /\ (lost \/ Fresh) /\ OnlyLossesLose
  <2> SUFFICES ASSUME Init PROVE RInv /\ Fresh /\ OnlyLossesLose
    OBVIOUS
  <2>1. \A x \in Processes : flight[x].pc = "idle"
    BY DEF Init, CredentialInit, Idle
  <2> QED BY <2>1, RInvInit DEF Init, CredentialInit, OnlyLossesLose, Recoverable, Fresh
<1>2. RInv /\ (lost \/ Fresh) /\ OnlyLossesLose /\ [Next]_vars
         => RInv' /\ (lost \/ Fresh)' /\ OnlyLossesLose'
  BY RInvStep, RotationStep, FreshStep, LossesKeep
<1> QED BY <1>1, <1>2, PTL DEF Spec
=============================================================================
