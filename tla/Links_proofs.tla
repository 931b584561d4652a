---------------------------- MODULE Links_proofs ----------------------------
(***************************************************************************)
(* Proofs about the two ways an account and an address, or an account and  *)
(* a Google identity, are tied.  About Tokens, for any number of people,   *)
(* addresses and requests that overlap: the rows implement one-time        *)
(* secrets, an address is marked as verified only after its link was       *)
(* opened, no two accounts share one, and one request at a time moves an   *)
(* account only where it asked to go.  About Linking, for any number of    *)
(* accounts, identities and browsers that come back at once: no identity   *)
(* reaches an account it was not brought to, none is taken over, an        *)
(* account comes from Google only after the terms were accepted, and there *)
(* is a way back into each.                                                *)
(***************************************************************************)
EXTENDS Tokens, Linking, FiniteSetTheorems, TLAPS

---------------------------------------------------------------------------
(* Links by mail: the invariant                                            *)

MailCall == [pc : {"revoke", "create"}, purpose : Purposes, address : Address]
LinkCall == [pc : {"send", "burn"} \cup Purposes, link : Link]
AccountCall == [pc : {"create user", "note address", "move"}, who : Person, address : Address]
Call == MailCall \cup LinkCall \cup AccountCall \cup {NoRequest}

\* Ids are given once, so a row is known by its id; a row that is there was not
\* accepted, and none was twice.
RowsAreSound ==
    /\ made \in 0..LastLink /\ worked \in [LinkId -> 0..1]
    /\ links \subseteq Link /\ inbox \subseteq Link /\ stale \subseteq 1..made
    /\ \A k \in links : k.id <= made /\ worked[k.id] = 0
    /\ \A k, m \in links : k.id = m.id => k = m
    /\ \A i \in LinkId : i > made => worked[i] = 0

PeopleAreSound ==
    /\ person \in [Person -> PersonRow] /\ proven \subseteq Address
    /\ asked \in [Person -> Address \cup {NoAddress}]
    /\ \A p, q \in Person :
           person[p].email = person[q].email /\ p # q => person[p].email = NoAddress
    /\ VerifiedAddressIsProven

\* What a request has burned the link for is proven, and stays so whoever has
\* the address when the request writes.
CallsAreSound ==
    /\ linkCall \in [LinkLane -> Call]
    /\ \A l \in LinkLane :
           /\ linkCall[l].pc \in Purposes => linkCall[l].link.address \in proven
           /\ linkCall[l].pc = "move" => linkCall[l].address \in proven

TokensInv == RowsAreSound /\ PeopleAreSound /\ CallsAreSound

---------------------------------------------------------------------------
(* Requests                                                                *)

\* The step tells what kind of request it is.
LEMMA KindOfCall ==
    ASSUME NEW c \in Call
    PROVE  /\ c.pc \in {"revoke", "create"} => c \in MailCall
           /\ c.pc \in {"send", "burn"} \cup Purposes => c \in LinkCall
           /\ c.pc \in {"create user", "note address", "move"} => c \in AccountCall
<1>1. CASE c \in MailCall
  BY <1>1 DEF MailCall, Purposes
<1>2. CASE c \in LinkCall
  BY <1>2 DEF LinkCall, Purposes
<1>3. CASE c \in AccountCall
  BY <1>3 DEF AccountCall, Purposes
<1>4. CASE c = NoRequest
  BY <1>4 DEF NoRequest, Purposes
<1>5. QED
  BY <1>1, <1>2, <1>3, <1>4 DEF Call

LEMMA FieldsOfCall ==
    ASSUME CallsAreSound, NEW l \in LinkLane
    PROVE  /\ linkCall[l].pc \in {"revoke", "create"} =>
                  /\ linkCall[l] \in MailCall
                  /\ linkCall[l].purpose \in Purposes /\ linkCall[l].address \in Address
           /\ linkCall[l].pc \in {"send", "burn"} \cup Purposes => linkCall[l].link \in Link
           /\ linkCall[l].pc \in {"create user", "note address", "move"} =>
                  linkCall[l].who \in Person /\ linkCall[l].address \in Address
<1>1. PICK c \in Call : c = linkCall[l]
  BY DEF CallsAreSound
<1>2. c \in MailCall => c.purpose \in Purposes /\ c.address \in Address
  BY DEF MailCall
<1>3. c \in LinkCall => c.link \in Link
  BY DEF LinkCall
<1>4. c \in AccountCall => c.who \in Person /\ c.address \in Address
  BY DEF AccountCall
<1>5. QED
  BY <1>1, <1>2, <1>3, <1>4, KindOfCall

\* A lane that goes on with a sound request leaves the requests sound.
LEMMA CallsStaySound ==
    ASSUME CallsAreSound, proven \subseteq proven', NEW l \in LinkLane, NEW c \in Call,
           linkCall' = [linkCall EXCEPT ![l] = c],
           c.pc \in Purposes => c.link.address \in proven',
           c.pc = "move" => c.address \in proven'
    PROVE  CallsAreSound'
<1>1. linkCall' \in [LinkLane -> Call]
  BY DEF CallsAreSound
<1>2. linkCall'[l] = c /\ \A m \in LinkLane \ {l} : linkCall'[m] = linkCall[m]
  BY DEF CallsAreSound
<1>3. QED
  BY <1>1, <1>2 DEF CallsAreSound

LEMMA NoRequestIsSound == NoRequest \in Call /\ NoRequest.pc \notin Purposes /\ NoRequest.pc # "move"
BY DEF Call, NoRequest, Purposes

LEMMA StopKeepsCalls ==
    ASSUME CallsAreSound, proven \subseteq proven', NEW l \in LinkLane, Stop(l)
    PROVE  CallsAreSound'
<1>1. linkCall' = [linkCall EXCEPT ![l] = NoRequest]
  BY DEF Stop, Continue
<1>2. QED
  BY <1>1, NoRequestIsSound, CallsStaySound

\* The rows of links do not move.
LEMMA RowsStand ==
    ASSUME RowsAreSound, UNCHANGED <<made, worked, links, stale, inbox>>
    PROVE  RowsAreSound'
BY DEF RowsAreSound

LEMMA PeopleStand ==
    ASSUME PeopleAreSound, UNCHANGED <<person, asked>>, proven \subseteq proven',
           proven' \subseteq Address
    PROVE  PeopleAreSound'
BY DEF PeopleAreSound, VerifiedAddressIsProven

---------------------------------------------------------------------------
(* Asking for a link                                                       *)

LEMMA BeginKeeps ==
    ASSUME TokensInv, NEW l \in LinkLane, NEW c \in Call,
           c.pc \notin Purposes, c.pc # "move", StartRequest(l, c), UNCHANGED asked
    PROVE  TokensInv'
<1>1. linkCall' = [linkCall EXCEPT ![l] = c] /\ proven' = proven
      /\ UNCHANGED <<person, links, stale, inbox, made, worked>>
  BY DEF StartRequest
<1>2. CallsAreSound'
  BY <1>1, CallsStaySound DEF TokensInv
<1>3. RowsAreSound' /\ PeopleAreSound'
  BY <1>1, RowsStand, PeopleStand DEF TokensInv, PeopleAreSound
<1>4. QED
  BY <1>2, <1>3 DEF TokensInv

LEMMA AskingKeeps ==
    ASSUME TokensInv, NEW l \in LinkLane,
           \/ \E p \in Person, a \in Address : Register(l, p, a) \/ RequestEmailChange(l, p, a)
           \/ \E a \in Address : ForgotPassword(l, a) \/ ResendVerification(l, a)
           \/ \E k \in inbox : OpenLink(l, k)
    PROVE  TokensInv'
<1>1. ASSUME NEW p \in Person, NEW a \in Address, Register(l, p, a)
      PROVE  TokensInv'
  <2>1. [pc |-> "create user", who |-> p, address |-> a] \in Call
    BY DEF Call, AccountCall
  <2>2. QED
    BY <1>1, <2>1, BeginKeeps DEF Register, Purposes
<1>2. ASSUME NEW p \in Person, NEW a \in Address, RequestEmailChange(l, p, a)
      PROVE  TokensInv'
  <2>1. [pc |-> "note address", who |-> p, address |-> a] \in Call
    BY DEF Call, AccountCall
  <2>2. QED
    BY <1>2, <2>1, BeginKeeps DEF RequestEmailChange, Purposes
<1>3. ASSUME NEW a \in Address, ForgotPassword(l, a) \/ ResendVerification(l, a)
      PROVE  TokensInv'
  <2>1. PICK purpose \in Purposes : StartRequest(l, ToMail(purpose, a)) /\ UNCHANGED asked
    BY <1>3 DEF ForgotPassword, ResendVerification, Purposes
  <2>2. ToMail(purpose, a) \in Call /\ ToMail(purpose, a).pc = "revoke"
    BY DEF ToMail, Call, MailCall
  <2>3. QED
    BY <2>1, <2>2, BeginKeeps DEF Purposes
<1>4. ASSUME NEW k \in inbox, OpenLink(l, k)
      PROVE  TokensInv'
  <2>1. [pc |-> "burn", link |-> k] \in Call
    BY DEF TokensInv, RowsAreSound, Call, LinkCall
  <2>2. QED
    BY <1>4, <2>1, BeginKeeps DEF OpenLink, Purposes
<1>5. QED
  BY <1>1, <1>2, <1>3, <1>4

LEMMA CreateUserKeeps ==
    ASSUME TokensAssumption, TokensInv, NEW l \in LinkLane, CreateUser(l)
    PROVE  TokensInv'
<1> DEFINE p == linkCall[l].who
           a == linkCall[l].address
<1>1. p \in Person /\ a \in Address
  BY FieldsOfCall DEF CreateUser, TokensInv
<1>2. RowsAreSound' /\ proven' = proven /\ asked' = asked
  BY RowsStand DEF CreateUser, TokensInv, Stop, Continue
<1>3. CASE Stop(l) /\ UNCHANGED person
  BY <1>2, <1>3, StopKeepsCalls, PeopleStand DEF TokensInv, PeopleAreSound
<1>4. CASE /\ person[p].email = NoAddress /\ ~Taken(a)
           /\ person' = [person EXCEPT ![p].email = a]
           /\ Continue(l, ToMail("email-verify", a))
  <2>1. ToMail("email-verify", a) \in Call /\ ToMail("email-verify", a).pc = "revoke"
    BY <1>1 DEF ToMail, Call, MailCall, Purposes
  <2>2. CallsAreSound'
    BY <1>2, <1>4, <2>1, CallsStaySound DEF TokensInv, Continue, Purposes
  <2>3. /\ person' \in [Person -> PersonRow]
        /\ person'[p].email = a /\ person'[p].verified = person[p].verified
        /\ \A q \in Person \ {p} : person'[q] = person[q]
    BY SMTT(60), <1>1, <1>4 DEF TokensInv, PeopleAreSound, PersonRow
  <2>4. ~person[p].verified
    BY <1>1, <1>4 DEF TokensInv, PeopleAreSound, VerifiedAddressIsProven, TokensAssumption
  <2>5. \A q \in Person : person[q].email # a
    BY <1>4 DEF Taken, Holder
  <2>6. PeopleAreSound'
    BY <1>2, <2>3, <2>4, <2>5 DEF TokensInv, PeopleAreSound, VerifiedAddressIsProven
  <2>7. QED
    BY <1>2, <2>2, <2>6 DEF TokensInv
<1>5. QED
  BY <1>3, <1>4 DEF CreateUser

LEMMA NoteAddressKeeps ==
    ASSUME TokensInv, NEW l \in LinkLane, NoteAddress(l)
    PROVE  TokensInv'
<1> DEFINE p == linkCall[l].who
           a == linkCall[l].address
<1>1. p \in Person /\ a \in Address
  BY FieldsOfCall DEF NoteAddress, TokensInv
<1>2. RowsAreSound' /\ proven' = proven
  BY RowsStand DEF NoteAddress, TokensInv
<1>3. ToMail("email-change", a) \in Call /\ ToMail("email-change", a).pc = "revoke"
  BY <1>1 DEF ToMail, Call, MailCall, Purposes
<1>4. CallsAreSound'
  BY <1>2, <1>3, CallsStaySound DEF NoteAddress, TokensInv, Purposes
<1>5. /\ person' \in [Person -> PersonRow] /\ asked' \in [Person -> Address \cup {NoAddress}]
      /\ \A q \in Person : /\ person'[q].email = person[q].email
                           /\ person'[q].verified = person[q].verified
  BY <1>1 DEF NoteAddress, TokensInv, PeopleAreSound, PersonRow
<1>6. PeopleAreSound'
  BY <1>2, <1>5 DEF TokensInv, PeopleAreSound, VerifiedAddressIsProven
<1>7. QED
  BY <1>2, <1>4, <1>6 DEF TokensInv

LEMMA RevokeEarlierKeeps ==
    ASSUME TokensInv, NEW l \in LinkLane, RevokeEarlier(l)
    PROVE  TokensInv'
<1>1. links' \subseteq links /\ UNCHANGED <<person, stale, inbox, made, worked, proven, asked>>
  BY DEF RevokeEarlier, Continue
<1>2. RowsAreSound' /\ PeopleAreSound'
  BY <1>1, PeopleStand DEF TokensInv, RowsAreSound, PeopleAreSound
<1>3. PICK c : c = [linkCall[l] EXCEPT !.pc = "create"]
  OBVIOUS
<1>4. c \in Call /\ c.pc = "create"
  BY <1>3, FieldsOfCall DEF RevokeEarlier, TokensInv, MailCall, Call
<1>5. CallsAreSound'
  BY <1>1, <1>3, <1>4, CallsStaySound DEF RevokeEarlier, Continue, TokensInv, Purposes
<1>6. QED
  BY <1>2, <1>5 DEF TokensInv

LEMMA CreateLinkKeeps ==
    ASSUME TokensAssumption, TokensInv, NEW l \in LinkLane, CreateLink(l)
    PROVE  TokensInv'
<1>1. PICK k : k = [id |-> made', purpose |-> linkCall[l].purpose, address |-> linkCall[l].address]
  OBVIOUS
<1>2. made \in Nat /\ made' = made + 1 /\ made' \in 0..LastLink /\ LastLink \in Nat
  BY DEF CreateLink, TokensInv, RowsAreSound, TokensAssumption, LastLink
<1>3. k \in Link /\ k.id = made'
  <2>1. linkCall[l].purpose \in Purposes /\ linkCall[l].address \in Address
    BY FieldsOfCall DEF CreateLink, TokensInv
  <2>2. made' \in LinkId
    BY <1>2 DEF LinkId
  <2>3. QED
    BY <1>1, <2>1, <2>2 DEF Link
<1>4. /\ links' = links \cup {k} /\ linkCall' = [linkCall EXCEPT ![l] = [pc |-> "send", link |-> k]]
      /\ UNCHANGED <<person, stale, inbox, worked, proven, asked>>
  BY <1>1 DEF CreateLink, Continue
<1>5. \A m \in links : m.id \in Nat /\ m.id < made'
  BY <1>2 DEF TokensInv, RowsAreSound, Link, LinkId
<1>6. RowsAreSound'
  <2>1. worked'[made'] = 0 /\ \A i \in LinkId : i > made' => worked'[i] = 0
    BY <1>2, <1>4 DEF TokensInv, RowsAreSound, LinkId
  <2>2. stale' \subseteq 1..made' /\ links' \subseteq Link /\ inbox' \subseteq Link
    BY <1>2, <1>3, <1>4 DEF TokensInv, RowsAreSound
  <2>3. \A m \in links' : m.id <= made' /\ worked'[m.id] = 0
    BY <1>2, <1>3, <1>4, <1>5, <2>1 DEF TokensInv, RowsAreSound
  <2>4. \A m, n \in links' : m.id = n.id => m = n
    BY <1>3, <1>4, <1>5 DEF TokensInv, RowsAreSound
  <2>5. QED
    BY <1>2, <1>4, <2>1, <2>2, <2>3, <2>4 DEF TokensInv, RowsAreSound
<1>7. PeopleAreSound'
  BY <1>4, PeopleStand DEF TokensInv, PeopleAreSound
<1>8. [pc |-> "send", link |-> k] \in Call
  BY <1>3 DEF Call, LinkCall
<1>9. CallsAreSound'
  <2>1. PICK c : c = [pc |-> "send", link |-> k]
    OBVIOUS
  <2>2. c \in Call /\ c.pc = "send"
    BY <1>8, <2>1
  <2>3. QED
    BY <1>4, <2>1, <2>2, CallsStaySound DEF TokensInv, Purposes
<1>10. QED
  BY <1>6, <1>7, <1>9 DEF TokensInv

LEMMA SendKeeps ==
    ASSUME TokensInv, NEW l \in LinkLane, Send(l)
    PROVE  TokensInv'
<1>1. linkCall[l].link \in Link
  BY FieldsOfCall DEF Send, TokensInv
<1>2. inbox' \subseteq Link /\ UNCHANGED <<person, links, stale, made, worked, proven, asked>>
  BY <1>1 DEF Send, Stop, Continue, TokensInv, RowsAreSound
<1>3. RowsAreSound' /\ PeopleAreSound'
  BY <1>2, PeopleStand DEF TokensInv, RowsAreSound, PeopleAreSound
<1>4. CallsAreSound'
  BY <1>2, StopKeepsCalls DEF Send, TokensInv
<1>5. QED
  BY <1>3, <1>4 DEF TokensInv

---------------------------------------------------------------------------
(* Opening a link                                                          *)

\* Burning a link: it was there and had not expired, or nothing is accepted.
LEMMA BurnIsOneOf ==
    ASSUME TokensInv, NEW l \in LinkLane, BurnLink(l)
    PROVE  LET k == linkCall[l].link IN
           /\ k \in Link /\ links' = links \ {k}
           /\ UNCHANGED <<person, stale, inbox, made, asked>>
           /\ \/ /\ k \in links /\ k.id \notin stale
                 /\ worked' = [worked EXCEPT ![k.id] = @ + 1]
                 /\ proven' = proven \cup {k.address}
                 /\ linkCall' = [linkCall EXCEPT ![l] = [pc |-> k.purpose, link |-> k]]
              \/ /\ k \notin links \/ k.id \in stale
                 /\ Stop(l) /\ UNCHANGED <<worked, proven>>
<1>1. linkCall[l].link \in Link
  BY FieldsOfCall DEF BurnLink, TokensInv
<1>2. QED
  BY <1>1 DEF BurnLink, Continue, Stop

LEMMA BurnLinkKeeps ==
    ASSUME TokensInv, NEW l \in LinkLane, BurnLink(l)
    PROVE  TokensInv'
<1>1. PICK k \in Link :
          /\ links' = links \ {k} /\ UNCHANGED <<person, stale, inbox, made, asked>>
          /\ \/ /\ k \in links /\ k.id \notin stale
                /\ worked' = [worked EXCEPT ![k.id] = @ + 1]
                /\ proven' = proven \cup {k.address}
                /\ linkCall' = [linkCall EXCEPT ![l] = [pc |-> k.purpose, link |-> k]]
             \/ Stop(l) /\ UNCHANGED <<worked, proven>>
  BY BurnIsOneOf
<1>2. k.address \in Address /\ k.purpose \in Purposes /\ k.id \in LinkId
  BY DEF Link
<1>3. CASE Stop(l) /\ UNCHANGED <<worked, proven>>
  <2>1. RowsAreSound' /\ PeopleAreSound'
    BY <1>1, <1>3, PeopleStand DEF TokensInv, RowsAreSound, PeopleAreSound
  <2>2. QED
    BY <1>3, <2>1, StopKeepsCalls DEF TokensInv
<1>4. CASE /\ k \in links
           /\ worked' = [worked EXCEPT ![k.id] = @ + 1]
           /\ proven' = proven \cup {k.address}
           /\ linkCall' = [linkCall EXCEPT ![l] = [pc |-> k.purpose, link |-> k]]
  <2>1. /\ worked[k.id] = 0 /\ worked' \in [LinkId -> 0..1] /\ worked'[k.id] = 1
        /\ \A i \in LinkId \ {k.id} : worked'[i] = worked[i]
    BY <1>2, <1>4 DEF TokensInv, RowsAreSound
  <2>2. \A m \in links' : m \in links /\ m.id \in LinkId /\ m.id # k.id
    BY <1>1, <1>4 DEF TokensInv, RowsAreSound, Link
  <2>3. k.id <= made /\ made' = made
    BY <1>1, <1>4 DEF TokensInv, RowsAreSound
  <2>4. \A i \in LinkId : i > made' => worked'[i] = 0
    BY <2>1, <2>3, <1>2 DEF TokensInv, RowsAreSound, LinkId
  <2>5. RowsAreSound'
    BY <1>1, <2>1, <2>2, <2>4 DEF TokensInv, RowsAreSound
  <2>6. PeopleAreSound'
    BY <1>1, <1>2, <1>4, PeopleStand DEF TokensInv, PeopleAreSound
  <2>7. PICK c : c = [pc |-> k.purpose, link |-> k]
    OBVIOUS
  <2>8. c \in Call /\ c.pc \in Purposes /\ c.link.address \in proven'
    BY <1>2, <1>4, <2>7 DEF Call, LinkCall
  <2>9. CallsAreSound'
    BY <1>4, <2>7, <2>8, CallsStaySound DEF TokensInv, Purposes
  <2>10. QED
    BY <2>5, <2>6, <2>9 DEF TokensInv
<1>5. QED
  BY <1>1, <1>3, <1>4

LEMMA MarkVerifiedKeeps ==
    ASSUME TokensInv, NEW l \in LinkLane, MarkVerified(l)
    PROVE  TokensInv'
<1> DEFINE a == linkCall[l].link.address
<1>1. a \in proven /\ UNCHANGED <<links, stale, inbox, made, worked, proven, asked>>
  BY DEF MarkVerified, Stop, Continue, TokensInv, CallsAreSound, Purposes
<1>2. /\ person' \in [Person -> PersonRow]
      /\ \A p \in Person :
             /\ person'[p].email = person[p].email
             /\ person'[p].verified => person[p].verified \/ person[p].email = a
  BY ZenonT(60) DEF MarkVerified, TokensInv, PeopleAreSound, PersonRow, Holder
<1>3. PeopleAreSound'
  BY <1>1, <1>2 DEF TokensInv, PeopleAreSound, VerifiedAddressIsProven
<1>4. RowsAreSound' /\ CallsAreSound'
  BY <1>1, RowsStand, StopKeepsCalls DEF MarkVerified, TokensInv
<1>5. QED
  BY <1>3, <1>4 DEF TokensInv

LEMMA ApplyResetKeeps ==
    ASSUME TokensInv, NEW l \in LinkLane, ApplyReset(l)
    PROVE  TokensInv'
<1>1. UNCHANGED <<person, links, stale, inbox, made, worked, proven, asked>>
  BY DEF ApplyReset, Stop, Continue
<1>2. RowsAreSound' /\ PeopleAreSound' /\ CallsAreSound'
  BY <1>1, RowsStand, PeopleStand, StopKeepsCalls DEF ApplyReset, TokensInv, PeopleAreSound
<1>3. QED
  BY <1>2 DEF TokensInv

LEMMA FindWaitingKeeps ==
    ASSUME TokensInv, NEW l \in LinkLane, FindWaiting(l)
    PROVE  TokensInv'
<1> DEFINE a == linkCall[l].link.address
<1>1. UNCHANGED <<person, links, stale, inbox, made, worked, proven, asked>>
  BY DEF FindWaiting, Stop, Continue
<1>2. RowsAreSound' /\ PeopleAreSound'
  BY <1>1, RowsStand, PeopleStand DEF TokensInv, PeopleAreSound
<1>3. a \in proven /\ a \in Address
  BY DEF FindWaiting, TokensInv, CallsAreSound, PeopleAreSound, Purposes
<1>4. CASE Stop(l)
  BY <1>1, <1>2, <1>4, StopKeepsCalls DEF TokensInv
<1>5. ASSUME NEW p \in Person, Continue(l, [pc |-> "move", who |-> p, address |-> a])
      PROVE  TokensInv'
  <2>1. PICK c : c = [pc |-> "move", who |-> p, address |-> a]
    OBVIOUS
  <2>2. c \in Call /\ c.pc = "move" /\ c.address \in proven'
    BY <1>1, <1>3, <2>1 DEF Call, AccountCall
  <2>3. CallsAreSound'
    BY <1>1, <1>5, <2>1, <2>2, CallsStaySound DEF TokensInv, Continue, Purposes
  <2>4. QED
    BY <1>2, <2>3 DEF TokensInv
<1>6. QED
  BY <1>4, <1>5 DEF FindWaiting

LEMMA MoveAddressKeeps ==
    ASSUME TokensInv, NEW l \in LinkLane, MoveAddress(l)
    PROVE  TokensInv'
<1> DEFINE p == linkCall[l].who
           a == linkCall[l].address
<1>1. p \in Person /\ a \in Address /\ a \in proven
  BY FieldsOfCall DEF MoveAddress, TokensInv, CallsAreSound
<1>2. UNCHANGED <<links, stale, inbox, made, worked, proven, asked>>
  BY DEF MoveAddress, Stop, Continue
<1>3. RowsAreSound' /\ CallsAreSound'
  BY <1>2, RowsStand, StopKeepsCalls DEF MoveAddress, TokensInv
<1>4. CASE person' = person
  BY <1>2, <1>3, <1>4, PeopleStand DEF TokensInv, PeopleAreSound
<1>5. CASE /\ ~Taken(a)
           /\ person' = [person EXCEPT ![p] = [email |-> a, pendingEmail |-> NoAddress, verified |-> TRUE]]
  <2>1. /\ person' \in [Person -> PersonRow] /\ person'[p].email = a
        /\ \A q \in Person \ {p} : person'[q] = person[q]
    BY <1>1, <1>5 DEF TokensInv, PeopleAreSound, PersonRow
  <2>2. \A q \in Person : person[q].email # a
    BY <1>5 DEF Taken, Holder
  <2>3. PeopleAreSound'
    BY <1>1, <1>2, <2>1, <2>2 DEF TokensInv, PeopleAreSound, VerifiedAddressIsProven
  <2>4. QED
    BY <1>3, <2>3 DEF TokensInv
<1>6. QED
  BY <1>4, <1>5 DEF MoveAddress

LEMMA ExpireKeeps ==
    ASSUME TokensInv, Expire
    PROVE  TokensInv'
<1>1. /\ stale' \subseteq 1..made
      /\ UNCHANGED <<person, links, inbox, linkCall, made, worked, proven, asked>>
  <2>1. PICK k \in links : stale' = stale \cup {k.id}
    BY DEF Expire
  <2>2. k.id \in 1..made
    BY DEF TokensInv, RowsAreSound, Link, LinkId
  <2>3. QED
    BY <2>1, <2>2 DEF Expire, TokensInv, RowsAreSound
<1>2. RowsAreSound' /\ PeopleAreSound' /\ CallsAreSound'
  BY <1>1, PeopleStand DEF TokensInv, RowsAreSound, PeopleAreSound, CallsAreSound
<1>3. QED
  BY <1>2 DEF TokensInv

---------------------------------------------------------------------------
(* Every step                                                              *)

LEMMA InitHolds ==
    ASSUME TokensAssumption, TokensInit
    PROVE  TokensInv
<1>1. LastLink \in Nat
  BY DEF TokensAssumption, LastLink
<1>2. RowsAreSound
  BY <1>1 DEF TokensInit, RowsAreSound, LinkId
<1>3. PeopleAreSound
  BY DEF TokensInit, PeopleAreSound, PersonRow, VerifiedAddressIsProven, TokensAssumption
<1>4. CallsAreSound
  BY NoRequestIsSound DEF TokensInit, CallsAreSound
<1>5. QED
  BY <1>2, <1>3, <1>4 DEF TokensInv

LEMMA StepKeeps ==
    ASSUME TokensAssumption, TokensInv, [TokensNext]_tokenVars
    PROVE  TokensInv'
<1>1. CASE UNCHANGED tokenVars
  BY <1>1, RowsStand, PeopleStand DEF tokenVars, TokensInv, PeopleAreSound, CallsAreSound
<1>2. ASSUME NEW l \in LinkLane,
             \/ \E p \in Person, a \in Address : Register(l, p, a) \/ RequestEmailChange(l, p, a)
             \/ \E a \in Address : ForgotPassword(l, a) \/ ResendVerification(l, a)
             \/ \E k \in inbox : OpenLink(l, k)
      PROVE  TokensInv'
  BY <1>2, AskingKeeps
<1>3. ASSUME NEW l \in LinkLane,
             \/ CreateUser(l) \/ NoteAddress(l) \/ RevokeEarlier(l) \/ CreateLink(l)
             \/ Send(l) \/ BurnLink(l) \/ MarkVerified(l) \/ ApplyReset(l)
             \/ FindWaiting(l) \/ MoveAddress(l)
      PROVE  TokensInv'
  BY <1>3, CreateUserKeeps, NoteAddressKeeps, RevokeEarlierKeeps, CreateLinkKeeps, SendKeeps,
     BurnLinkKeeps, MarkVerifiedKeeps, ApplyResetKeeps, FindWaitingKeeps, MoveAddressKeeps
<1>4. CASE Expire
  BY <1>4, ExpireKeeps
<1>5. QED
  BY <1>1, <1>2, <1>3, <1>4 DEF TokensNext

\* What links, accounts and requests rest on holds in every reachable state.
THEOREM TokensInvariance == TokensAssumption => (TokensSpec => []TokensInv)
<1>1. ASSUME TokensAssumption PROVE TokensSpec => []TokensInv
  <2>1. TokensInit => TokensInv
    BY <1>1, InitHolds
  <2>2. TokensInv /\ [TokensNext]_tokenVars => TokensInv'
    BY <1>1, StepKeeps
  <2>3. QED
    BY <2>1, <2>2, PTL DEF TokensSpec
<1>2. QED
  BY <1>1

\* Rows of links and accounts keep their types, and no two accounts share an
\* address, however registrations and moves overlap.
THEOREM TypeInvariance == TokensSpec => []TokensTypeOK
<1>1. TokensInv => TokensTypeOK
  BY DEF TokensInv, RowsAreSound, PeopleAreSound, TokensTypeOK
<1>2. QED
  BY <1>1, TokensInvariance, TokensAssumption, PTL

\* An address is marked as verified only after a link mailed to it was opened,
\* also when the account that has it changes while the link is being opened.
THEOREM VerifiedIsProven == TokensSpec => []VerifiedAddressIsProven
<1>1. TokensInv => VerifiedAddressIsProven
  BY DEF TokensInv, PeopleAreSound
<1>2. QED
  BY <1>1, TokensInvariance, TokensAssumption, PTL

---------------------------------------------------------------------------
(* The rows are one-time secrets                                           *)

\* The live secrets: links that are there and not past their expiry.
Live == {k.id : k \in links} \ stale

LEMMA InitIsSecretInit ==
    ASSUME TokensInit
    PROVE  Abstract!SecretInit
BY DEF TokensInit, Abstract!SecretInit

LEMMA QuietStepStutters ==
    ASSUME UNCHANGED <<links, stale, made, worked>>
    PROVE  UNCHANGED Abstract!secretVars
BY DEF Abstract!secretVars

LEMMA RevokeWithdraws ==
    ASSUME TokensInv, NEW l \in LinkLane, RevokeEarlier(l)
    PROVE  Abstract!SecretNext
<1>1. links' \subseteq links /\ UNCHANGED <<stale, made, worked>>
  BY DEF RevokeEarlier, Continue
<1>2. Live' \subseteq Live
  BY <1>1 DEF Live
<1>3. PICK S : S = Live \ Live'
  OBVIOUS
<1>4. S \in SUBSET Live /\ Live' = Live \ S
  BY <1>2, <1>3
<1>5. QED
  BY <1>1, <1>4 DEF Abstract!SecretNext, Abstract!Withdraw, Live

LEMMA CreateIssues ==
    ASSUME TokensAssumption, TokensInv, NEW l \in LinkLane, CreateLink(l)
    PROVE  Abstract!SecretNext
<1>1. PICK k : /\ k.id = made' /\ links' = links \cup {k}
               /\ made' = made + 1 /\ UNCHANGED <<stale, worked>>
  BY DEF CreateLink, Continue
<1>2. made \in Nat /\ made' \in LinkId /\ made' \notin 1..made /\ made' \notin stale
  BY <1>1 DEF CreateLink, TokensInv, RowsAreSound, TokensAssumption, LinkId, LastLink
<1>3. 1..made' = (1..made) \cup {made'}
  BY <1>1, <1>2
<1>4. Live' = Live \cup {made'}
  BY <1>1, <1>2 DEF Live
<1>5. PICK s \in LinkId : s = made'
  BY <1>2
<1>6. s \notin 1..made /\ 1..made' = (1..made) \cup {s} /\ Live' = Live \cup {s}
  BY <1>2, <1>3, <1>4, <1>5
<1>7. Abstract!Issue(s)
  BY <1>1, <1>6 DEF Abstract!Issue, Live
<1>8. QED
  BY <1>7 DEF Abstract!SecretNext

LEMMA BurnAccepts ==
    ASSUME TokensInv, NEW l \in LinkLane, BurnLink(l)
    PROVE  Abstract!SecretNext \/ UNCHANGED Abstract!secretVars
<1>1. PICK k \in Link :
          /\ links' = links \ {k} /\ UNCHANGED <<stale, made>>
          /\ \/ /\ k \in links /\ k.id \notin stale
                /\ worked' = [worked EXCEPT ![k.id] = @ + 1]
             \/ (k \notin links \/ k.id \in stale) /\ UNCHANGED worked
  BY BurnIsOneOf
<1>2. CASE k \in links /\ k.id \notin stale /\ worked' = [worked EXCEPT ![k.id] = @ + 1]
  <2>1. k.id \in LinkId /\ k.id \in Live
    BY <1>2 DEF Link, Live
  <2>2. Live' = Live \ {k.id}
    BY <1>1, <1>2 DEF Live, TokensInv, RowsAreSound
  <2>3. Abstract!Accept(k.id)
    BY <1>1, <1>2, <2>1, <2>2 DEF Abstract!Accept, Live
  <2>4. QED
    BY <2>1, <2>3 DEF Abstract!SecretNext
<1>3. CASE (k \notin links \/ k.id \in stale) /\ UNCHANGED worked
  <2>1. Live' = Live
    BY <1>1, <1>3 DEF Live
  <2>2. QED
    BY <1>1, <1>3, <2>1 DEF Abstract!secretVars, Live
<1>4. QED
  BY <1>1, <1>2, <1>3

LEMMA ExpireWithdraws ==
    ASSUME TokensInv, Expire
    PROVE  Abstract!SecretNext
<1>1. PICK k \in links : k.id \notin stale /\ stale' = stale \cup {k.id} /\ UNCHANGED <<links, made, worked>>
  BY DEF Expire
<1>2. k.id \in Live /\ Live' = Live \ {k.id}
  BY <1>1 DEF Live
<1>3. PICK S : S = {k.id}
  OBVIOUS
<1>4. S \in SUBSET Live /\ Live' = Live \ S
  BY <1>2, <1>3
<1>5. QED
  BY <1>1, <1>4 DEF Abstract!SecretNext, Abstract!Withdraw, Live

\* However requests for links and uses of them overlap, a link is issued once,
\* accepted at most once, and only while it is there and not too old: the second
\* delete of a row throws (consumeToken).
THEOREM LinksAreSecrets == TokensSpec => LinksAreOneTime
<1>1. TokensInv /\ [TokensNext]_tokenVars => [Abstract!SecretNext]_(Abstract!secretVars)
  <2> SUFFICES ASSUME TokensInv, [TokensNext]_tokenVars
               PROVE  Abstract!SecretNext \/ UNCHANGED Abstract!secretVars
    OBVIOUS
  <2>1. CASE UNCHANGED <<links, stale, made, worked>>
    BY <2>1, QuietStepStutters
  <2>2. ASSUME NEW l \in LinkLane, RevokeEarlier(l) \/ CreateLink(l) \/ BurnLink(l)
        PROVE  Abstract!SecretNext \/ UNCHANGED Abstract!secretVars
    BY <2>2, RevokeWithdraws, CreateIssues, BurnAccepts, TokensAssumption
  <2>3. CASE Expire
    BY <2>3, ExpireWithdraws
  <2>4. QED
    BY ZenonT(60), <2>1, <2>2, <2>3
       DEF TokensNext, tokenVars, Register, RequestEmailChange, ForgotPassword, ResendVerification,
           OpenLink, StartRequest, CreateUser, NoteAddress, Send, MarkVerified, ApplyReset,
           FindWaiting, MoveAddress, Stop, Continue
<1>2. TokensInit => Abstract!SecretInit
  BY InitIsSecretInit
<1>3. QED
  BY <1>1, <1>2, TokensInvariance, TokensAssumption, PTL
     DEF TokensSpec, LinksAreOneTime, Abstract!SecretSpec

---------------------------------------------------------------------------
(* One request at a time                                                   *)

\* What an account waits for is what it asked for last, and so is where a
\* request that has found it will move it.
SerialInv ==
    linkLanes = 1 =>
        /\ \A l, m \in InFlight : l = m
        /\ \A p \in Person : person[p].pendingEmail \in {NoAddress, asked[p]}
        /\ \A l \in LinkLane :
               linkCall[l].pc = "move" => linkCall[l].address = asked[linkCall[l].who]

\* A lane starts only when no other is in flight; a running one goes on alone.
LEMMA OneLane ==
    ASSUME TokensAssumption, TokensInv, SerialInv, linkLanes = 1, linkLanes' = linkLanes,
           NEW l \in LinkLane, NEW c \in Call, linkCall' = [linkCall EXCEPT ![l] = c],
           Cardinality(InFlight) < 1 \/ l \in InFlight
    PROVE  \A m \in LinkLane : m # l => linkCall'[m] = NoRequest /\ linkCall[m] = NoRequest
<1>1. CASE l \in InFlight
  BY <1>1 DEF SerialInv, InFlight, TokensInv, CallsAreSound
<1>2. CASE Cardinality(InFlight) < 1
  <2>1. IsFiniteSet(InFlight)
    BY FS_Subset DEF InFlight, TokensAssumption
  <2>2. InFlight = {}
    BY <1>2, <2>1, FS_EmptySet, FS_CardinalityType
  <2>3. QED
    BY <2>2 DEF InFlight, TokensInv, CallsAreSound
<1>3. QED
  BY <1>1, <1>2

\* What a step of one lane must leave for the rest to follow.
LEMMA LaneGoesOn ==
    ASSUME TokensAssumption, TokensInv, SerialInv, linkLanes' = linkLanes,
           NEW l \in LinkLane, NEW c \in Call, linkCall' = [linkCall EXCEPT ![l] = c],
           Cardinality(InFlight) < linkLanes \/ l \in InFlight,
           linkLanes = 1 =>
               /\ \A p \in Person : person'[p].pendingEmail \in {NoAddress, asked'[p]}
               /\ c.pc = "move" => c.address = asked'[c.who]
    PROVE  SerialInv'
<1> SUFFICES ASSUME linkLanes = 1
             PROVE  SerialInv'
  BY DEF SerialInv
<1>1. \A m \in LinkLane : m # l => linkCall'[m] = NoRequest
  BY OneLane
<1>2. linkCall'[l] = c
  BY DEF TokensInv, CallsAreSound
<1>3. \A m, n \in InFlight' : m = n
  BY <1>1 DEF InFlight
<1>4. \A m \in LinkLane : linkCall'[m].pc = "move" => linkCall'[m].address = asked'[linkCall'[m].who]
  BY <1>1, <1>2, NoRequestIsSound
<1>5. QED
  BY <1>3, <1>4 DEF SerialInv

LEMMA AskingKeepsSerial ==
    ASSUME TokensAssumption, TokensInv, SerialInv, NEW l \in LinkLane, NEW c \in Call,
           StartRequest(l, c), UNCHANGED asked, c.pc # "move"
    PROVE  SerialInv'
<1>1. UNCHANGED <<linkLanes, person, asked>> /\ linkCall' = [linkCall EXCEPT ![l] = c]
      /\ Cardinality(InFlight) < linkLanes
  BY DEF StartRequest
<1>2. linkLanes = 1 => \A p \in Person : person'[p].pendingEmail \in {NoAddress, asked'[p]}
  BY <1>1 DEF SerialInv
<1>3. QED
  BY <1>1, <1>2, LaneGoesOn

LEMMA StoppingKeepsSerial ==
    ASSUME TokensAssumption, TokensInv, SerialInv, NEW l \in InFlight, NEW c \in Call, c.pc # "move",
           linkCall' = [linkCall EXCEPT ![l] = c], UNCHANGED <<linkLanes, asked>>,
           \A p \in Person : person'[p].pendingEmail \in {NoAddress, person[p].pendingEmail}
    PROVE  SerialInv'
<1>1. linkLanes = 1 => \A p \in Person : person'[p].pendingEmail \in {NoAddress, asked'[p]}
  BY DEF SerialInv
<1>2. l \in LinkLane
  BY DEF InFlight
<1>3. QED
  BY <1>1, <1>2, LaneGoesOn

LEMMA RunningIsInFlight ==
    ASSUME NEW l \in LinkLane, linkCall[l].pc # "idle"
    PROVE  l \in InFlight
BY DEF InFlight, NoRequest

LEMMA StepKeepsSerial ==
    ASSUME TokensAssumption, TokensInv, SerialInv, [TokensNext]_tokenVars
    PROVE  SerialInv'
<1>1. CASE UNCHANGED <<linkLanes, linkCall, person, asked>>
  BY <1>1 DEF SerialInv, InFlight
<1>2. ASSUME NEW l \in LinkLane, NEW p \in Person, NEW a \in Address,
             Register(l, p, a) \/ RequestEmailChange(l, p, a)
      PROVE  SerialInv'
  <2>1. PICK c : /\ c \in AccountCall /\ c.pc # "move" /\ StartRequest(l, c) /\ UNCHANGED asked
    BY <1>2 DEF Register, RequestEmailChange, AccountCall
  <2>2. QED
    BY <2>1, AskingKeepsSerial DEF Call
<1>3. ASSUME NEW l \in LinkLane, NEW a \in Address, ForgotPassword(l, a) \/ ResendVerification(l, a)
      PROVE  SerialInv'
  <2>1. PICK c : c \in MailCall /\ c.pc # "move" /\ StartRequest(l, c) /\ UNCHANGED asked
    BY <1>3 DEF ForgotPassword, ResendVerification, ToMail, MailCall, Purposes
  <2>2. QED
    BY <2>1, AskingKeepsSerial DEF Call
<1>4. ASSUME NEW l \in LinkLane, NEW k \in inbox, OpenLink(l, k)
      PROVE  SerialInv'
  <2>1. PICK c : c \in LinkCall /\ c.pc # "move" /\ StartRequest(l, c) /\ UNCHANGED asked
    BY <1>4 DEF OpenLink, LinkCall, TokensInv, RowsAreSound
  <2>2. QED
    BY <2>1, AskingKeepsSerial DEF Call
<1>5. ASSUME NEW l \in LinkLane, CreateUser(l)
      PROVE  SerialInv'
  <2>1. l \in InFlight /\ linkCall[l].who \in Person /\ linkCall[l].address \in Address
    BY <1>5, FieldsOfCall, RunningIsInFlight DEF CreateUser, TokensInv
  <2>2. ToMail("email-verify", linkCall[l].address) \in MailCall /\ NoRequest \in Call
    BY <2>1 DEF ToMail, MailCall, Purposes, Call
  <2>3. PICK c \in Call : c.pc # "move" /\ Continue(l, c)
    BY <1>5, <2>2, NoRequestIsSound DEF CreateUser, Stop, Call, MailCall
  <2>4. \A p \in Person : person'[p].pendingEmail = person[p].pendingEmail
    <3>1. PICK w \in Person, a \in Address : person' \in {person, [person EXCEPT ![w].email = a]}
      BY <1>5, <2>1 DEF CreateUser
    <3>2. QED
      BY <3>1 DEF TokensInv, PeopleAreSound, PersonRow
  <2>5. QED
    BY <2>1, <2>3, <2>4, StoppingKeepsSerial DEF Continue
<1>6. ASSUME NEW l \in LinkLane, NoteAddress(l)
      PROVE  SerialInv'
  <2>1. l \in InFlight /\ linkCall[l].who \in Person /\ linkCall[l].address \in Address
    BY <1>6, FieldsOfCall, RunningIsInFlight DEF NoteAddress, TokensInv
  <2>2. PICK c : c = ToMail("email-change", linkCall[l].address)
    OBVIOUS
  <2>3. c \in Call /\ c.pc = "revoke"
    BY <2>1, <2>2 DEF ToMail, MailCall, Purposes, Call
  <2>4. linkLanes = 1 => \A p \in Person : person'[p].pendingEmail \in {NoAddress, asked'[p]}
    <3>1. PICK w \in Person, a \in Address :
              /\ person' = [person EXCEPT ![w].pendingEmail = a]
              /\ asked' = [asked EXCEPT ![w] = a]
      BY <1>6, <2>1 DEF NoteAddress
    <3>2. QED
      BY <3>1 DEF SerialInv, TokensInv, PeopleAreSound, PersonRow
  <2>5. QED
    BY <1>6, <2>1, <2>2, <2>3, <2>4, LaneGoesOn DEF NoteAddress
<1>7. ASSUME NEW l \in LinkLane, RevokeEarlier(l) \/ CreateLink(l)
      PROVE  SerialInv'
  <2>1. l \in InFlight /\ linkCall[l] \in MailCall
    BY <1>7, FieldsOfCall, RunningIsInFlight DEF RevokeEarlier, CreateLink, TokensInv
  <2>2. linkCall' \in [LinkLane -> Call] /\ UNCHANGED <<linkLanes, asked, person>>
    BY <1>7, RevokeEarlierKeeps, CreateLinkKeeps
       DEF RevokeEarlier, CreateLink, Continue, TokensInv, CallsAreSound
  <2>3. PICK c : c.pc # "move" /\ linkCall' = [linkCall EXCEPT ![l] = c]
    BY <1>7, <2>1 DEF RevokeEarlier, CreateLink, Continue, MailCall
  <2>4. c \in Call
    BY <2>2, <2>3 DEF TokensInv, CallsAreSound
  <2>5. QED
    BY <2>1, <2>2, <2>3, <2>4, StoppingKeepsSerial
<1>8. ASSUME NEW l \in LinkLane, Send(l) \/ MarkVerified(l) \/ ApplyReset(l) \/ MoveAddress(l)
      PROVE  SerialInv'
  <2>1. l \in InFlight
    BY <1>8, RunningIsInFlight DEF Send, MarkVerified, ApplyReset, MoveAddress
  <2>2. linkCall' = [linkCall EXCEPT ![l] = NoRequest] /\ UNCHANGED <<linkLanes, asked>>
    BY <1>8 DEF Send, MarkVerified, ApplyReset, MoveAddress, Stop, Continue
  <2>3. \A p \in Person : person'[p].pendingEmail \in {NoAddress, person[p].pendingEmail}
    BY <1>8 DEF Send, MarkVerified, ApplyReset, MoveAddress, TokensInv, PeopleAreSound, PersonRow
  <2>4. QED
    BY <2>1, <2>2, <2>3, NoRequestIsSound, StoppingKeepsSerial
<1>9. ASSUME NEW l \in LinkLane, BurnLink(l)
      PROVE  SerialInv'
  <2>1. l \in InFlight /\ linkCall[l].link \in Link
    BY <1>9, FieldsOfCall, RunningIsInFlight DEF BurnLink, TokensInv
  <2>2. [pc |-> linkCall[l].link.purpose, link |-> linkCall[l].link] \in LinkCall
    BY <2>1 DEF LinkCall, Link
  <2>3. PICK c \in Call : c.pc # "move" /\ Continue(l, c)
    BY <1>9, <2>2, NoRequestIsSound DEF BurnLink, Stop, Call, LinkCall, Purposes
  <2>4. QED
    BY <1>9, <2>1, <2>3, StoppingKeepsSerial DEF BurnLink, Continue
<1>10. ASSUME NEW l \in LinkLane, FindWaiting(l)
      PROVE  SerialInv'
  <2>1. l \in InFlight /\ linkCall[l].link.address \in Address
    BY <1>10, RunningIsInFlight DEF FindWaiting, TokensInv, CallsAreSound, PeopleAreSound, Purposes
  <2>2. UNCHANGED <<linkLanes, asked, person>>
    BY <1>10 DEF FindWaiting, Stop, Continue
  <2>3. CASE Stop(l)
    BY <2>1, <2>2, <2>3, NoRequestIsSound, StoppingKeepsSerial DEF Stop, Continue
  <2>4. ASSUME NEW p \in Person, person[p].pendingEmail = linkCall[l].link.address,
               Continue(l, [pc |-> "move", who |-> p, address |-> linkCall[l].link.address])
        PROVE  SerialInv'
    <3>1. PICK c : c = [pc |-> "move", who |-> p, address |-> linkCall[l].link.address]
      OBVIOUS
    <3>2. c \in Call /\ c.who = p /\ c.address = linkCall[l].link.address
      BY <2>1, <3>1 DEF Call, AccountCall
    <3>3. linkLanes = 1 => c.address = asked'[c.who]
      BY <2>1, <2>2, <2>4, <3>2 DEF SerialInv, TokensAssumption
    <3>4. linkLanes = 1 => \A q \in Person : person'[q].pendingEmail \in {NoAddress, asked'[q]}
      BY <2>2 DEF SerialInv
    <3>5. QED
      BY <2>1, <2>2, <2>4, <3>1, <3>2, <3>3, <3>4, LaneGoesOn DEF Continue, InFlight
  <2>5. QED
    BY <1>10, <2>3, <2>4 DEF FindWaiting
<1>11. QED
  BY <1>1, <1>2, <1>3, <1>4, <1>5, <1>6, <1>7, <1>8, <1>9, <1>10 DEF TokensNext, Expire, tokenVars

\* An account moves to the address its owner asked for last, not to one they
\* have thought better of, when no requests overlap (verifyEmailChange reads
\* pendingEmail of whoever waits for the address).
THEOREM MovesWhereAsked == TokensSpec => LastAskedWins
<1>1. TokensInv /\ SerialInv /\ [TokensNext]_tokenVars =>
          [\A p \in Person :
              linkLanes = 1 /\ person[p].email # NoAddress /\ person'[p].email # person[p].email
                  => person'[p].email = asked[p]]_tokenVars
  <2> SUFFICES ASSUME TokensInv, SerialInv, [TokensNext]_tokenVars, linkLanes = 1,
                      NEW p \in Person,
                      person[p].email # NoAddress, person'[p].email # person[p].email
               PROVE  person'[p].email = asked[p]
    OBVIOUS
  <2>1. PICK l \in LinkLane : CreateUser(l) \/ MarkVerified(l) \/ NoteAddress(l) \/ MoveAddress(l)
    BY DEF TokensNext, tokenVars, Register, RequestEmailChange, ForgotPassword, ResendVerification,
           OpenLink, StartRequest, RevokeEarlier, CreateLink, Send, BurnLink, ApplyReset,
           FindWaiting, Expire
  <2>2. CASE CreateUser(l)
    BY <2>2 DEF CreateUser, TokensInv, PeopleAreSound
  <2>3. CASE MarkVerified(l) \/ NoteAddress(l)
    <3>1. CASE MarkVerified(l)
      BY <3>1 DEF MarkVerified, TokensInv, PeopleAreSound, PersonRow
    <3>2. CASE NoteAddress(l)
      <4>1. PICK w, a : person' = [person EXCEPT ![w].pendingEmail = a]
        BY <3>2 DEF NoteAddress
      <4>2. QED
        BY <4>1 DEF TokensInv, PeopleAreSound, PersonRow
    <3>3. QED
      BY <2>3, <3>1, <3>2
  <2>4. CASE MoveAddress(l)
    <3>1. linkCall[l].address = asked[linkCall[l].who]
      BY <2>4 DEF MoveAddress, SerialInv
    <3>2. QED
      BY <2>4, <3>1 DEF MoveAddress, TokensInv, PeopleAreSound
  <2>5. QED
    BY <2>1, <2>2, <2>3, <2>4
<1>2. TokensInit => SerialInv
  BY DEF TokensInit, SerialInv, InFlight, NoRequest
<1>3. TokensInv /\ SerialInv /\ [TokensNext]_tokenVars => SerialInv'
  BY StepKeepsSerial, TokensAssumption
<1>4. QED
  BY <1>1, <1>2, <1>3, TokensInvariance, TokensAssumption, PTL DEF TokensSpec, LastAskedWins

---------------------------------------------------------------------------
(* Requests that overlap                                                   *)

Alike(purpose, a) == {k \in links : k.purpose = purpose /\ k.address = a}
Creating(purpose, a) ==
    {l \in LinkLane : linkCall[l].pc = "create" /\ linkCall[l].purpose = purpose /\ linkCall[l].address = a}

\* Between its two statements a request counts like the link it will create:
\* whoever withdrew the others has left only those of requests in flight.
FewInv ==
    /\ IsFiniteSet(links) /\ linkLanes \in Nat /\ Cardinality(InFlight) <= linkLanes
    /\ \A purpose \in Purposes, a \in Address :
           Cardinality(Alike(purpose, a)) + Cardinality(Creating(purpose, a)) <= linkLanes

LEMMA LanesAreFinite ==
    ASSUME TokensAssumption
    PROVE  /\ \A S \in SUBSET LinkLane : IsFiniteSet(S) /\ Cardinality(S) \in Nat
           /\ IsFiniteSet(links) => \A S \in SUBSET links : IsFiniteSet(S) /\ Cardinality(S) \in Nat
<1>1. IsFiniteSet(LinkLane)
  BY DEF TokensAssumption
<1>2. QED
  BY <1>1, FS_Subset, FS_CardinalityType

\* Fewer links, and nobody new about to create one.
LEMMA FewerStayFew ==
    ASSUME TokensAssumption, FewInv, links' \subseteq links, UNCHANGED linkLanes,
           Cardinality(InFlight') <= linkLanes,
           \A purpose, a : Creating(purpose, a)' \subseteq Creating(purpose, a)
    PROVE  FewInv'
<1>1. IsFiniteSet(links')
  BY FS_Subset DEF FewInv
<1>2. ASSUME NEW purpose \in Purposes, NEW a \in Address
      PROVE  Cardinality(Alike(purpose, a)') + Cardinality(Creating(purpose, a)') <= linkLanes
  <2>1. Alike(purpose, a) \subseteq links /\ Alike(purpose, a)' \subseteq Alike(purpose, a)
    BY DEF Alike
  <2>2. Creating(purpose, a) \subseteq LinkLane /\ Creating(purpose, a)' \subseteq Creating(purpose, a)
    BY DEF Creating
  <2>3. IsFiniteSet(links) /\ linkLanes \in Nat
    BY DEF FewInv
  <2>4. /\ IsFiniteSet(Alike(purpose, a)) /\ Cardinality(Alike(purpose, a)) \in Nat
        /\ Cardinality(Alike(purpose, a)') \in Nat
    BY <2>1, <2>3, LanesAreFinite
  <2>5. /\ IsFiniteSet(Creating(purpose, a)) /\ Cardinality(Creating(purpose, a)) \in Nat
        /\ Cardinality(Creating(purpose, a)') \in Nat
    BY <2>2, LanesAreFinite
  <2>6. Cardinality(Alike(purpose, a)') <= Cardinality(Alike(purpose, a))
    BY <2>1, <2>4, FS_Subset
  <2>7. Cardinality(Creating(purpose, a)') <= Cardinality(Creating(purpose, a))
    BY <2>2, <2>5, FS_Subset
  <2>8. Cardinality(Alike(purpose, a)) + Cardinality(Creating(purpose, a)) <= linkLanes
    BY DEF FewInv
  <2>9. QED
    BY <2>3, <2>4, <2>5, <2>6, <2>7, <2>8
<1>3. QED
  BY <1>1, <1>2 DEF FewInv

\* A request that is in flight goes on: to anything but creating, nothing to
\* count arises; the lanes in flight are no more than before.
LEMMA RunningGoesOn ==
    ASSUME TokensAssumption, FewInv, linkCall \in [LinkLane -> Call], NEW l \in InFlight, NEW c,
           linkCall' = [linkCall EXCEPT ![l] = c]
    PROVE  /\ linkCall'[l] = c /\ \A m \in LinkLane \ {l} : linkCall'[m] = linkCall[m]
           /\ InFlight' \subseteq InFlight /\ Cardinality(InFlight') <= linkLanes
           /\ c.pc # "create" => \A purpose, a : Creating(purpose, a)' = Creating(purpose, a) \ {l}
<1>1. l \in LinkLane
  BY DEF InFlight
<1>2. linkCall'[l] = c /\ \A m \in LinkLane \ {l} : linkCall'[m] = linkCall[m]
  BY <1>1
<1>3. InFlight' \subseteq InFlight /\ InFlight \subseteq LinkLane
  BY <1>2 DEF InFlight
<1>4. Cardinality(InFlight') <= Cardinality(InFlight) /\ Cardinality(InFlight) \in Nat
      /\ Cardinality(InFlight') \in Nat
  BY <1>3, LanesAreFinite, FS_Subset
<1>5. Cardinality(InFlight') <= linkLanes
  BY <1>4 DEF FewInv
<1>6. c.pc # "create" => \A purpose, a : Creating(purpose, a)' = Creating(purpose, a) \ {l}
  BY <1>1, <1>2 DEF Creating
<1>7. QED
  BY <1>2, <1>3, <1>5, <1>6

LEMMA BeginningStaysFew ==
    ASSUME TokensAssumption, FewInv, linkCall \in [LinkLane -> Call], NEW l \in LinkLane, NEW c,
           c.pc # "create", StartRequest(l, c)
    PROVE  FewInv'
<1>1. /\ linkCall' = [linkCall EXCEPT ![l] = c] /\ UNCHANGED <<links, linkLanes>>
      /\ Cardinality(InFlight) < linkLanes
  BY DEF StartRequest
<1>2. linkCall'[l] = c /\ \A m \in LinkLane \ {l} : linkCall'[m] = linkCall[m]
  BY <1>1
<1>3. InFlight' \subseteq InFlight \cup {l} /\ InFlight \cup {l} \subseteq LinkLane
  BY <1>2 DEF InFlight
<1>4. IsFiniteSet(InFlight \cup {l}) /\ IsFiniteSet(InFlight) /\ Cardinality(InFlight) \in Nat
      /\ Cardinality(InFlight') \in Nat /\ Cardinality(InFlight \cup {l}) \in Nat
  BY <1>3, LanesAreFinite
<1>5. Cardinality(InFlight') <= Cardinality(InFlight \cup {l})
  BY <1>3, <1>4, FS_Subset
<1>6. Cardinality(InFlight \cup {l}) <= Cardinality(InFlight) + 1
  BY <1>4, FS_AddElement
<1>7. Cardinality(InFlight') <= linkLanes
  BY <1>1, <1>4, <1>5, <1>6 DEF FewInv
<1>8. \A purpose, a : Creating(purpose, a)' \subseteq Creating(purpose, a)
  BY <1>2 DEF Creating
<1>9. QED
  BY <1>1, <1>7, <1>8, FewerStayFew

\* The links withdrawn, those to be created are of requests in flight.
LEMMA RevokingLeavesFew ==
    ASSUME TokensAssumption, TokensInv, FewInv, NEW l \in LinkLane, RevokeEarlier(l)
    PROVE  FewInv'
<1>1. linkCall[l] \in MailCall /\ l \in InFlight /\ linkCall \in [LinkLane -> Call]
  BY FieldsOfCall, RunningIsInFlight DEF RevokeEarlier, TokensInv, CallsAreSound
<1>2. PICK c : c = [linkCall[l] EXCEPT !.pc = "create"]
  OBVIOUS
<1>3. c.purpose = linkCall[l].purpose /\ c.address = linkCall[l].address
  BY <1>1, <1>2 DEF MailCall
<1>4. /\ links' = {k \in links : <<k.purpose, k.address>> # <<c.purpose, c.address>>}
      /\ linkCall' = [linkCall EXCEPT ![l] = c] /\ UNCHANGED linkLanes
  BY <1>2, <1>3 DEF RevokeEarlier, Continue
<1>5. /\ linkCall'[l] = c /\ \A m \in LinkLane \ {l} : linkCall'[m] = linkCall[m]
      /\ InFlight' \subseteq InFlight /\ Cardinality(InFlight') <= linkLanes
  BY <1>1, <1>4, RunningGoesOn
<1>6. IsFiniteSet(links) /\ linkLanes \in Nat /\ IsFiniteSet(links')
  BY <1>4, FS_Subset DEF FewInv
<1>7. ASSUME NEW purpose \in Purposes, NEW a \in Address
      PROVE  Cardinality(Alike(purpose, a)') + Cardinality(Creating(purpose, a)') <= linkLanes
  <2>1. CASE purpose = c.purpose /\ a = c.address
    <3>1. Alike(purpose, a)' = {}
      BY <1>4, <2>1 DEF Alike
    <3>2. Creating(purpose, a)' \subseteq InFlight' /\ InFlight' \subseteq LinkLane
      BY DEF Creating, InFlight, NoRequest
    <3>3. /\ Cardinality(Creating(purpose, a)') <= Cardinality(InFlight')
          /\ Cardinality(Creating(purpose, a)') \in Nat /\ Cardinality(InFlight') \in Nat
      BY <3>2, LanesAreFinite, FS_Subset
    <3>4. Cardinality(Alike(purpose, a)') = 0
      BY <3>1, FS_EmptySet
    <3>5. QED
      BY <1>5, <1>6, <3>3, <3>4
  <2>2. CASE ~(purpose = c.purpose /\ a = c.address)
    <3>1. Alike(purpose, a)' = Alike(purpose, a)
      BY <1>4, <2>2 DEF Alike
    <3>2. linkCall[l].pc # "create"
      BY DEF RevokeEarlier
    <3>3. Creating(purpose, a)' = Creating(purpose, a)
      BY <1>5, <2>2, <3>2 DEF Creating
    <3>4. QED
      BY <3>1, <3>3 DEF FewInv
  <2>3. QED
    BY <2>1, <2>2
<1>8. QED
  BY <1>4, <1>5, <1>6, <1>7 DEF FewInv

\* One more link, and one request fewer about to create one.
LEMMA CreatingStaysFew ==
    ASSUME TokensAssumption, TokensInv, FewInv, NEW l \in LinkLane, CreateLink(l)
    PROVE  FewInv'
<1>1. l \in InFlight /\ linkCall \in [LinkLane -> Call]
  BY RunningIsInFlight DEF CreateLink, TokensInv, CallsAreSound
<1>2. PICK k : k = [id |-> made', purpose |-> linkCall[l].purpose, address |-> linkCall[l].address]
  OBVIOUS
<1>3. /\ links' = links \cup {k} /\ k.purpose = linkCall[l].purpose /\ k.address = linkCall[l].address
      /\ linkCall' = [linkCall EXCEPT ![l] = [pc |-> "send", link |-> k]] /\ UNCHANGED linkLanes
      /\ linkCall[l].pc = "create"
  BY <1>2 DEF CreateLink, Continue
<1>4. /\ Cardinality(InFlight') <= linkLanes
      /\ \A purpose, a : Creating(purpose, a)' = Creating(purpose, a) \ {l}
  <2>1. PICK c : c = [pc |-> "send", link |-> k]
    OBVIOUS
  <2>2. c.pc # "create" /\ linkCall' = [linkCall EXCEPT ![l] = c]
    BY <1>3, <2>1
  <2>3. QED
    BY <1>1, <1>3, <2>2, RunningGoesOn
<1>5. IsFiniteSet(links) /\ linkLanes \in Nat
  BY DEF FewInv
<1>6. IsFiniteSet(links')
  BY <1>3, <1>5, FS_AddElement
<1>7. ASSUME NEW purpose \in Purposes, NEW a \in Address
      PROVE  Cardinality(Alike(purpose, a)') + Cardinality(Creating(purpose, a)') <= linkLanes
  <2>1. Alike(purpose, a) \subseteq links /\ Creating(purpose, a) \subseteq LinkLane
        /\ Creating(purpose, a)' \subseteq LinkLane
    BY DEF Alike, Creating
  <2>2. /\ IsFiniteSet(Alike(purpose, a)) /\ Cardinality(Alike(purpose, a)) \in Nat
        /\ IsFiniteSet(Creating(purpose, a)) /\ Cardinality(Creating(purpose, a)) \in Nat
        /\ Cardinality(Creating(purpose, a)') \in Nat
    BY <1>5, <2>1, LanesAreFinite
  <2>3. Cardinality(Alike(purpose, a)) + Cardinality(Creating(purpose, a)) <= linkLanes
    BY DEF FewInv
  <2>4. CASE purpose = k.purpose /\ a = k.address
    <3>1. Alike(purpose, a)' = Alike(purpose, a) \cup {k}
      BY <1>3, <2>4 DEF Alike
    <3>2. Cardinality(Alike(purpose, a) \cup {k}) \in {Cardinality(Alike(purpose, a)), Cardinality(Alike(purpose, a)) + 1}
      BY <2>2, FS_AddElement
    <3>3. l \in Creating(purpose, a)
      BY <1>3, <2>4 DEF Creating
    <3>4. Cardinality(Creating(purpose, a) \ {l}) = Cardinality(Creating(purpose, a)) - 1
      BY <2>2, <3>3, FS_RemoveElement
    <3>5. Cardinality(Creating(purpose, a)') = Cardinality(Creating(purpose, a)) - 1
      BY <1>4, <3>4
    <3>6. QED
      BY <1>5, <2>2, <2>3, <3>1, <3>2, <3>5
  <2>5. CASE ~(purpose = k.purpose /\ a = k.address)
    <3>1. Alike(purpose, a)' = Alike(purpose, a)
      BY <1>3, <2>5 DEF Alike
    <3>2. Creating(purpose, a)' = Creating(purpose, a)
      BY <1>3, <1>4, <2>5 DEF Creating
    <3>3. QED
      BY <2>3, <3>1, <3>2
  <2>6. QED
    BY <2>4, <2>5
<1>8. QED
  BY <1>3, <1>4, <1>6, <1>7 DEF FewInv

LEMMA StepKeepsFew ==
    ASSUME TokensAssumption, TokensInv, FewInv, [TokensNext]_tokenVars
    PROVE  FewInv'
<1>0. linkCall \in [LinkLane -> Call] /\ NoRequest.pc # "create"
  BY DEF TokensInv, CallsAreSound, NoRequest
<1>1. CASE UNCHANGED tokenVars \/ Expire
  <2>1. UNCHANGED <<links, linkLanes, linkCall>>
    BY <1>1 DEF tokenVars, Expire
  <2>2. QED
    BY <2>1 DEF FewInv, InFlight, Alike, Creating
<1>2. ASSUME NEW l \in LinkLane,
             \/ \E p \in Person, a \in Address : Register(l, p, a) \/ RequestEmailChange(l, p, a)
             \/ \E a \in Address : ForgotPassword(l, a) \/ ResendVerification(l, a)
             \/ \E k \in inbox : OpenLink(l, k)
      PROVE  FewInv'
  <2>1. PICK c : c.pc # "create" /\ StartRequest(l, c)
    BY <1>2 DEF Register, RequestEmailChange, ForgotPassword, ResendVerification, OpenLink, ToMail
  <2>2. QED
    BY <1>0, <2>1, BeginningStaysFew
<1>3. ASSUME NEW l \in LinkLane,
             \/ CreateUser(l) \/ NoteAddress(l) \/ Send(l) \/ MarkVerified(l) \/ ApplyReset(l)
             \/ FindWaiting(l) \/ MoveAddress(l) \/ BurnLink(l)
      PROVE  FewInv'
  <2>1. linkCall[l].pc = "burn" => linkCall[l].link \in Link
    BY FieldsOfCall DEF TokensInv
  <2>2. PICK c : c.pc # "create" /\ linkCall' = [linkCall EXCEPT ![l] = c]
    <3>1. CASE BurnLink(l)
      BY <1>0, <2>1, <3>1 DEF BurnLink, Stop, Continue, Link, Purposes
    <3>2. CASE ~BurnLink(l)
      BY <1>0, <1>3, <3>2 DEF CreateUser, NoteAddress, Send, MarkVerified, ApplyReset, FindWaiting,
                              MoveAddress, Stop, Continue, ToMail
    <3>3. QED
      BY <3>1, <3>2
  <2>3. links' \subseteq links /\ UNCHANGED linkLanes
    BY <1>3 DEF CreateUser, NoteAddress, Send, MarkVerified, ApplyReset, FindWaiting,
                MoveAddress, BurnLink, Stop, Continue
  <2>4. l \in InFlight
    BY <1>3, RunningIsInFlight
       DEF CreateUser, NoteAddress, Send, MarkVerified, ApplyReset, FindWaiting, MoveAddress, BurnLink
  <2>5. /\ Cardinality(InFlight') <= linkLanes
        /\ \A purpose, a : Creating(purpose, a)' = Creating(purpose, a) \ {l}
    BY <1>0, <2>2, <2>4, RunningGoesOn
  <2>6. QED
    BY <2>3, <2>5, FewerStayFew
<1>4. ASSUME NEW l \in LinkLane, RevokeEarlier(l) \/ CreateLink(l)
      PROVE  FewInv'
  BY <1>4, RevokingLeavesFew, CreatingStaysFew
<1>5. QED
  BY <1>1, <1>2, <1>3, <1>4 DEF TokensNext

LEMMA FewStarts ==
    ASSUME TokensAssumption, TokensInit
    PROVE  FewInv
<1>1. links = {} /\ InFlight = {} /\ \A purpose, a : Alike(purpose, a) = {} /\ Creating(purpose, a) = {}
  BY DEF TokensInit, InFlight, NoRequest, Alike, Creating
<1>2. linkLanes \in Nat
  BY LanesAreFinite DEF TokensInit
<1>3. QED
  BY <1>1, <1>2, FS_EmptySet DEF FewInv

\* "One outstanding token per (purpose, email) at a time" (lib/auth/tokens.ts):
\* createToken withdraws and creates in two statements, so n requests at once
\* leave n links at most, of any purpose and for any address.
THEOREM LinksStayFew == TokensSpec => []FewLinksOutstanding
<1>1. TokensInit => FewInv
  BY FewStarts, TokensAssumption
<1>2. TokensInv /\ FewInv /\ [TokensNext]_tokenVars => FewInv'
  BY StepKeepsFew, TokensAssumption
<1>3. FewInv => FewLinksOutstanding
  <2> SUFFICES ASSUME FewInv, NEW purpose \in Purposes, NEW a \in Address
               PROVE  Cardinality(Alike(purpose, a)) <= linkLanes
    BY DEF FewLinksOutstanding, Alike
  <2>1. Cardinality(Alike(purpose, a)) \in Nat /\ Cardinality(Creating(purpose, a)) \in Nat
    BY LanesAreFinite, TokensAssumption DEF Alike, Creating, FewInv
  <2>2. Cardinality(Alike(purpose, a)) + Cardinality(Creating(purpose, a)) <= linkLanes /\ linkLanes \in Nat
    BY DEF FewInv
  <2>3. QED
    BY <2>1, <2>2
<1>4. QED
  BY <1>1, <1>2, <1>3, TokensInvariance, TokensAssumption, PTL DEF TokensSpec

OneOutstanding ==
    linkLanes = 1 => \A k, m \in links : k.purpose = m.purpose /\ k.address = m.address => k = m

\* The same without any overlap: asking again withdraws what was sent before.
THEOREM OneLinkAtATime == TokensSpec => []OneOutstanding
<1>1. TokensInv /\ FewInv => OneOutstanding
  <2> SUFFICES ASSUME TokensInv, FewInv, linkLanes = 1, NEW k \in links, NEW m \in links,
                      k.purpose = m.purpose, k.address = m.address
               PROVE  k = m
    BY DEF OneOutstanding
  <2> DEFINE S == Alike(k.purpose, k.address)
  <2>1. k \in S /\ m \in S /\ S \subseteq links /\ k.purpose \in Purposes /\ k.address \in Address
    BY DEF Alike, TokensInv, RowsAreSound, Link
  <2>2. IsFiniteSet(S) /\ Cardinality(S) \in Nat /\ Cardinality(Creating(k.purpose, k.address)) \in Nat
        /\ IsFiniteSet(S \ {k}) /\ Cardinality(S \ {k}) \in Nat
    BY <2>1, LanesAreFinite, TokensAssumption DEF FewInv, Creating
  <2>3. Cardinality(S) + Cardinality(Creating(k.purpose, k.address)) <= 1
    BY <2>1 DEF FewInv
  <2>4. Cardinality(S \ {k}) = Cardinality(S) - 1
    BY <2>1, <2>2, FS_RemoveElement
  <2> HIDE DEF S
  <2>5. Cardinality(S \ {k}) = 0
    BY <2>2, <2>3, <2>4
  <2>6. S \ {k} = {}
    BY <2>2, <2>5, FS_EmptySet
  <2>7. QED
    BY <2>1, <2>6
<1>2. TokensInit => FewInv
  BY FewStarts, TokensAssumption
<1>3. TokensInv /\ FewInv /\ [TokensNext]_tokenVars => FewInv'
  BY StepKeepsFew, TokensAssumption
<1>4. QED
  BY <1>1, <1>2, <1>3, TokensInvariance, TokensAssumption, PTL DEF TokensSpec

\* Linking by itself; in Identity its steps are those of one concern.
LinkingSpec == LinkingInit /\ [][LinkingNext]_linkingVars

---------------------------------------------------------------------------
(* Google: the invariant                                                   *)

Cookie == [account : Account, version : 0..VersionBound]
PlainFlow == [pc : {"decide", "look up", "find user", "create user"}, as : Identity]
ConnectFlow == [pc : {"connect"}, as : Identity, cookie : Cookie]
JoinFlow == [pc : {"join"}, as : Identity, to : Account, next : {NoFlow} \cup PlainFlow]
NewUserFlow == [pc : {"link user"}, as : Identity, to : Account]
FlowStep == {NoFlow} \cup PlainFlow \cup ConnectFlow \cup JoinFlow \cup NewUserFlow

\* The shapes, and what LinkingTypeOK says of addresses.
StateIsTyped ==
    /\ LinkingTypeOK
    /\ flow \in [Browser -> FlowStep]
    /\ connectCookie \in [Browser -> Cookie \cup {NoOne}]
    /\ consentCookie \in [Browser -> BOOLEAN]
    /\ bornOf \in [Account -> Identity \cup {NoOne}]
    /\ \A a \in Account : holder[a].status = "none" => bornOf[a] = NoOne

\* A link is made only by a return that knows its ground: what is verified was
\* once proved, a join was wanted or vouched for, a new account is of its
\* identity.  The grounds are histories, so nothing that happens to the
\* account meanwhile takes them away.
Ground(g, a) ==
    \/ <<a, g>> \in wanted
    \/ bornOf[a] = g
    \/ g \in vouched /\ <<a, GoogleMail[g]>> \in verifiedAs

VerifiedHoldersAreProven == \A a \in Account : holder[a].verified => <<a, holder[a].email>> \in verifiedAs

ReturnsHaveGround ==
    \A b \in Browser :
        /\ FlowAt(b, "connect") => <<flow[b].cookie.account, flow[b].as>> \in wanted
        /\ FlowAt(b, "join") \/ FlowAt(b, "link user") => Ground(flow[b].as, flow[b].to)

LinksHaveGround == \A g \in Identity : linked[g] # NoOne => Ground(g, linked[g])

\* A return that may create an account has consent behind it, unless the
\* link it saw was removed.
Consented(g) == agreed \/ g \in severed

HasConsent(f) ==
    /\ f.pc = "join" => f.next \in {NoFlow, [pc |-> "find user", as |-> f.as]}
    /\ f.pc = "find user" => linked[f.as] # NoOne \/ Consented(f.as)
    /\ f.pc = "create user" => Consented(f.as)

CookiesAreConsent == \A b \in Browser : consentCookie[b] => agreed
ReturnsHaveConsent == \A b \in Browser : HasConsent(flow[b])

\* A disconnection under way is of an account with a password, or of one that
\* is not used any more: a password that is set stays.
RemovalsLeaveAKey ==
    \A a \in removal : holder[a].status # "none" /\ (IsActive(a) => holder[a].password)

LinkingInv ==
    /\ StateIsTyped
    /\ VerifiedHoldersAreProven /\ ReturnsHaveGround /\ LinksHaveGround
    /\ CookiesAreConsent /\ ReturnsHaveConsent /\ ConsentPrecedesAccount
    /\ RemovalsLeaveAKey /\ WayBackIn

---------------------------------------------------------------------------
(* Returns                                                                 *)

\* The step tells what a return holds.
LEMMA KindOfFlow ==
    ASSUME NEW f \in FlowStep
    PROVE  /\ f.pc \in {"decide", "look up", "find user", "create user"} => f.as \in Identity
           /\ f.pc = "connect" => f.as \in Identity /\ f.cookie \in Cookie
           /\ f.pc = "join" => /\ f.as \in Identity /\ f.to \in Account
                               /\ f.next \in {NoFlow} \cup PlainFlow
           /\ f.pc = "link user" => f.as \in Identity /\ f.to \in Account
<1>1. CASE f = NoFlow
  BY <1>1 DEF NoFlow
<1>2. CASE f \in PlainFlow
  BY <1>2 DEF PlainFlow
<1>3. CASE f \in ConnectFlow
  BY <1>3 DEF ConnectFlow
<1>4. CASE f \in JoinFlow
  BY <1>4 DEF JoinFlow
<1>5. CASE f \in NewUserFlow
  BY <1>5 DEF NewUserFlow
<1>6. QED
  BY <1>1, <1>2, <1>3, <1>4, <1>5 DEF FlowStep

\* ... and what is written down of a return is one.
LEMMA FlowsOfAKind ==
    ASSUME NEW g \in Identity, NEW a \in Account
    PROVE  /\ NoFlow \in FlowStep
           /\ [pc |-> "decide", as |-> g] \in FlowStep
           /\ [pc |-> "look up", as |-> g] \in FlowStep
           /\ [pc |-> "find user", as |-> g] \in FlowStep \cap PlainFlow
           /\ [pc |-> "create user", as |-> g] \in FlowStep
           /\ \A k \in Cookie : [pc |-> "connect", as |-> g, cookie |-> k] \in FlowStep
           /\ \A next \in {NoFlow} \cup PlainFlow :
                  [pc |-> "join", as |-> g, to |-> a, next |-> next] \in FlowStep
           /\ [pc |-> "link user", as |-> g, to |-> a] \in FlowStep
BY DEF FlowStep, PlainFlow, ConnectFlow, JoinFlow, NewUserFlow

LEMMA PlainFlows ==
    ASSUME NEW g \in Identity
    PROVE  /\ [pc |-> "decide", as |-> g] \in PlainFlow
           /\ [pc |-> "look up", as |-> g] \in PlainFlow
           /\ [pc |-> "find user", as |-> g] \in PlainFlow
           /\ [pc |-> "create user", as |-> g] \in PlainFlow
BY DEF PlainFlow

LEMMA PlainFlowsArePlain ==
    ASSUME NEW f \in {NoFlow} \cup PlainFlow
    PROVE  f \in FlowStep /\ f.pc \notin {"connect", "join", "link user"}
<1>1. CASE f = NoFlow
  BY <1>1 DEF FlowStep, NoFlow
<1>2. CASE f \in PlainFlow
  BY <1>2 DEF FlowStep, PlainFlow
<1>3. QED
  BY <1>1, <1>2

\* One return goes on, the others stand.
LEMMA OneProceeds ==
    ASSUME flow \in [Browser -> FlowStep], NEW b \in Browser, NEW f \in FlowStep, Proceed(b, f)
    PROVE  /\ flow' \in [Browser -> FlowStep] /\ flow'[b] = f
           /\ \A c \in Browser \ {b} : flow'[c] = flow[c]
BY DEF Proceed

\* Removing the links of one account.
LEMMA SeverKeepsOthers ==
    ASSUME StateIsTyped, NEW a \in Account, Sever(a)
    PROVE  /\ linked' \in [Identity -> Account \cup {NoOne}]
           /\ \A g \in Identity : linked'[g] = IF linked[g] = a THEN NoOne ELSE linked[g]
           /\ severed \subseteq severed'
           /\ \A g \in Identity : linked[g] # linked'[g] => g \in severed'
BY DEF StateIsTyped, LinkingTypeOK, Sever, LinksOf

---------------------------------------------------------------------------
(* The state keeps its shape                                               *)

\* Where only cookies, returns and histories are written, rows stand.
LEMMA RowsStandTyped ==
    ASSUME StateIsTyped, UNCHANGED <<holder, linked, removal, bornOf>>,
           flow' \in [Browser -> FlowStep],
           connectCookie' \in [Browser -> Cookie \cup {NoOne}],
           consentCookie' \in [Browser -> BOOLEAN], returns' \in 0..FlowBound
    PROVE  StateIsTyped'
BY DEF StateIsTyped, LinkingTypeOK, HolderRow

\* A new row before anything is filled in.
LEMMA UnusedIsARow ==
    /\ Unused \in HolderRow
    /\ Unused.status = "none" /\ Unused.email = NoOne /\ ~Unused.verified /\ ~Unused.password
BY LinkingAssumption DEF Unused, HolderRow

\* One row is written, and its address, if it has one, is nobody else's.
LEMMA OneRowTyped ==
    ASSUME StateIsTyped, NEW a \in Account, NEW r \in HolderRow,
           holder' = [holder EXCEPT ![a] = r],
           r.email # NoOne => \A c \in Account \ {a} : holder[c].email # r.email,
           r.status # "none", UNCHANGED bornOf, UNCHANGED <<flow, connectCookie, consentCookie, returns>>,
           linked' \in [Identity -> Account \cup {NoOne}], removal' \subseteq Account
    PROVE  StateIsTyped'
BY DEF StateIsTyped, LinkingTypeOK

LEMMA TypedStep ==
    ASSUME StateIsTyped, [LinkingNext]_linkingVars
    PROVE  StateIsTyped'
<1>1. ASSUME NEW a \in Account, NEW m \in Mailbox, RegisterHolder(a, m)
     PROVE  StateIsTyped'
  <2> DEFINE r == [Unused EXCEPT !.status = "ACTIVE", !.email = m, !.password = TRUE]
  <2>1. r \in HolderRow /\ r.status = "ACTIVE" /\ r.email = m
    BY UnusedIsARow DEF HolderRow
  <2>2. \A c \in Account : holder[c].email # m
    BY <1>1 DEF RegisterHolder, WithMail
  <2>3. holder' = [holder EXCEPT ![a] = r]
    BY <1>1 DEF RegisterHolder
  <2> HIDE DEF r
  <2>4. QED
    BY <1>1, <2>1, <2>2, <2>3, OneRowTyped DEF RegisterHolder, flowHistory,
       StateIsTyped, LinkingTypeOK
<1>2. ASSUME NEW a \in Account, VerifyHolder(a)
     PROVE  StateIsTyped'
  BY <1>2 DEF VerifyHolder, IsActive, StateIsTyped, LinkingTypeOK, HolderRow
<1>3. ASSUME NEW a \in Account, NEW m \in Mailbox, MoveHolder(a, m)
     PROVE  StateIsTyped'
  BY ZenonT(60), <1>3 DEF MoveHolder, IsActive, WithMail, StateIsTyped, LinkingTypeOK, HolderRow
<1>4. ASSUME NEW a \in Account, SuspendHolder(a)
     PROVE  StateIsTyped'
  BY <1>4, LinkingAssumption DEF SuspendHolder, MayRevoke, IsActive, flowHistory,
     StateIsTyped, LinkingTypeOK, HolderRow
<1>5. ASSUME NEW a \in Account, RevokeHolder(a)
     PROVE  StateIsTyped'
  <2>1. PICK password \in {holder[a].password, TRUE} :
           holder' = [holder EXCEPT ![a].version = @ + 1, ![a].password = password]
    BY <1>5 DEF RevokeHolder
  <2> DEFINE r == [holder[a] EXCEPT !.version = @ + 1, !.password = password]
  <2>2. holder[a] \in HolderRow /\ holder \in [Account -> HolderRow]
    BY DEF StateIsTyped, LinkingTypeOK
  <2>3. r \in HolderRow /\ r.status = "ACTIVE" /\ r.email = holder[a].email
    <3>1. password \in BOOLEAN /\ holder[a].version \in 0..VersionBound
      BY <2>1, <2>2 DEF HolderRow
    <3>2. holder[a].version + 1 \in 0..VersionBound /\ holder[a].status = "ACTIVE"
      BY <1>5, <3>1, LinkingAssumption DEF RevokeHolder, MayRevoke, IsActive
    <3>3. r \in HolderRow
      BY <2>2, <3>1, <3>2 DEF HolderRow
    <3>4. QED
      BY <2>2, <3>2, <3>3 DEF HolderRow
  <2>4. holder' = [holder EXCEPT ![a] = r]
    BY <2>1, <2>2
  <2> HIDE DEF r
  <2>5. QED
    BY <1>5, <2>3, <2>4, OneRowTyped DEF RevokeHolder, flowHistory, StateIsTyped,
       LinkingTypeOK
<1>6. ASSUME NEW a \in Account, EraseHolder(a)
     PROVE  StateIsTyped'
  <2> DEFINE r == [Unused EXCEPT !.status = "erased", !.version = holder[a].version + 1]
  <2>1. holder[a].version \in 0..VersionBound
    BY DEF StateIsTyped, LinkingTypeOK, HolderRow
  <2>2. r \in HolderRow /\ r.status = "erased" /\ r.email = NoOne
    <3>1. holder[a].version + 1 \in 0..VersionBound
      BY <1>6, <2>1, LinkingAssumption DEF EraseHolder, MayRevoke
    <3>2. QED
      BY <3>1, UnusedIsARow DEF HolderRow
  <2>3. holder' = [holder EXCEPT ![a] = r]
    BY <1>6 DEF EraseHolder
  <2>4. linked' \in [Identity -> Account \cup {NoOne}]
    BY <1>6, SeverKeepsOthers DEF EraseHolder
  <2> HIDE DEF r
  <2>5. QED
    BY <1>6, <2>2, <2>3, <2>4, OneRowTyped DEF EraseHolder, StateIsTyped, LinkingTypeOK
<1>7. ASSUME NEW b \in Browser, LeaveForGoogle(b)
     PROVE  StateIsTyped'
  BY <1>7, RowsStandTyped DEF LeaveForGoogle, StateIsTyped, LinkingTypeOK
<1>8. ASSUME NEW a \in Account, NEW b \in Browser, ConnectGoogle(b, a)
     PROVE  StateIsTyped'
  BY <1>8, RowsStandTyped DEF ConnectGoogle, flowHistory, Cookie, StateIsTyped,
     LinkingTypeOK, HolderRow
<1>9. ASSUME NEW b \in Browser, CookieExpires(b)
     PROVE  StateIsTyped'
  BY <1>9, RowsStandTyped DEF CookieExpires, flowHistory, StateIsTyped, LinkingTypeOK
<1>10. ASSUME NEW b \in Browser, NEW g \in Identity, GoogleReturn(b, g)
     PROVE  StateIsTyped'
  <2>1. connectCookie[b] # NoOne => connectCookie[b] \in Cookie
    BY DEF StateIsTyped
  <2>2. \E f \in FlowStep : Proceed(b, f)
    <3>1. CASE connectCookie[b] = NoOne
      <4>1. Proceed(b, [pc |-> "decide", as |-> g])
        BY <1>10, <3>1 DEF GoogleReturn
      <4>2. QED
        BY <4>1 DEF FlowStep, PlainFlow
    <3>2. CASE connectCookie[b] # NoOne
      <4>1. Proceed(b, [pc |-> "connect", as |-> g, cookie |-> connectCookie[b]])
        BY <1>10, <3>2 DEF GoogleReturn
      <4>2. QED
        BY <2>1, <3>2, <4>1 DEF FlowStep, ConnectFlow
    <3>3. QED
      BY <3>1, <3>2
  <2>3. flow' \in [Browser -> FlowStep]
    BY <2>2, OneProceeds DEF StateIsTyped
  <2>4. QED
    BY <1>10, <2>3, LinkingAssumption, RowsStandTyped DEF GoogleReturn, StateIsTyped,
       LinkingTypeOK
<1>11. ASSUME NEW b \in Browser, CheckConnect(b)
     PROVE  StateIsTyped'
  <2>1. flow[b] \in FlowStep
    BY DEF StateIsTyped
  <2>2. flow[b].as \in Identity
    BY <1>11, <2>1, KindOfFlow DEF CheckConnect, FlowAt
  <2>3. \E f \in FlowStep : Proceed(b, f)
    BY <1>11, <2>1, <2>2, KindOfFlow, FlowsOfAKind DEF CheckConnect, FlowAt, Cookie
  <2>4. flow' \in [Browser -> FlowStep]
    BY <2>3, OneProceeds DEF StateIsTyped
  <2>5. QED
    BY <1>11, <2>4, RowsStandTyped DEF CheckConnect, flowHistory, StateIsTyped,
       LinkingTypeOK
<1>12. ASSUME NEW b \in Browser, DecideLinking(b)
     PROVE  StateIsTyped'
  <2>1. flow[b] \in FlowStep
    BY DEF StateIsTyped
  <2>2. flow[b].as \in Identity
    BY <1>12, <2>1, KindOfFlow DEF DecideLinking, FlowAt
  <2>3. \E f \in FlowStep : Proceed(b, f)
    <3>1. PICK f : Proceed(b, f) /\ \/ f = NoFlow
                                    \/ f = [pc |-> "look up", as |-> flow[b].as]
                                    \/ \E a \in Account :
                                           f = [pc |-> "join", as |-> flow[b].as, to |-> a,
                                                next |-> [pc |-> "find user", as |-> flow[b].as]]
      BY <1>12 DEF DecideLinking, WithMail
    <3>2. f \in FlowStep
      <4>1. CASE f = NoFlow
        BY <4>1 DEF FlowStep
      <4>2. CASE f = [pc |-> "look up", as |-> flow[b].as]
        BY <2>2, <4>2 DEF FlowStep, PlainFlow
      <4>3. ASSUME NEW a \in Account,
                   f = [pc |-> "join", as |-> flow[b].as, to |-> a,
                        next |-> [pc |-> "find user", as |-> flow[b].as]]
            PROVE  f \in FlowStep
        BY <2>2, <4>3, FlowsOfAKind
      <4>4. QED
        BY <3>1, <4>1, <4>2, <4>3
    <3>3. QED
      BY <3>1, <3>2
  <2>4. flow' \in [Browser -> FlowStep]
    BY <2>3, OneProceeds DEF StateIsTyped
  <2>5. QED
    BY <1>12, <2>4, RowsStandTyped DEF DecideLinking, flowHistory, StateIsTyped,
       LinkingTypeOK
<1>13. ASSUME NEW b \in Browser, LinkGoogleAccount(b)
     PROVE  StateIsTyped'
  <2>1. flow[b] \in FlowStep /\ flow[b].as \in Identity /\ flow[b].to \in Account
        /\ flow[b].next \in FlowStep
    BY <1>13, KindOfFlow DEF LinkGoogleAccount, FlowAt, StateIsTyped, FlowStep
  <2>2. PICK f \in FlowStep : Proceed(b, f)
    BY <1>13, <2>1 DEF LinkGoogleAccount, FlowStep
  <2>3. flow' \in [Browser -> FlowStep]
    BY <2>2, OneProceeds DEF StateIsTyped
  <2>4. linked' \in [Identity -> Account \cup {NoOne}]
    BY <1>13, <2>1 DEF LinkGoogleAccount, StateIsTyped, LinkingTypeOK
  <2>5. QED
    BY <1>13, <2>3, <2>4 DEF LinkGoogleAccount, flowHistory, StateIsTyped,
       LinkingTypeOK, HolderRow
<1>14. ASSUME NEW b \in Browser, LookUp(b)
     PROVE  StateIsTyped'
  <2>1. flow[b] \in FlowStep
    BY DEF StateIsTyped
  <2>2. flow[b].as \in Identity
    BY <1>14, <2>1, KindOfFlow DEF LookUp, FlowAt
  <2>3. \E f \in FlowStep : Proceed(b, f)
    BY <1>14, <2>2 DEF LookUp, FlowStep, PlainFlow
  <2>4. flow' \in [Browser -> FlowStep]
    BY <2>3, OneProceeds DEF StateIsTyped
  <2>5. QED
    BY <1>14, <2>4, RowsStandTyped DEF LookUp, flowHistory, StateIsTyped, LinkingTypeOK
<1>15. ASSUME NEW b \in Browser, FindUser(b)
     PROVE  StateIsTyped'
  <2>1. flow[b] \in FlowStep
    BY DEF StateIsTyped
  <2>2. flow[b].as \in Identity
    BY <1>15, <2>1, KindOfFlow DEF FindUser, FlowAt
  <2>3. \E f \in FlowStep : Proceed(b, f)
    BY <1>15, <2>2 DEF FindUser, FlowStep, PlainFlow
  <2>4. flow' \in [Browser -> FlowStep]
    BY <2>3, OneProceeds DEF StateIsTyped
  <2>5. QED
    BY <1>15, <2>4, RowsStandTyped DEF FindUser, flowHistory, StateIsTyped, LinkingTypeOK
<1>16. ASSUME NEW a \in Account, NEW b \in Browser, CreateUserOf(b, a)
     PROVE  StateIsTyped'
  <2>1. flow[b] \in FlowStep /\ flow[b].as \in Identity
    BY <1>16, KindOfFlow DEF CreateUserOf, FlowAt, StateIsTyped
  <2>2. PICK f \in FlowStep : Proceed(b, f)
    BY <1>16, <2>1, FlowsOfAKind DEF CreateUserOf
  <2>3. flow' \in [Browser -> FlowStep]
    BY <2>2, OneProceeds DEF StateIsTyped
  <2> DEFINE m == GoogleMail[flow[b].as]
             r == [Unused EXCEPT !.status = "ACTIVE", !.email = m, !.verified = flow[b].as \in vouched]
  <2>4. CASE WithMail(m) # {}
    BY <1>16, <2>3, <2>4, RowsStandTyped DEF CreateUserOf, StateIsTyped, LinkingTypeOK
  <2>5. CASE WithMail(m) = {}
    <3>1. r \in HolderRow
      <4>1. m \in Mailbox
        BY <2>1, LinkingAssumption
      <4>2. /\ [Unused EXCEPT !.status = "ACTIVE", !.email = m, !.verified = TRUE] \in HolderRow
            /\ [Unused EXCEPT !.status = "ACTIVE", !.email = m, !.verified = FALSE] \in HolderRow
        BY <4>1, UnusedIsARow DEF HolderRow
      <4>3. CASE flow[b].as \in vouched
        <5>1. (flow[b].as \in vouched) = TRUE
          BY <4>3
        <5>2. QED
          BY <4>2, <5>1
      <4>4. CASE flow[b].as \notin vouched
        <5>1. (flow[b].as \in vouched) = FALSE
          BY <4>4
        <5>2. QED
          BY <4>2, <5>1
      <4>5. QED
        BY <4>3, <4>4
    <3>2. r.status = "ACTIVE" /\ r.email = m /\ \A c \in Account : holder[c].email # m
      BY <2>5, UnusedIsARow DEF HolderRow, WithMail
    <3>3. holder' = [holder EXCEPT ![a] = r] /\ bornOf' = [bornOf EXCEPT ![a] = flow[b].as]
      BY <1>16, <2>5 DEF CreateUserOf
    <3>4. UNCHANGED <<linked, connectCookie, consentCookie, removal, returns>>
      BY <1>16 DEF CreateUserOf
    <3> HIDE DEF r
    <3>5. QED
      BY <2>1, <2>3, <3>1, <3>2, <3>3, <3>4 DEF StateIsTyped, LinkingTypeOK
  <2>6. QED
    BY <2>4, <2>5
<1>17. ASSUME NEW b \in Browser, LinkNewUser(b)
     PROVE  StateIsTyped'
  <2>1. flow[b] \in FlowStep /\ flow[b].as \in Identity /\ flow[b].to \in Account
    BY <1>17, KindOfFlow DEF LinkNewUser, FlowAt, StateIsTyped
  <2>2. NoFlow \in FlowStep /\ Proceed(b, NoFlow)
    BY <1>17 DEF LinkNewUser, FlowStep
  <2>3. flow' \in [Browser -> FlowStep]
    BY <2>2, OneProceeds DEF StateIsTyped
  <2>4. linked' \in [Identity -> Account \cup {NoOne}]
    BY <1>17, <2>1 DEF LinkNewUser, StateIsTyped, LinkingTypeOK
  <2>5. QED
    BY <1>17, <2>3, <2>4 DEF LinkNewUser, StateIsTyped, LinkingTypeOK, HolderRow
<1>18. ASSUME NEW a \in Account, AskToDisconnect(a)
     PROVE  StateIsTyped'
  BY <1>18 DEF AskToDisconnect, flowHistory, StateIsTyped, LinkingTypeOK, HolderRow
<1>19. ASSUME NEW a \in Account, Disconnect(a)
     PROVE  StateIsTyped'
  BY <1>19, SeverKeepsOthers DEF Disconnect, StateIsTyped, LinkingTypeOK, HolderRow
<1>20. CASE UNCHANGED linkingVars
  BY <1>20 DEF linkingVars, StateIsTyped, LinkingTypeOK, HolderRow
<1>21. QED
  BY <1>1, <1>2, <1>3, <1>4, <1>5, <1>6, <1>7, <1>8, <1>9, <1>10, <1>11, <1>12, <1>13,
     <1>14, <1>15, <1>16, <1>17, <1>18, <1>19, <1>20 DEF LinkingNext

---------------------------------------------------------------------------
(* Histories only grow                                                     *)

HistoriesGrow ==
    /\ vouched' = vouched /\ wanted \subseteq wanted' /\ verifiedAs \subseteq verifiedAs'
    /\ severed \subseteq severed' /\ bereft \subseteq bereft' /\ (agreed => agreed')
    /\ \A a \in Account : bornOf[a] # NoOne => bornOf'[a] = bornOf[a]

LEMMA HistoriesStep ==
    ASSUME StateIsTyped, [LinkingNext]_linkingVars
    PROVE  HistoriesGrow
<1>1. ASSUME NEW a \in Account, NEW m \in Mailbox, RegisterHolder(a, m)
     PROVE  HistoriesGrow
  BY <1>1 DEF RegisterHolder, flowHistory, HistoriesGrow
<1>2. ASSUME NEW a \in Account, VerifyHolder(a)
     PROVE  HistoriesGrow
  BY <1>2 DEF VerifyHolder, flowHistory, HistoriesGrow
<1>3. ASSUME NEW a \in Account, NEW m \in Mailbox, MoveHolder(a, m)
     PROVE  HistoriesGrow
  BY <1>3 DEF MoveHolder, flowHistory, HistoriesGrow
<1>4. ASSUME NEW a \in Account, SuspendHolder(a)
     PROVE  HistoriesGrow
  BY <1>4 DEF SuspendHolder, flowHistory, HistoriesGrow
<1>5. ASSUME NEW a \in Account, RevokeHolder(a)
     PROVE  HistoriesGrow
  BY <1>5 DEF RevokeHolder, flowHistory, HistoriesGrow
<1>6. ASSUME NEW a \in Account, EraseHolder(a)
     PROVE  HistoriesGrow
  BY <1>6, SeverKeepsOthers DEF EraseHolder, HistoriesGrow
<1>7. ASSUME NEW b \in Browser, LeaveForGoogle(b)
     PROVE  HistoriesGrow
  BY <1>7 DEF LeaveForGoogle, flowHistory, HistoriesGrow
<1>8. ASSUME NEW a \in Account, NEW b \in Browser, ConnectGoogle(b, a)
     PROVE  HistoriesGrow
  BY <1>8 DEF ConnectGoogle, flowHistory, HistoriesGrow
<1>9. ASSUME NEW b \in Browser, CookieExpires(b)
     PROVE  HistoriesGrow
  BY <1>9 DEF CookieExpires, flowHistory, HistoriesGrow
<1>10. ASSUME NEW b \in Browser, NEW g \in Identity, GoogleReturn(b, g)
     PROVE  HistoriesGrow
  BY <1>10 DEF GoogleReturn, flowHistory, HistoriesGrow
<1>11. ASSUME NEW b \in Browser, CheckConnect(b)
     PROVE  HistoriesGrow
  BY <1>11 DEF CheckConnect, flowHistory, HistoriesGrow
<1>12. ASSUME NEW b \in Browser, DecideLinking(b)
     PROVE  HistoriesGrow
  BY <1>12 DEF DecideLinking, flowHistory, HistoriesGrow
<1>13. ASSUME NEW b \in Browser, LinkGoogleAccount(b)
     PROVE  HistoriesGrow
  BY <1>13 DEF LinkGoogleAccount, flowHistory, HistoriesGrow
<1>14. ASSUME NEW b \in Browser, LookUp(b)
     PROVE  HistoriesGrow
  BY <1>14 DEF LookUp, flowHistory, HistoriesGrow
<1>15. ASSUME NEW b \in Browser, FindUser(b)
     PROVE  HistoriesGrow
  BY <1>15 DEF FindUser, flowHistory, HistoriesGrow
<1>16. ASSUME NEW a \in Account, NEW b \in Browser, CreateUserOf(b, a)
     PROVE  HistoriesGrow
  BY <1>16 DEF CreateUserOf, StateIsTyped, HistoriesGrow
<1>17. ASSUME NEW b \in Browser, LinkNewUser(b)
     PROVE  HistoriesGrow
  BY <1>17 DEF LinkNewUser, flowHistory, HistoriesGrow
<1>18. ASSUME NEW a \in Account, AskToDisconnect(a)
     PROVE  HistoriesGrow
  BY <1>18 DEF AskToDisconnect, flowHistory, HistoriesGrow
<1>19. ASSUME NEW a \in Account, Disconnect(a)
     PROVE  HistoriesGrow
  BY <1>19, SeverKeepsOthers DEF Disconnect, HistoriesGrow
<1>20. CASE UNCHANGED linkingVars
  BY <1>20 DEF linkingVars, HistoriesGrow
<1>21. QED
  BY <1>1, <1>2, <1>3, <1>4, <1>5, <1>6, <1>7, <1>8, <1>9, <1>10, <1>11, <1>12, <1>13,
     <1>14, <1>15, <1>16, <1>17, <1>18, <1>19, <1>20 DEF LinkingNext

---------------------------------------------------------------------------
(* Every link has its ground                                               *)

LEMMA GroundStays ==
    ASSUME HistoriesGrow, NEW g \in Identity, NEW a \in Account, Ground(g, a)
    PROVE  Ground(g, a)'
BY LinkingAssumption DEF HistoriesGrow, Ground

LEMMA GroundOfStandingReturn ==
    ASSUME StateIsTyped, HistoriesGrow, ReturnsHaveGround, NEW c \in Browser, flow'[c] = flow[c]
    PROVE  /\ FlowAt(c, "connect")' => <<flow'[c].cookie.account, flow'[c].as>> \in wanted'
           /\ FlowAt(c, "join")' \/ FlowAt(c, "link user")' => Ground(flow[c].as, flow[c].to)'
<1>1. flow[c] \in FlowStep
  BY DEF StateIsTyped
<1>2. flow[c].pc \in {"join", "link user"} => flow[c].as \in Identity /\ flow[c].to \in Account
  BY <1>1, KindOfFlow
<1>3. FlowAt(c, "join") \/ FlowAt(c, "link user") => Ground(flow[c].as, flow[c].to)
  BY DEF ReturnsHaveGround
<1>4. FlowAt(c, "connect") => <<flow[c].cookie.account, flow[c].as>> \in wanted'
  BY DEF ReturnsHaveGround, HistoriesGrow
<1>5. ASSUME FlowAt(c, "join") \/ FlowAt(c, "link user")
      PROVE  (Ground(flow[c].as, flow[c].to))'
  <2>1. PICK g \in Identity, a \in Account : g = flow[c].as /\ a = flow[c].to
    BY <1>2, <1>5 DEF FlowAt
  <2>2. Ground(g, a)
    BY <1>3, <1>5, <2>1
  <2>3. (Ground(g, a))'
    BY <2>2, GroundStays
  <2>4. QED
    BY <2>1, <2>3 DEF Ground
<1>6. QED
  BY <1>4, <1>5 DEF FlowAt

LEMMA ReturnsStand ==
    ASSUME StateIsTyped, HistoriesGrow, ReturnsHaveGround, UNCHANGED flow
    PROVE  ReturnsHaveGround'
<1> SUFFICES ASSUME NEW c \in Browser
             PROVE  /\ FlowAt(c, "connect")' => <<flow'[c].cookie.account, flow'[c].as>> \in wanted'
                    /\ FlowAt(c, "join")' \/ FlowAt(c, "link user")' => Ground(flow[c].as, flow[c].to)'
  BY DEF ReturnsHaveGround
<1> QED
  BY GroundOfStandingReturn

LEMMA OneReturnGoesOn ==
    ASSUME StateIsTyped, HistoriesGrow, ReturnsHaveGround,
           NEW b \in Browser, NEW f \in FlowStep, Proceed(b, f),
           f.pc = "connect" => <<f.cookie.account, f.as>> \in wanted',
           f.pc \in {"join", "link user"} => Ground(f.as, f.to)'
    PROVE  ReturnsHaveGround'
<1> SUFFICES ASSUME NEW c \in Browser
             PROVE  /\ FlowAt(c, "connect")' => <<flow'[c].cookie.account, flow'[c].as>> \in wanted'
                    /\ FlowAt(c, "join")' \/ FlowAt(c, "link user")' => Ground(flow[c].as, flow[c].to)'
  BY DEF ReturnsHaveGround
<1>1. flow'[b] = f /\ (c # b => flow'[c] = flow[c])
  BY OneProceeds DEF StateIsTyped
<1>2. CASE c = b
  BY <1>1, <1>2 DEF FlowAt, Ground
<1>3. CASE c # b
  BY <1>1, <1>3, GroundOfStandingReturn
<1>4. QED
  BY <1>2, <1>3

\* A return that stops, or goes on without a link in hand.
LEMMA OneReturnEmptyHanded ==
    ASSUME StateIsTyped, HistoriesGrow, ReturnsHaveGround,
           NEW b \in Browser, NEW f \in {NoFlow} \cup PlainFlow, Proceed(b, f)
    PROVE  ReturnsHaveGround'
BY PlainFlowsArePlain, OneReturnGoesOn

LEMMA LinksStand ==
    ASSUME StateIsTyped, HistoriesGrow, LinksHaveGround,
           \A g \in Identity : linked'[g] # NoOne => linked'[g] = linked[g]
    PROVE  LinksHaveGround'
<1> SUFFICES ASSUME NEW g \in Identity, linked'[g] # NoOne
             PROVE  Ground(g, linked[g])'
  BY DEF LinksHaveGround
<1>1. linked'[g] = linked[g] /\ linked[g] \in Account /\ Ground(g, linked[g])
  BY DEF LinksHaveGround, StateIsTyped, LinkingTypeOK
<1>2. PICK a \in Account : a = linked[g]
  BY <1>1
<1>3. Ground(g, a)'
  BY <1>1, <1>2, GroundStays
<1>4. QED
  BY <1>1, <1>2, <1>3 DEF Ground

LEMMA OneLinkIsMade ==
    ASSUME StateIsTyped, HistoriesGrow, LinksHaveGround, NEW i \in Identity, NEW a \in Account,
           linked' = [linked EXCEPT ![i] = a], Ground(i, a)'
    PROVE  LinksHaveGround'
<1> SUFFICES ASSUME NEW g \in Identity, linked'[g] # NoOne
             PROVE  Ground(g, linked[g])'
  BY DEF LinksHaveGround
<1>1. linked'[i] = a /\ (g # i => linked'[g] = linked[g])
  BY DEF StateIsTyped, LinkingTypeOK
<1>2. CASE g = i
  BY <1>1, <1>2 DEF Ground
<1>3. CASE g # i
  <2>1. linked[g] \in Account /\ Ground(g, linked[g])
    BY <1>1, <1>3 DEF LinksHaveGround, StateIsTyped, LinkingTypeOK
  <2>2. PICK c \in Account : c = linked[g]
    BY <2>1
  <2>3. Ground(g, c)'
    BY <2>1, <2>2, GroundStays
  <2>4. QED
    BY <1>1, <1>3, <2>2, <2>3 DEF Ground
<1>4. QED
  BY <1>2, <1>3

\* Whatever marks an address as verified writes down that it was proved.
LEMMA VerifiedIsProvenStep ==
    ASSUME StateIsTyped, VerifiedHoldersAreProven, [LinkingNext]_linkingVars
    PROVE  VerifiedHoldersAreProven'
<1>0. HistoriesGrow
  BY HistoriesStep
<1>1. ASSUME NEW a \in Account, NEW m \in Mailbox, RegisterHolder(a, m)
     PROVE  VerifiedHoldersAreProven'
  BY <1>1, UnusedIsARow DEF RegisterHolder, flowHistory, VerifiedHoldersAreProven, StateIsTyped,
     LinkingTypeOK
<1>2. ASSUME NEW a \in Account,
           \/ VerifyHolder(a) \/ SuspendHolder(a)
     PROVE  VerifiedHoldersAreProven'
  BY <1>2 DEF VerifyHolder, SuspendHolder, flowHistory, VerifiedHoldersAreProven, StateIsTyped,
     LinkingTypeOK, HolderRow
<1>3. ASSUME NEW a \in Account, NEW m \in Mailbox, MoveHolder(a, m)
     PROVE  VerifiedHoldersAreProven'
  BY <1>3 DEF MoveHolder, flowHistory, VerifiedHoldersAreProven, StateIsTyped, LinkingTypeOK,
     HolderRow
<1>4. ASSUME NEW a \in Account, RevokeHolder(a)
     PROVE  VerifiedHoldersAreProven'
  <2>1. PICK password \in {holder[a].password, TRUE} :
           holder' = [holder EXCEPT ![a].version = @ + 1, ![a].password = password]
    BY <1>4 DEF RevokeHolder
  <2>2. \A c \in Account : holder'[c].verified = holder[c].verified /\ holder'[c].email = holder[c].email
    BY <2>1 DEF StateIsTyped, LinkingTypeOK, HolderRow
  <2>3. QED
    BY <1>4, <2>2 DEF RevokeHolder, flowHistory, VerifiedHoldersAreProven
<1>5. ASSUME NEW a \in Account, EraseHolder(a)
     PROVE  VerifiedHoldersAreProven'
  BY <1>5, UnusedIsARow DEF EraseHolder, VerifiedHoldersAreProven, StateIsTyped, LinkingTypeOK
<1>6. ASSUME NEW b \in Browser,
           \/ LeaveForGoogle(b) \/ CookieExpires(b) \/ CheckConnect(b)
           \/ DecideLinking(b) \/ LinkGoogleAccount(b)
     PROVE  VerifiedHoldersAreProven'
  BY <1>6 DEF LeaveForGoogle, CookieExpires, CheckConnect, DecideLinking,
     LinkGoogleAccount, flowHistory, VerifiedHoldersAreProven
<1>7. ASSUME NEW a \in Account, NEW b \in Browser, ConnectGoogle(b, a)
     PROVE  VerifiedHoldersAreProven'
  BY <1>7 DEF ConnectGoogle, flowHistory, VerifiedHoldersAreProven
<1>8. ASSUME NEW b \in Browser, NEW g \in Identity, GoogleReturn(b, g)
     PROVE  VerifiedHoldersAreProven'
  BY <1>8 DEF GoogleReturn, flowHistory, VerifiedHoldersAreProven
<1>9. ASSUME NEW b \in Browser,
           \/ LookUp(b) \/ FindUser(b) \/ LinkNewUser(b)
     PROVE  VerifiedHoldersAreProven'
  BY <1>9 DEF LookUp, FindUser, LinkNewUser, flowHistory, VerifiedHoldersAreProven
<1>10. ASSUME NEW a \in Account, NEW b \in Browser, CreateUserOf(b, a)
     PROVE  VerifiedHoldersAreProven'
  <2> DEFINE m == GoogleMail[flow[b].as]
             r == [Unused EXCEPT !.status = "ACTIVE", !.email = m, !.verified = flow[b].as \in vouched]
  <2>1. CASE WithMail(m) # {}
    BY <1>10, <2>1 DEF CreateUserOf, VerifiedHoldersAreProven
  <2>2. CASE WithMail(m) = {}
    <3>1. r.verified = (flow[b].as \in vouched) /\ r.email = m
      BY UnusedIsARow DEF HolderRow
    <3>2. /\ holder' = [holder EXCEPT ![a] = r]
          /\ verifiedAs' = verifiedAs \cup (IF flow[b].as \in vouched THEN {<<a, m>>} ELSE {})
      BY <1>10, <2>2 DEF CreateUserOf
    <3> HIDE DEF r
    <3>3. QED
      BY <3>1, <3>2 DEF VerifiedHoldersAreProven, StateIsTyped, LinkingTypeOK
  <2>3. QED
    BY <2>1, <2>2
<1>11. ASSUME NEW a \in Account,
           \/ AskToDisconnect(a) \/ Disconnect(a)
     PROVE  VerifiedHoldersAreProven'
  BY <1>11 DEF AskToDisconnect, Disconnect, flowHistory, VerifiedHoldersAreProven
<1>12. CASE UNCHANGED linkingVars
  BY <1>12 DEF linkingVars, VerifiedHoldersAreProven
<1>13. QED
  BY <1>1, <1>2, <1>3, <1>4, <1>5, <1>6, <1>7, <1>8, <1>9, <1>10, <1>11, <1>12 DEF
     LinkingNext

LEMMA ReturnsHaveGroundStep ==
    ASSUME StateIsTyped, VerifiedHoldersAreProven, ReturnsHaveGround, [LinkingNext]_linkingVars
    PROVE  ReturnsHaveGround'
<1>0. HistoriesGrow
  BY HistoriesStep
<1>1. ASSUME NEW a \in Account, NEW m \in Mailbox,
           \/ RegisterHolder(a, m) \/ MoveHolder(a, m)
     PROVE  ReturnsHaveGround'
  BY <1>1, <1>0, ReturnsStand DEF RegisterHolder, MoveHolder, flowHistory
<1>2. ASSUME NEW a \in Account,
           \/ VerifyHolder(a) \/ SuspendHolder(a) \/ RevokeHolder(a) \/ EraseHolder(a)
           \/ AskToDisconnect(a)
     PROVE  ReturnsHaveGround'
  BY <1>2, <1>0, ReturnsStand DEF VerifyHolder, SuspendHolder, RevokeHolder, EraseHolder,
     AskToDisconnect, flowHistory
<1>3. ASSUME NEW b \in Browser,
           \/ LeaveForGoogle(b) \/ CookieExpires(b)
     PROVE  ReturnsHaveGround'
  BY <1>3, <1>0, ReturnsStand DEF LeaveForGoogle, CookieExpires, flowHistory
<1>4. ASSUME NEW a \in Account, NEW b \in Browser, ConnectGoogle(b, a)
     PROVE  ReturnsHaveGround'
  BY <1>4, <1>0, ReturnsStand DEF ConnectGoogle, flowHistory
<1>5. ASSUME NEW b \in Browser, NEW g \in Identity, GoogleReturn(b, g)
     PROVE  ReturnsHaveGround'
  <2>1. CASE connectCookie[b] = NoOne
    BY <1>0, <1>5, <2>1, OneReturnEmptyHanded, PlainFlows DEF GoogleReturn
  <2>2. CASE connectCookie[b] # NoOne
    <3>1. PICK k \in Cookie : k = connectCookie[b]
      BY <2>2 DEF StateIsTyped
    <3>2. PICK f : f = [pc |-> "connect", as |-> g, cookie |-> k]
      OBVIOUS
    <3>3. Proceed(b, f) /\ <<k.account, g>> \in wanted'
      BY <1>5, <2>2, <3>1, <3>2 DEF GoogleReturn
    <3>4. f \in FlowStep /\ f.pc = "connect" /\ f.cookie = k /\ f.as = g
      BY <3>2 DEF FlowStep, ConnectFlow
    <3>5. QED
      BY <1>0, <3>3, <3>4, OneReturnGoesOn
  <2>3. QED
    BY <2>1, <2>2
<1>6. ASSUME NEW b \in Browser, CheckConnect(b)
     PROVE  ReturnsHaveGround'
  <2>1. PICK i \in Identity, owner \in Account : i = flow[b].as /\ owner = flow[b].cookie.account
    BY <1>6, KindOfFlow DEF CheckConnect, FlowAt, StateIsTyped, Cookie
  <2>2. <<owner, i>> \in wanted'
    BY <1>0, <1>6, <2>1 DEF CheckConnect, ReturnsHaveGround, HistoriesGrow
  <2>3. PICK f : f = [pc |-> "join", as |-> i, to |-> owner, next |-> NoFlow]
    OBVIOUS
  <2>4. f \in FlowStep /\ f.pc = "join" /\ f.as = i /\ f.to = owner
    BY <2>3, FlowsOfAKind
  <2>5. Ground(f.as, f.to)'
    BY <2>2, <2>4 DEF Ground
  <2>6. CASE Proceed(b, NoFlow)
    BY <1>0, <2>6, OneReturnEmptyHanded
  <2>7. CASE Proceed(b, f)
    BY <1>0, <2>4, <2>5, <2>7, OneReturnGoesOn
  <2>8. QED
    BY <1>6, <2>1, <2>3, <2>6, <2>7 DEF CheckConnect
<1>7. ASSUME NEW b \in Browser, DecideLinking(b)
     PROVE  ReturnsHaveGround'
  <2>1. PICK i \in Identity : i = flow[b].as
    BY <1>7, KindOfFlow DEF DecideLinking, FlowAt, StateIsTyped
  <2> DEFINE join(a) == [pc |-> "join", as |-> i, to |-> a, next |-> [pc |-> "find user", as |-> i]]
  <2>2. \/ Proceed(b, NoFlow)
        \/ Proceed(b, [pc |-> "look up", as |-> i])
        \/ \E a \in Account : holder[a].email = GoogleMail[i] /\ MayJoin(i, a) /\ Proceed(b, join(a))
    BY <1>7, <2>1 DEF DecideLinking, WithMail
  <2>3. CASE Proceed(b, NoFlow) \/ Proceed(b, [pc |-> "look up", as |-> i])
    BY <1>0, <2>3, OneReturnEmptyHanded, PlainFlows
  <2>4. ASSUME NEW a \in Account, holder[a].email = GoogleMail[i], MayJoin(i, a), Proceed(b, join(a))
        PROVE  ReturnsHaveGround'
    <3>1. i \in vouched /\ <<a, GoogleMail[i]>> \in verifiedAs
      BY <2>4 DEF MayJoin, VerifiedHoldersAreProven
    <3>2. PICK f \in FlowStep : f = join(a)
      BY FlowsOfAKind
    <3>3. f.pc = "join" /\ f.as = i /\ f.to = a
      BY <3>2
    <3>4. Ground(f.as, f.to)'
      BY <1>0, <3>1, <3>3 DEF Ground, HistoriesGrow
    <3> HIDE DEF join
    <3>5. QED
      BY <1>0, <2>4, <3>2, <3>3, <3>4, OneReturnGoesOn
  <2>5. QED
    BY <2>2, <2>3, <2>4
<1>8. ASSUME NEW b \in Browser, LinkGoogleAccount(b)
     PROVE  ReturnsHaveGround'
  <2>1. flow[b] \in FlowStep /\ FlowAt(b, "join")
    BY <1>8 DEF LinkGoogleAccount, StateIsTyped
  <2>2. flow[b].next \in {NoFlow} \cup PlainFlow
    BY <2>1, KindOfFlow DEF FlowAt
  <2>3. Proceed(b, NoFlow) \/ Proceed(b, flow[b].next)
    BY <1>8 DEF LinkGoogleAccount
  <2>4. QED
    BY <1>0, <2>2, <2>3, OneReturnEmptyHanded
<1>9. ASSUME NEW b \in Browser, LookUp(b)
     PROVE  ReturnsHaveGround'
  <2>1. PICK i \in Identity : i = flow[b].as
    BY <1>9, KindOfFlow DEF LookUp, FlowAt, StateIsTyped
  <2>2. Proceed(b, NoFlow) \/ Proceed(b, [pc |-> "find user", as |-> i])
    BY <1>9, <2>1 DEF LookUp
  <2>3. QED
    BY <1>0, <2>2, OneReturnEmptyHanded, PlainFlows
<1>10. ASSUME NEW b \in Browser, FindUser(b)
     PROVE  ReturnsHaveGround'
  <2>1. PICK i \in Identity : i = flow[b].as
    BY <1>10, KindOfFlow DEF FindUser, FlowAt, StateIsTyped
  <2>2. Proceed(b, NoFlow) \/ Proceed(b, [pc |-> "create user", as |-> i])
    BY <1>10, <2>1 DEF FindUser
  <2>3. QED
    BY <1>0, <2>2, OneReturnEmptyHanded, PlainFlows
<1>11. ASSUME NEW a \in Account, NEW b \in Browser, CreateUserOf(b, a)
     PROVE  ReturnsHaveGround'
  <2>1. PICK i \in Identity : i = flow[b].as
    BY <1>11, KindOfFlow DEF CreateUserOf, FlowAt, StateIsTyped
  <2>2. CASE Proceed(b, NoFlow)
    BY <1>0, <2>2, OneReturnEmptyHanded
  <2>3. PICK f : f = [pc |-> "link user", as |-> i, to |-> a]
    OBVIOUS
  <2>4. CASE Proceed(b, f) /\ bornOf' = [bornOf EXCEPT ![a] = i]
    <3>1. f \in FlowStep /\ f.pc = "link user" /\ f.as = i /\ f.to = a
      BY <2>3, FlowsOfAKind
    <3>2. Ground(f.as, f.to)'
      BY <2>4, <3>1 DEF Ground, StateIsTyped
    <3>3. QED
      BY <1>0, <2>4, <3>1, <3>2, OneReturnGoesOn
  <2>5. QED
    BY <1>11, <2>1, <2>2, <2>3, <2>4 DEF CreateUserOf
<1>12. ASSUME NEW b \in Browser, LinkNewUser(b)
     PROVE  ReturnsHaveGround'
  <2>1. Proceed(b, NoFlow)
    BY <1>12 DEF LinkNewUser
  <2>2. QED
    BY <1>0, <2>1, OneReturnEmptyHanded
<1>13. ASSUME NEW a \in Account, Disconnect(a)
     PROVE  ReturnsHaveGround'
  BY <1>13, <1>0, ReturnsStand DEF Disconnect, flowHistory
<1>14. CASE UNCHANGED linkingVars
  BY <1>0, <1>14, ReturnsStand DEF linkingVars
<1>15. QED
  BY <1>1, <1>2, <1>3, <1>4, <1>5, <1>6, <1>7, <1>8, <1>9, <1>10, <1>11, <1>12, <1>13,
     <1>14 DEF LinkingNext

LEMMA LinksHaveGroundStep ==
    ASSUME StateIsTyped, ReturnsHaveGround, LinksHaveGround, [LinkingNext]_linkingVars
    PROVE  LinksHaveGround'
<1>0. HistoriesGrow
  BY HistoriesStep
<1>1. ASSUME NEW a \in Account, NEW m \in Mailbox,
           \/ RegisterHolder(a, m) \/ MoveHolder(a, m)
     PROVE  LinksHaveGround'
  BY <1>1, <1>0, LinksStand DEF RegisterHolder, MoveHolder, flowHistory
<1>2. ASSUME NEW a \in Account,
           \/ VerifyHolder(a) \/ SuspendHolder(a) \/ RevokeHolder(a)
           \/ AskToDisconnect(a)
     PROVE  LinksHaveGround'
  BY <1>2, <1>0, LinksStand DEF VerifyHolder, SuspendHolder, RevokeHolder,
     AskToDisconnect, flowHistory
<1>3. ASSUME NEW a \in Account, EraseHolder(a)
     PROVE  LinksHaveGround'
  BY <1>3, <1>0, LinksStand, SeverKeepsOthers DEF EraseHolder
<1>4. ASSUME NEW b \in Browser,
           \/ LeaveForGoogle(b) \/ CookieExpires(b) \/ CheckConnect(b)
           \/ DecideLinking(b) \/ LookUp(b)
     PROVE  LinksHaveGround'
  BY <1>4, <1>0, LinksStand DEF LeaveForGoogle, CookieExpires, CheckConnect,
     DecideLinking, LookUp, flowHistory
<1>5. ASSUME NEW a \in Account, NEW b \in Browser,
           \/ ConnectGoogle(b, a) \/ CreateUserOf(b, a)
     PROVE  LinksHaveGround'
  BY <1>5, <1>0, LinksStand DEF ConnectGoogle, CreateUserOf, flowHistory
<1>6. ASSUME NEW b \in Browser, NEW g \in Identity, GoogleReturn(b, g)
     PROVE  LinksHaveGround'
  BY <1>6, <1>0, LinksStand DEF GoogleReturn, flowHistory
<1>7. ASSUME NEW b \in Browser, LinkGoogleAccount(b)
     PROVE  LinksHaveGround'
  <2>1. flow[b].as \in Identity /\ flow[b].to \in Account
    BY <1>7, KindOfFlow DEF LinkGoogleAccount, FlowAt, StateIsTyped
  <2>2. PICK i \in Identity, a \in Account : i = flow[b].as /\ a = flow[b].to
    BY <2>1
  <2>3. Ground(i, a)
    BY <1>7, <2>2 DEF LinkGoogleAccount, ReturnsHaveGround
  <2>4. Ground(i, a)'
    BY <1>0, <2>3, GroundStays
  <2>5. CASE linked' = [linked EXCEPT ![i] = a]
    BY <1>0, <2>4, <2>5, OneLinkIsMade
  <2>6. CASE UNCHANGED linked
    BY <1>0, <2>6, LinksStand
  <2>7. QED
    BY <1>7, <2>2, <2>5, <2>6 DEF LinkGoogleAccount
<1>8. ASSUME NEW b \in Browser, FindUser(b)
     PROVE  LinksHaveGround'
  BY <1>8, <1>0, LinksStand DEF FindUser, flowHistory
<1>9. ASSUME NEW b \in Browser, LinkNewUser(b)
     PROVE  LinksHaveGround'
  <2>1. flow[b].as \in Identity /\ flow[b].to \in Account
    BY <1>9, KindOfFlow DEF LinkNewUser, FlowAt, StateIsTyped
  <2>2. PICK i \in Identity, a \in Account : i = flow[b].as /\ a = flow[b].to
    BY <2>1
  <2>3. Ground(i, a)
    BY <1>9, <2>2 DEF LinkNewUser, ReturnsHaveGround
  <2>4. Ground(i, a)'
    BY <1>0, <2>3, GroundStays
  <2>5. CASE linked' = [linked EXCEPT ![i] = a]
    BY <1>0, <2>4, <2>5, OneLinkIsMade
  <2>6. CASE UNCHANGED linked
    BY <1>0, <2>6, LinksStand
  <2>7. QED
    BY <1>9, <2>2, <2>5, <2>6 DEF LinkNewUser
<1>10. ASSUME NEW a \in Account, Disconnect(a)
     PROVE  LinksHaveGround'
  BY <1>10, <1>0, LinksStand, SeverKeepsOthers DEF Disconnect
<1>11. CASE UNCHANGED linkingVars
  BY <1>0, <1>11, LinksStand DEF linkingVars
<1>12. QED
  BY <1>1, <1>2, <1>3, <1>4, <1>5, <1>6, <1>7, <1>8, <1>9, <1>10, <1>11 DEF LinkingNext

---------------------------------------------------------------------------
(* Links                                                                   *)

\* A link that is there is not written over, and one that is removed is
\* written down.
LinksLeaveTraces ==
    \A g \in Identity : linked'[g] # linked[g] =>
        linked[g] = NoOne \/ (linked'[g] = NoOne /\ g \in severed')

LEMMA LinksStep ==
    ASSUME StateIsTyped, [LinkingNext]_linkingVars
    PROVE  LinksLeaveTraces
<1>1. ASSUME NEW a \in Account, NEW m \in Mailbox,
           \/ RegisterHolder(a, m) \/ MoveHolder(a, m)
     PROVE  LinksLeaveTraces
  BY <1>1 DEF RegisterHolder, MoveHolder, flowHistory, LinksLeaveTraces
<1>2. ASSUME NEW a \in Account,
           \/ VerifyHolder(a) \/ SuspendHolder(a) \/ RevokeHolder(a)
           \/ AskToDisconnect(a)
     PROVE  LinksLeaveTraces
  BY <1>2 DEF VerifyHolder, SuspendHolder, RevokeHolder, AskToDisconnect, flowHistory,
     LinksLeaveTraces
<1>3. ASSUME NEW a \in Account,
           \/ EraseHolder(a) \/ Disconnect(a)
     PROVE  LinksLeaveTraces
  BY <1>3, SeverKeepsOthers DEF EraseHolder, Disconnect, LinksLeaveTraces
<1>4. ASSUME NEW b \in Browser,
           \/ LeaveForGoogle(b) \/ CookieExpires(b) \/ CheckConnect(b)
           \/ DecideLinking(b) \/ LookUp(b)
     PROVE  LinksLeaveTraces
  BY <1>4 DEF LeaveForGoogle, CookieExpires, CheckConnect, DecideLinking, LookUp,
     flowHistory, LinksLeaveTraces
<1>5. ASSUME NEW a \in Account, NEW b \in Browser,
           \/ ConnectGoogle(b, a) \/ CreateUserOf(b, a)
     PROVE  LinksLeaveTraces
  BY <1>5 DEF ConnectGoogle, CreateUserOf, flowHistory, LinksLeaveTraces
<1>6. ASSUME NEW b \in Browser, NEW g \in Identity, GoogleReturn(b, g)
     PROVE  LinksLeaveTraces
  BY <1>6 DEF GoogleReturn, flowHistory, LinksLeaveTraces
<1>7. ASSUME NEW b \in Browser,
           \/ LinkGoogleAccount(b) \/ LinkNewUser(b)
     PROVE  LinksLeaveTraces
  BY <1>7 DEF LinkGoogleAccount, LinkNewUser, flowHistory, LinksLeaveTraces,
     StateIsTyped, LinkingTypeOK
<1>8. ASSUME NEW b \in Browser, FindUser(b)
     PROVE  LinksLeaveTraces
  BY <1>8 DEF FindUser, flowHistory, LinksLeaveTraces
<1>9. CASE UNCHANGED linkingVars
  BY <1>9 DEF linkingVars, LinksLeaveTraces
<1>10. QED
  BY <1>1, <1>2, <1>3, <1>4, <1>5, <1>6, <1>7, <1>8, <1>9 DEF LinkingNext

---------------------------------------------------------------------------
(* Consent                                                                 *)

LEMMA ConsentStays ==
    ASSUME HistoriesGrow, LinksLeaveTraces, NEW f \in FlowStep, HasConsent(f)
    PROVE  HasConsent(f)'
<1>1. \A g \in Identity : Consented(g) => Consented(g)'
  BY DEF HistoriesGrow, Consented
<1>2. \A g \in Identity : linked[g] # NoOne => linked'[g] # NoOne \/ Consented(g)'
  BY DEF LinksLeaveTraces, Consented
<1>3. f.pc \in {"find user", "create user"} => f.as \in Identity
  BY KindOfFlow
<1>4. QED
  BY <1>1, <1>2, <1>3 DEF HasConsent, Consented

LEMMA ConsentsStand ==
    ASSUME StateIsTyped, HistoriesGrow, LinksLeaveTraces, ReturnsHaveConsent, UNCHANGED flow
    PROVE  ReturnsHaveConsent'
<1> SUFFICES ASSUME NEW c \in Browser
             PROVE  (HasConsent(flow[c]))'
  BY DEF ReturnsHaveConsent
<1>1. PICK f \in FlowStep : f = flow[c]
  BY DEF StateIsTyped
<1>2. HasConsent(f)'
  BY <1>1, ConsentStays DEF ReturnsHaveConsent
<1>3. QED
  BY <1>1, <1>2 DEF HasConsent, Consented

LEMMA OneConsentGoesOn ==
    ASSUME StateIsTyped, HistoriesGrow, LinksLeaveTraces, ReturnsHaveConsent,
           NEW b \in Browser, NEW f \in FlowStep, Proceed(b, f), HasConsent(f)'
    PROVE  ReturnsHaveConsent'
<1> SUFFICES ASSUME NEW c \in Browser
             PROVE  (HasConsent(flow[c]))'
  BY DEF ReturnsHaveConsent
<1>1. flow'[b] = f /\ (c # b => flow'[c] = flow[c])
  BY OneProceeds DEF StateIsTyped
<1>2. CASE c = b
  BY <1>1, <1>2 DEF HasConsent, Consented
<1>3. CASE c # b
  <2>1. PICK h \in FlowStep : h = flow[c]
    BY DEF StateIsTyped
  <2>2. HasConsent(h)'
    BY <2>1, ConsentStays DEF ReturnsHaveConsent
  <2>3. QED
    BY <1>1, <1>3, <2>1, <2>2 DEF HasConsent, Consented
<1>4. QED
  BY <1>2, <1>3

\* A step that asks for no consent.
LEMMA OneNeedsNoConsent ==
    ASSUME StateIsTyped, HistoriesGrow, LinksLeaveTraces, ReturnsHaveConsent,
           NEW b \in Browser, NEW f \in FlowStep, Proceed(b, f),
           f.pc \notin {"join", "find user", "create user"}
    PROVE  ReturnsHaveConsent'
BY OneConsentGoesOn DEF HasConsent

LEMMA CookiesAreConsentStep ==
    ASSUME StateIsTyped, CookiesAreConsent, [LinkingNext]_linkingVars
    PROVE  CookiesAreConsent'
<1>1. ASSUME NEW a \in Account, NEW m \in Mailbox, RegisterHolder(a, m)
     PROVE  CookiesAreConsent'
  BY <1>1 DEF RegisterHolder, flowHistory, CookiesAreConsent
<1>2. ASSUME NEW a \in Account, VerifyHolder(a)
     PROVE  CookiesAreConsent'
  BY <1>2 DEF VerifyHolder, flowHistory, CookiesAreConsent
<1>3. ASSUME NEW a \in Account, NEW m \in Mailbox, MoveHolder(a, m)
     PROVE  CookiesAreConsent'
  BY <1>3 DEF MoveHolder, flowHistory, CookiesAreConsent
<1>4. ASSUME NEW a \in Account, SuspendHolder(a)
     PROVE  CookiesAreConsent'
  BY <1>4 DEF SuspendHolder, flowHistory, CookiesAreConsent
<1>5. ASSUME NEW a \in Account, RevokeHolder(a)
     PROVE  CookiesAreConsent'
  BY <1>5 DEF RevokeHolder, flowHistory, CookiesAreConsent
<1>6. ASSUME NEW a \in Account, EraseHolder(a)
     PROVE  CookiesAreConsent'
  BY <1>6 DEF EraseHolder, flowHistory, CookiesAreConsent
<1>7. ASSUME NEW b \in Browser, LeaveForGoogle(b)
     PROVE  CookiesAreConsent'
  BY <1>7 DEF LeaveForGoogle, flowHistory, CookiesAreConsent, StateIsTyped
<1>8. ASSUME NEW a \in Account, NEW b \in Browser, ConnectGoogle(b, a)
     PROVE  CookiesAreConsent'
  BY <1>8 DEF ConnectGoogle, flowHistory, CookiesAreConsent
<1>9. ASSUME NEW b \in Browser, CookieExpires(b)
     PROVE  CookiesAreConsent'
  BY <1>9 DEF CookieExpires, flowHistory, CookiesAreConsent, StateIsTyped
<1>10. ASSUME NEW b \in Browser, NEW g \in Identity, GoogleReturn(b, g)
     PROVE  CookiesAreConsent'
  BY <1>10 DEF GoogleReturn, flowHistory, CookiesAreConsent
<1>11. ASSUME NEW b \in Browser, CheckConnect(b)
     PROVE  CookiesAreConsent'
  BY <1>11 DEF CheckConnect, flowHistory, CookiesAreConsent
<1>12. ASSUME NEW b \in Browser, DecideLinking(b)
     PROVE  CookiesAreConsent'
  BY <1>12 DEF DecideLinking, flowHistory, CookiesAreConsent
<1>13. ASSUME NEW b \in Browser, LinkGoogleAccount(b)
     PROVE  CookiesAreConsent'
  BY <1>13 DEF LinkGoogleAccount, flowHistory, CookiesAreConsent
<1>14. ASSUME NEW b \in Browser, LookUp(b)
     PROVE  CookiesAreConsent'
  BY <1>14 DEF LookUp, flowHistory, CookiesAreConsent
<1>15. ASSUME NEW b \in Browser, FindUser(b)
     PROVE  CookiesAreConsent'
  BY <1>15 DEF FindUser, flowHistory, CookiesAreConsent
<1>16. ASSUME NEW a \in Account, NEW b \in Browser, CreateUserOf(b, a)
     PROVE  CookiesAreConsent'
  BY <1>16 DEF CreateUserOf, flowHistory, CookiesAreConsent
<1>17. ASSUME NEW b \in Browser, LinkNewUser(b)
     PROVE  CookiesAreConsent'
  BY <1>17 DEF LinkNewUser, flowHistory, CookiesAreConsent
<1>18. ASSUME NEW a \in Account, AskToDisconnect(a)
     PROVE  CookiesAreConsent'
  BY <1>18 DEF AskToDisconnect, flowHistory, CookiesAreConsent
<1>19. ASSUME NEW a \in Account, Disconnect(a)
     PROVE  CookiesAreConsent'
  BY <1>19 DEF Disconnect, flowHistory, CookiesAreConsent
<1>20. CASE UNCHANGED linkingVars
  BY <1>20 DEF linkingVars, CookiesAreConsent
<1>21. QED
  BY <1>1, <1>2, <1>3, <1>4, <1>5, <1>6, <1>7, <1>8, <1>9, <1>10, <1>11, <1>12, <1>13,
     <1>14, <1>15, <1>16, <1>17, <1>18, <1>19, <1>20 DEF LinkingNext

LEMMA ReturnsHaveConsentStep ==
    ASSUME StateIsTyped, CookiesAreConsent, ReturnsHaveConsent, [LinkingNext]_linkingVars
    PROVE  ReturnsHaveConsent'
<1>0. HistoriesGrow /\ LinksLeaveTraces
  BY HistoriesStep, LinksStep
<1>1. ASSUME NEW a \in Account, NEW m \in Mailbox,
           \/ RegisterHolder(a, m) \/ MoveHolder(a, m)
     PROVE  ReturnsHaveConsent'
  BY <1>1, <1>0, ConsentsStand DEF RegisterHolder, MoveHolder, flowHistory
<1>2. ASSUME NEW a \in Account,
           \/ VerifyHolder(a) \/ SuspendHolder(a) \/ RevokeHolder(a) \/ EraseHolder(a)
           \/ AskToDisconnect(a)
     PROVE  ReturnsHaveConsent'
  BY <1>2, <1>0, ConsentsStand DEF VerifyHolder, SuspendHolder, RevokeHolder,
     EraseHolder, AskToDisconnect, flowHistory
<1>3. ASSUME NEW b \in Browser,
           \/ LeaveForGoogle(b) \/ CookieExpires(b)
     PROVE  ReturnsHaveConsent'
  BY <1>3, <1>0, ConsentsStand DEF LeaveForGoogle, CookieExpires, flowHistory
<1>4. ASSUME NEW a \in Account, NEW b \in Browser, ConnectGoogle(b, a)
     PROVE  ReturnsHaveConsent'
  BY <1>4, <1>0, ConsentsStand DEF ConnectGoogle, flowHistory
<1>5. ASSUME NEW b \in Browser, NEW g \in Identity, GoogleReturn(b, g)
     PROVE  ReturnsHaveConsent'
  <2>1. PICK f \in FlowStep : Proceed(b, f) /\ f.pc \in {"decide", "connect"}
    <3>1. CASE connectCookie[b] = NoOne
      <4>1. PICK f : f = [pc |-> "decide", as |-> g]
        OBVIOUS
      <4>2. Proceed(b, f)
        BY <1>5, <3>1, <4>1 DEF GoogleReturn
      <4>3. f \in FlowStep /\ f.pc = "decide"
        BY <4>1 DEF FlowStep, PlainFlow
      <4>4. QED
        BY <4>2, <4>3
    <3>2. CASE connectCookie[b] # NoOne
      <4>1. PICK f : f = [pc |-> "connect", as |-> g, cookie |-> connectCookie[b]]
        OBVIOUS
      <4>2. Proceed(b, f)
        BY <1>5, <3>2, <4>1 DEF GoogleReturn
      <4>3. f \in FlowStep /\ f.pc = "connect"
        BY <3>2, <4>1 DEF FlowStep, ConnectFlow, StateIsTyped
      <4>4. QED
        BY <4>2, <4>3
    <3>3. QED
      BY <3>1, <3>2
  <2>2. QED
    BY <1>0, <2>1, OneNeedsNoConsent
<1>6. ASSUME NEW b \in Browser, CheckConnect(b)
     PROVE  ReturnsHaveConsent'
  <2>1. PICK i \in Identity, owner \in Account : i = flow[b].as /\ owner = flow[b].cookie.account
    BY <1>6, KindOfFlow DEF CheckConnect, FlowAt, StateIsTyped, Cookie
  <2>2. PICK f \in FlowStep : f = [pc |-> "join", as |-> i, to |-> owner, next |-> NoFlow]
    BY FlowsOfAKind
  <2>3. HasConsent(f)'
    BY <2>2 DEF HasConsent
  <2>4. CASE Proceed(b, NoFlow)
    BY <1>0, <2>4, OneNeedsNoConsent DEF FlowStep, NoFlow
  <2>5. CASE Proceed(b, f)
    BY <1>0, <2>3, <2>5, OneConsentGoesOn
  <2>6. QED
    BY <1>6, <2>1, <2>2, <2>4, <2>5 DEF CheckConnect
<1>7. ASSUME NEW b \in Browser, DecideLinking(b)
     PROVE  ReturnsHaveConsent'
  <2>1. PICK i \in Identity : i = flow[b].as
    BY <1>7, KindOfFlow DEF DecideLinking, FlowAt, StateIsTyped
  <2> DEFINE join(a) == [pc |-> "join", as |-> i, to |-> a, next |-> [pc |-> "find user", as |-> i]]
  <2>2. \/ Proceed(b, NoFlow)
        \/ Proceed(b, [pc |-> "look up", as |-> i])
        \/ \E a \in Account : Proceed(b, join(a))
    BY <1>7, <2>1 DEF DecideLinking, WithMail
  <2>3. CASE Proceed(b, NoFlow)
    BY <1>0, <2>3, OneNeedsNoConsent DEF FlowStep, NoFlow
  <2>4. CASE Proceed(b, [pc |-> "look up", as |-> i])
    BY <1>0, <2>4, OneNeedsNoConsent DEF FlowStep, PlainFlow
  <2>5. ASSUME NEW a \in Account, Proceed(b, join(a))
        PROVE  ReturnsHaveConsent'
    <3>1. PICK f \in FlowStep : f = join(a)
      BY FlowsOfAKind
    <3>2. f.pc = "join" /\ f.next = [pc |-> "find user", as |-> f.as]
      BY <3>1
    <3>3. HasConsent(f)'
      BY <3>2 DEF HasConsent
    <3> HIDE DEF join
    <3>4. QED
      BY <1>0, <2>5, <3>1, <3>3, OneConsentGoesOn
  <2>6. QED
    BY <2>2, <2>3, <2>4, <2>5
<1>8. ASSUME NEW b \in Browser, LinkGoogleAccount(b)
     PROVE  ReturnsHaveConsent'
  <2>1. PICK h \in FlowStep : h = flow[b] /\ h.pc = "join"
    BY <1>8 DEF LinkGoogleAccount, FlowAt, StateIsTyped
  <2>2. h.as \in Identity /\ h.to \in Account
    BY <2>1, KindOfFlow
  <2>3. h.next = NoFlow \/ h.next = [pc |-> "find user", as |-> h.as]
    BY <2>1 DEF ReturnsHaveConsent, HasConsent
  <2>4. \/ Proceed(b, NoFlow)
        \/ /\ Proceed(b, [pc |-> "find user", as |-> h.as])
           /\ linked' = [linked EXCEPT ![h.as] = h.to]
    BY <1>8, <2>1, <2>3 DEF LinkGoogleAccount
  <2>5. CASE Proceed(b, NoFlow)
    BY <1>0, <2>5, OneNeedsNoConsent DEF FlowStep, NoFlow
  <2>6. CASE /\ Proceed(b, [pc |-> "find user", as |-> h.as])
             /\ linked' = [linked EXCEPT ![h.as] = h.to]
    <3>1. linked'[h.as] # NoOne
      BY <2>2, <2>6, LinkingAssumption DEF StateIsTyped, LinkingTypeOK
    <3>2. PICK f \in FlowStep : f = [pc |-> "find user", as |-> h.as]
      BY <2>2 DEF FlowStep, PlainFlow
    <3>3. HasConsent(f)'
      BY <3>1, <3>2 DEF HasConsent
    <3>4. QED
      BY <1>0, <2>6, <3>2, <3>3, OneConsentGoesOn
  <2>7. QED
    BY <2>4, <2>5, <2>6
<1>9. ASSUME NEW b \in Browser, LookUp(b)
     PROVE  ReturnsHaveConsent'
  <2>1. PICK i \in Identity : i = flow[b].as
    BY <1>9, KindOfFlow DEF LookUp, FlowAt, StateIsTyped
  <2>2. CASE Proceed(b, NoFlow)
    BY <1>0, <2>2, OneNeedsNoConsent DEF FlowStep, NoFlow
  <2>3. PICK f \in FlowStep : f = [pc |-> "find user", as |-> i]
    BY DEF FlowStep, PlainFlow
  <2>4. CASE Proceed(b, f) /\ flow[b].pc = "look up" /\ (linked[i] # NoOne \/ consentCookie[b])
    <3>1. linked[i] # NoOne \/ Consented(i)
      BY <1>9, <2>1, <2>4 DEF CookiesAreConsent, Consented
    <3>2. HasConsent(f)'
      BY <1>9, <2>3, <3>1 DEF HasConsent, Consented, LookUp, flowHistory
    <3>3. QED
      BY <1>0, <2>3, <2>4, <3>2, OneConsentGoesOn
  <2>5. QED
    BY <1>9, <2>1, <2>2, <2>3, <2>4 DEF LookUp, FlowAt
<1>10. ASSUME NEW b \in Browser, FindUser(b)
     PROVE  ReturnsHaveConsent'
  <2>1. PICK i \in Identity : i = flow[b].as
    BY <1>10, KindOfFlow DEF FindUser, FlowAt, StateIsTyped
  <2>2. CASE Proceed(b, NoFlow)
    BY <1>0, <2>2, OneNeedsNoConsent DEF FlowStep, NoFlow
  <2>3. PICK f \in FlowStep : f = [pc |-> "create user", as |-> i]
    BY DEF FlowStep, PlainFlow
  <2>4. CASE Proceed(b, f) /\ flow[b].pc = "find user" /\ linked[i] = NoOne
    <3>1. Consented(i)
      BY <1>10, <2>1, <2>4 DEF ReturnsHaveConsent, HasConsent
    <3>2. HasConsent(f)'
      BY <1>10, <2>3, <3>1 DEF HasConsent, Consented, FindUser, flowHistory
    <3>3. QED
      BY <1>0, <2>3, <2>4, <3>2, OneConsentGoesOn
  <2>5. QED
    BY <1>10, <2>1, <2>2, <2>3, <2>4 DEF FindUser, FlowAt
<1>11. ASSUME NEW a \in Account, NEW b \in Browser, CreateUserOf(b, a)
     PROVE  ReturnsHaveConsent'
  <2>1. PICK i \in Identity : i = flow[b].as
    BY <1>11, KindOfFlow DEF CreateUserOf, FlowAt, StateIsTyped
  <2>2. PICK f \in FlowStep : f = [pc |-> "link user", as |-> i, to |-> a]
    BY FlowsOfAKind
  <2>3. Proceed(b, NoFlow) \/ Proceed(b, f)
    BY <1>11, <2>1, <2>2 DEF CreateUserOf
  <2>4. CASE Proceed(b, NoFlow)
    BY <1>0, <2>4, OneNeedsNoConsent DEF FlowStep, NoFlow
  <2>5. CASE Proceed(b, f)
    BY <1>0, <2>2, <2>5, OneNeedsNoConsent
  <2>6. QED
    BY <2>3, <2>4, <2>5
<1>12. ASSUME NEW b \in Browser, LinkNewUser(b)
     PROVE  ReturnsHaveConsent'
  <2>1. Proceed(b, NoFlow)
    BY <1>12 DEF LinkNewUser
  <2>2. QED
    BY <1>0, <2>1, OneNeedsNoConsent DEF FlowStep, NoFlow
<1>13. ASSUME NEW a \in Account, Disconnect(a)
     PROVE  ReturnsHaveConsent'
  BY <1>13, <1>0, ConsentsStand DEF Disconnect, flowHistory
<1>14. CASE UNCHANGED linkingVars
  BY <1>0, <1>14, ConsentsStand DEF linkingVars
<1>15. QED
  BY <1>1, <1>2, <1>3, <1>4, <1>5, <1>6, <1>7, <1>8, <1>9, <1>10, <1>11, <1>12, <1>13,
     <1>14 DEF LinkingNext

LEMMA ConsentPrecedesAccountStep ==
    ASSUME StateIsTyped, ReturnsHaveConsent, ConsentPrecedesAccount, [LinkingNext]_linkingVars
    PROVE  ConsentPrecedesAccount'
<1>0. HistoriesGrow
  BY HistoriesStep
<1>1. ASSUME NEW a \in Account, NEW m \in Mailbox,
           \/ RegisterHolder(a, m) \/ MoveHolder(a, m)
     PROVE  ConsentPrecedesAccount'
  BY <1>1, <1>0 DEF RegisterHolder, MoveHolder, flowHistory, ConsentPrecedesAccount,
     HistoriesGrow
<1>2. ASSUME NEW a \in Account,
           \/ VerifyHolder(a) \/ SuspendHolder(a) \/ RevokeHolder(a) \/ EraseHolder(a)
           \/ AskToDisconnect(a)
     PROVE  ConsentPrecedesAccount'
  BY <1>2, <1>0 DEF VerifyHolder, SuspendHolder, RevokeHolder, EraseHolder,
     AskToDisconnect, flowHistory, ConsentPrecedesAccount, HistoriesGrow
<1>3. ASSUME NEW b \in Browser,
           \/ LeaveForGoogle(b) \/ CookieExpires(b) \/ CheckConnect(b)
           \/ DecideLinking(b) \/ LinkGoogleAccount(b)
     PROVE  ConsentPrecedesAccount'
  BY <1>3, <1>0 DEF LeaveForGoogle, CookieExpires, CheckConnect, DecideLinking,
     LinkGoogleAccount, flowHistory, ConsentPrecedesAccount, HistoriesGrow
<1>4. ASSUME NEW a \in Account, NEW b \in Browser, ConnectGoogle(b, a)
     PROVE  ConsentPrecedesAccount'
  BY <1>4, <1>0 DEF ConnectGoogle, flowHistory, ConsentPrecedesAccount, HistoriesGrow
<1>5. ASSUME NEW b \in Browser, NEW g \in Identity, GoogleReturn(b, g)
     PROVE  ConsentPrecedesAccount'
  BY <1>5, <1>0 DEF GoogleReturn, flowHistory, ConsentPrecedesAccount, HistoriesGrow
<1>6. ASSUME NEW b \in Browser,
           \/ LookUp(b) \/ FindUser(b) \/ LinkNewUser(b)
     PROVE  ConsentPrecedesAccount'
  BY <1>6, <1>0 DEF LookUp, FindUser, LinkNewUser, flowHistory, ConsentPrecedesAccount,
     HistoriesGrow
<1>7. ASSUME NEW a \in Account, NEW b \in Browser, CreateUserOf(b, a)
     PROVE  ConsentPrecedesAccount'
  <2>1. PICK i \in Identity : i = flow[b].as
    BY <1>7, KindOfFlow DEF CreateUserOf, FlowAt, StateIsTyped
  <2>2. Consented(i)
    BY <1>7, <2>1 DEF CreateUserOf, FlowAt, ReturnsHaveConsent, HasConsent
  <2>3. bornOf' = bornOf \/ bornOf' = [bornOf EXCEPT ![a] = i]
    BY <1>7, <2>1 DEF CreateUserOf
  <2>4. UNCHANGED <<agreed, severed>>
    BY <1>7 DEF CreateUserOf
  <2>5. QED
    BY <2>2, <2>3, <2>4 DEF ConsentPrecedesAccount, Consented, StateIsTyped
<1>8. ASSUME NEW a \in Account, Disconnect(a)
     PROVE  ConsentPrecedesAccount'
  BY <1>8, <1>0 DEF Disconnect, flowHistory, ConsentPrecedesAccount, HistoriesGrow
<1>9. CASE UNCHANGED linkingVars
  BY <1>9 DEF linkingVars, ConsentPrecedesAccount
<1>10. QED
  BY <1>1, <1>2, <1>3, <1>4, <1>5, <1>6, <1>7, <1>8, <1>9 DEF LinkingNext

---------------------------------------------------------------------------
(* The way back                                                            *)

\* No account becomes unused or active again, and a password stays.
KeysStay ==
    \A a \in Account : holder[a].status # "none" =>
        /\ holder'[a].status # "none"
        /\ holder'[a].status = "ACTIVE" => IsActive(a) /\ (holder[a].password => holder'[a].password)

LEMMA KeysStep ==
    ASSUME StateIsTyped, [LinkingNext]_linkingVars
    PROVE  KeysStay
<1>1. ASSUME NEW a \in Account, NEW m \in Mailbox, RegisterHolder(a, m)
     PROVE  KeysStay
  BY <1>1 DEF RegisterHolder, flowHistory, KeysStay, IsActive, StateIsTyped, LinkingTypeOK
<1>2. ASSUME NEW a \in Account,
           \/ VerifyHolder(a) \/ SuspendHolder(a)
     PROVE  KeysStay
  BY <1>2 DEF VerifyHolder, SuspendHolder, MayRevoke, flowHistory, KeysStay, IsActive,
     StateIsTyped, LinkingTypeOK, HolderRow
<1>3. ASSUME NEW a \in Account, NEW m \in Mailbox, MoveHolder(a, m)
     PROVE  KeysStay
  BY <1>3 DEF MoveHolder, MayRevoke, flowHistory, KeysStay, IsActive, StateIsTyped,
     LinkingTypeOK, HolderRow
<1>4. ASSUME NEW a \in Account, RevokeHolder(a)
     PROVE  KeysStay
  <2>1. PICK password \in {holder[a].password, TRUE} :
           holder' = [holder EXCEPT ![a].version = @ + 1, ![a].password = password]
    BY <1>4 DEF RevokeHolder
  <2>2. \A c \in Account : /\ holder'[c].status = holder[c].status
                           /\ holder[c].password => holder'[c].password
    BY <2>1 DEF StateIsTyped, LinkingTypeOK, HolderRow
  <2>3. QED
    BY <2>2 DEF KeysStay, IsActive
<1>5. ASSUME NEW a \in Account, EraseHolder(a)
     PROVE  KeysStay
  BY <1>5, UnusedIsARow DEF EraseHolder, KeysStay, IsActive, StateIsTyped,
     LinkingTypeOK, HolderRow
<1>6. ASSUME NEW b \in Browser,
           \/ LeaveForGoogle(b) \/ CookieExpires(b) \/ CheckConnect(b)
           \/ DecideLinking(b) \/ LinkGoogleAccount(b)
     PROVE  KeysStay
  BY <1>6 DEF LeaveForGoogle, CookieExpires, CheckConnect, DecideLinking,
     LinkGoogleAccount, flowHistory, KeysStay, IsActive
<1>7. ASSUME NEW a \in Account, NEW b \in Browser, ConnectGoogle(b, a)
     PROVE  KeysStay
  BY <1>7 DEF ConnectGoogle, flowHistory, KeysStay, IsActive
<1>8. ASSUME NEW b \in Browser, NEW g \in Identity, GoogleReturn(b, g)
     PROVE  KeysStay
  BY <1>8 DEF GoogleReturn, flowHistory, KeysStay, IsActive
<1>9. ASSUME NEW b \in Browser,
           \/ LookUp(b) \/ FindUser(b) \/ LinkNewUser(b)
     PROVE  KeysStay
  BY <1>9 DEF LookUp, FindUser, LinkNewUser, flowHistory, KeysStay, IsActive
<1>10. ASSUME NEW a \in Account, NEW b \in Browser, CreateUserOf(b, a)
     PROVE  KeysStay
  <2>1. holder[a].status = "none" /\ \A c \in Account \ {a} : holder'[c] = holder[c]
    BY <1>10 DEF CreateUserOf, StateIsTyped, LinkingTypeOK
  <2>2. QED
    BY <2>1 DEF KeysStay, IsActive
<1>11. ASSUME NEW a \in Account,
           \/ AskToDisconnect(a) \/ Disconnect(a)
     PROVE  KeysStay
  BY <1>11 DEF AskToDisconnect, Disconnect, flowHistory, KeysStay, IsActive
<1>12. CASE UNCHANGED linkingVars
  BY <1>12 DEF linkingVars, KeysStay, IsActive
<1>13. QED
  BY <1>1, <1>2, <1>3, <1>4, <1>5, <1>6, <1>7, <1>8, <1>9, <1>10, <1>11, <1>12 DEF
     LinkingNext

LEMMA RemovalsLeaveAKeyStep ==
    ASSUME StateIsTyped, RemovalsLeaveAKey, [LinkingNext]_linkingVars
    PROVE  RemovalsLeaveAKey'
<1>0. KeysStay
  BY KeysStep
<1>1. ASSUME NEW a \in Account, NEW m \in Mailbox,
           \/ RegisterHolder(a, m) \/ MoveHolder(a, m)
     PROVE  RemovalsLeaveAKey'
  BY <1>1, <1>0 DEF RegisterHolder, MoveHolder, flowHistory, RemovalsLeaveAKey, KeysStay,
     IsActive, StateIsTyped, LinkingTypeOK
<1>2. ASSUME NEW a \in Account,
           \/ VerifyHolder(a) \/ SuspendHolder(a) \/ RevokeHolder(a) \/ EraseHolder(a)
           \/ AskToDisconnect(a)
     PROVE  RemovalsLeaveAKey'
  BY <1>2, <1>0 DEF VerifyHolder, SuspendHolder, RevokeHolder, EraseHolder,
     AskToDisconnect, flowHistory, RemovalsLeaveAKey, KeysStay, IsActive, StateIsTyped,
     LinkingTypeOK
<1>3. ASSUME NEW b \in Browser,
           \/ LeaveForGoogle(b) \/ CookieExpires(b) \/ CheckConnect(b)
           \/ DecideLinking(b) \/ LinkGoogleAccount(b)
     PROVE  RemovalsLeaveAKey'
  BY <1>3, <1>0 DEF LeaveForGoogle, CookieExpires, CheckConnect, DecideLinking,
     LinkGoogleAccount, flowHistory, RemovalsLeaveAKey, KeysStay, IsActive, StateIsTyped,
     LinkingTypeOK
<1>4. ASSUME NEW a \in Account, NEW b \in Browser,
           \/ ConnectGoogle(b, a) \/ CreateUserOf(b, a)
     PROVE  RemovalsLeaveAKey'
  BY <1>4, <1>0 DEF ConnectGoogle, CreateUserOf, flowHistory, RemovalsLeaveAKey,
     KeysStay, IsActive, StateIsTyped, LinkingTypeOK
<1>5. ASSUME NEW b \in Browser, NEW g \in Identity, GoogleReturn(b, g)
     PROVE  RemovalsLeaveAKey'
  BY <1>5, <1>0 DEF GoogleReturn, flowHistory, RemovalsLeaveAKey, KeysStay, IsActive,
     StateIsTyped, LinkingTypeOK
<1>6. ASSUME NEW b \in Browser,
           \/ LookUp(b) \/ FindUser(b) \/ LinkNewUser(b)
     PROVE  RemovalsLeaveAKey'
  BY <1>6, <1>0 DEF LookUp, FindUser, LinkNewUser, flowHistory, RemovalsLeaveAKey,
     KeysStay, IsActive, StateIsTyped, LinkingTypeOK
<1>7. ASSUME NEW a \in Account, Disconnect(a)
     PROVE  RemovalsLeaveAKey'
  BY <1>7, <1>0 DEF Disconnect, flowHistory, RemovalsLeaveAKey, KeysStay, IsActive,
     StateIsTyped, LinkingTypeOK
<1>8. CASE UNCHANGED linkingVars
  BY <1>0, <1>8 DEF linkingVars, RemovalsLeaveAKey, KeysStay, IsActive, StateIsTyped,
     LinkingTypeOK
<1>9. QED
  BY <1>1, <1>2, <1>3, <1>4, <1>5, <1>6, <1>7, <1>8 DEF LinkingNext

\* Whoever needs a link keeps it, and whoever is being created goes on.
LEMMA WayBackStands ==
    ASSUME StateIsTyped, KeysStay, WayBackIn, bereft \subseteq bereft',
           \A a \in Account : IsActive(a)' /\ holder[a].status = "none" => holder'[a].password,
           \A g \in Identity, a \in Account : linked[g] = a =>
               linked'[g] = a \/ ~IsActive(a)' \/ holder[a].password,
           \A b \in Browser : FlowAt(b, "link user") => flow'[b] = flow[b]
    PROVE  WayBackIn'
<1> SUFFICES ASSUME NEW a \in Account, IsActive(a)', ~holder'[a].password
             PROVE  \/ LinksOf(a)' # {} \/ a \in bereft'
                    \/ \E b \in Browser : FlowAt(b, "link user")' /\ flow'[b].to = a
  BY DEF WayBackIn
<1>1. IsActive(a) /\ ~holder[a].password
  BY DEF KeysStay, IsActive
<1>2. CASE LinksOf(a) # {}
  <2>1. PICK g \in Identity : linked[g] = a
    BY <1>2 DEF LinksOf
  <2>2. linked'[g] = a
    BY <1>1, <2>1, LinkingAssumption DEF IsActive
  <2>3. QED
    BY <2>2 DEF LinksOf
<1>3. CASE \E b \in Browser : FlowAt(b, "link user") /\ flow[b].to = a
  BY <1>3 DEF FlowAt
<1>4. QED
  BY <1>1, <1>2, <1>3 DEF WayBackIn

LEMMA WayBackInStep ==
    ASSUME StateIsTyped, RemovalsLeaveAKey, WayBackIn, [LinkingNext]_linkingVars
    PROVE  WayBackIn'
<1>0. KeysStay
  BY KeysStep
<1>1. ASSUME NEW a \in Account, NEW m \in Mailbox, RegisterHolder(a, m)
     PROVE  WayBackIn'
  <2>1. holder'[a].password /\ \A c \in Account \ {a} : holder'[c] = holder[c]
    BY <1>1, UnusedIsARow DEF RegisterHolder, StateIsTyped, LinkingTypeOK, HolderRow
  <2>2. \A c \in Account : IsActive(c)' /\ holder[c].status = "none" => holder'[c].password
    BY <2>1 DEF IsActive
  <2>3. QED
    BY <1>0, <1>1, <2>2, WayBackStands DEF RegisterHolder, flowHistory
<1>2. ASSUME NEW a \in Account, VerifyHolder(a)
     PROVE  WayBackIn'
  <2>1. \A c \in Account : IsActive(c)' => holder[c].status # "none"
    BY <1>0, <1>2 DEF VerifyHolder, IsActive, MayRevoke, StateIsTyped, LinkingTypeOK,
       HolderRow
  <2>2. QED
    BY <1>0, <1>2, <2>1, WayBackStands DEF VerifyHolder, flowHistory
<1>3. ASSUME NEW a \in Account, NEW m \in Mailbox, MoveHolder(a, m)
     PROVE  WayBackIn'
  <2>1. \A c \in Account : IsActive(c)' => holder[c].status # "none"
    BY <1>0, <1>3 DEF MoveHolder, IsActive, MayRevoke, StateIsTyped, LinkingTypeOK,
       HolderRow
  <2>2. QED
    BY <1>0, <1>3, <2>1, WayBackStands DEF MoveHolder, flowHistory
<1>4. ASSUME NEW a \in Account, SuspendHolder(a)
     PROVE  WayBackIn'
  <2>1. \A c \in Account : IsActive(c)' => holder[c].status # "none"
    BY <1>0, <1>4 DEF SuspendHolder, IsActive, MayRevoke, StateIsTyped, LinkingTypeOK,
       HolderRow
  <2>2. QED
    BY <1>0, <1>4, <2>1, WayBackStands DEF SuspendHolder, flowHistory
<1>5. ASSUME NEW a \in Account, RevokeHolder(a)
     PROVE  WayBackIn'
  <2>1. PICK password \in {holder[a].password, TRUE} :
           holder' = [holder EXCEPT ![a].version = @ + 1, ![a].password = password]
    BY <1>5 DEF RevokeHolder
  <2>2. \A c \in Account : IsActive(c)' => holder[c].status # "none"
    BY <2>1 DEF IsActive, StateIsTyped, LinkingTypeOK, HolderRow
  <2>3. QED
    BY <1>0, <1>5, <2>2, WayBackStands DEF RevokeHolder, flowHistory
<1>6. ASSUME NEW a \in Account, EraseHolder(a)
     PROVE  WayBackIn'
  <2>1. ~IsActive(a)' /\ \A c \in Account \ {a} : holder'[c] = holder[c]
    BY <1>6, UnusedIsARow DEF EraseHolder, IsActive, StateIsTyped, LinkingTypeOK, HolderRow
  <2>2. \A c \in Account : ~(IsActive(c)' /\ holder[c].status = "none")
    BY <2>1 DEF IsActive
  <2>3. \A g \in Identity : linked[g] # NoOne => linked'[g] = linked[g] \/ linked[g] = a
    BY <1>6, SeverKeepsOthers DEF EraseHolder
  <2>4. \A g \in Identity, c \in Account : linked[g] = c => linked'[g] = c \/ ~IsActive(c)'
    BY <2>1, <2>3, LinkingAssumption DEF IsActive
  <2>5. QED
    BY <1>0, <1>6, <2>2, <2>4, WayBackStands DEF EraseHolder
<1>7. ASSUME NEW b \in Browser,
           \/ LeaveForGoogle(b) \/ CookieExpires(b)
     PROVE  WayBackIn'
  BY <1>7, <1>0, WayBackStands DEF LeaveForGoogle, CookieExpires, flowHistory, IsActive,
     KeysStay
<1>8. ASSUME NEW a \in Account, NEW b \in Browser, ConnectGoogle(b, a)
     PROVE  WayBackIn'
  BY <1>8, <1>0, WayBackStands DEF ConnectGoogle, flowHistory, IsActive, KeysStay
<1>9. ASSUME NEW b \in Browser, NEW g \in Identity, GoogleReturn(b, g)
     PROVE  WayBackIn'
  <2>1. \A c \in Browser : FlowAt(c, "link user") => flow'[c] = flow[c]
    BY <1>9 DEF GoogleReturn, Proceed, FlowAt, StateIsTyped
  <2>2. QED
    BY <1>0, <1>9, <2>1, WayBackStands DEF GoogleReturn, flowHistory, IsActive, KeysStay
<1>10. ASSUME NEW b \in Browser, CheckConnect(b)
     PROVE  WayBackIn'
  <2>1. \A c \in Browser : FlowAt(c, "link user") => flow'[c] = flow[c]
    BY <1>10 DEF CheckConnect, Proceed, FlowAt, StateIsTyped
  <2>2. QED
    BY <1>0, <1>10, <2>1, WayBackStands DEF CheckConnect, flowHistory, IsActive, KeysStay
<1>11. ASSUME NEW b \in Browser, DecideLinking(b)
     PROVE  WayBackIn'
  <2>1. \A c \in Browser : FlowAt(c, "link user") => flow'[c] = flow[c]
    BY <1>11 DEF DecideLinking, Proceed, FlowAt, StateIsTyped
  <2>2. QED
    BY <1>0, <1>11, <2>1, WayBackStands DEF DecideLinking, flowHistory, IsActive, KeysStay
<1>12. ASSUME NEW b \in Browser, LinkGoogleAccount(b)
     PROVE  WayBackIn'
  <2>1. \A c \in Browser : FlowAt(c, "link user") => flow'[c] = flow[c]
    BY <1>12 DEF LinkGoogleAccount, Proceed, FlowAt, StateIsTyped
  <2>2. \A g \in Identity, c \in Account : linked[g] = c => linked'[g] = c
    BY <1>12, LinkingAssumption DEF LinkGoogleAccount, StateIsTyped, LinkingTypeOK
  <2>3. QED
    BY <1>0, <1>12, <2>1, <2>2, WayBackStands DEF LinkGoogleAccount, flowHistory,
       IsActive, KeysStay
<1>13. ASSUME NEW b \in Browser, LookUp(b)
     PROVE  WayBackIn'
  <2>1. \A c \in Browser : FlowAt(c, "link user") => flow'[c] = flow[c]
    BY <1>13 DEF LookUp, Proceed, FlowAt, StateIsTyped
  <2>2. QED
    BY <1>0, <1>13, <2>1, WayBackStands DEF LookUp, flowHistory, IsActive, KeysStay
<1>14. ASSUME NEW b \in Browser, FindUser(b)
     PROVE  WayBackIn'
  <2>1. \A c \in Browser : FlowAt(c, "link user") => flow'[c] = flow[c]
    BY <1>14 DEF FindUser, Proceed, FlowAt, StateIsTyped
  <2>2. QED
    BY <1>0, <1>14, <2>1, WayBackStands DEF FindUser, flowHistory, IsActive, KeysStay
<1>15. ASSUME NEW a \in Account, NEW b \in Browser, CreateUserOf(b, a)
     PROVE  WayBackIn'
  <2>1. PICK i \in Identity : i = flow[b].as
    BY <1>15, KindOfFlow DEF CreateUserOf, FlowAt, StateIsTyped
  <2>2. linked' = linked /\ bereft' = bereft
    BY <1>15 DEF CreateUserOf
  <2>3. \A c \in Browser : FlowAt(c, "link user") => flow'[c] = flow[c]
    BY <1>15 DEF CreateUserOf, Proceed, FlowAt, StateIsTyped
  <2>4. CASE UNCHANGED holder
    BY <1>0, <2>2, <2>3, <2>4, WayBackStands DEF IsActive
  <2>5. CASE Proceed(b, [pc |-> "link user", as |-> i, to |-> a])
    <3> SUFFICES ASSUME NEW c \in Account, IsActive(c)', ~holder'[c].password
                 PROVE  \/ LinksOf(c)' # {} \/ c \in bereft'
                        \/ \E d \in Browser : FlowAt(d, "link user")' /\ flow'[d].to = c
      BY DEF WayBackIn
    <3>1. FlowAt(b, "link user")' /\ flow'[b].to = a
      BY <2>5 DEF Proceed, FlowAt, StateIsTyped
    <3>2. CASE c # a
      <4>1. holder'[c] = holder[c]
        BY <1>15, <3>2 DEF CreateUserOf, StateIsTyped, LinkingTypeOK
      <4>2. LinksOf(c) # {} \/ c \in bereft
            \/ \E d \in Browser : FlowAt(d, "link user") /\ flow[d].to = c
        BY <4>1 DEF WayBackIn, IsActive
      <4>3. QED
        BY <2>2, <2>3, <4>2 DEF LinksOf, FlowAt
    <3>3. QED
      BY <3>1, <3>2
  <2>6. QED
    BY <1>15, <2>1, <2>4, <2>5 DEF CreateUserOf
<1>16. ASSUME NEW b \in Browser, LinkNewUser(b)
     PROVE  WayBackIn'
  <2>1. PICK i \in Identity, owner \in Account : i = flow[b].as /\ owner = flow[b].to
    BY <1>16, KindOfFlow DEF LinkNewUser, FlowAt, StateIsTyped
  <2>2. holder' = holder /\ bereft \subseteq bereft' /\ Proceed(b, NoFlow)
    BY <1>16 DEF LinkNewUser
  <2>3. linked'[i] = owner \/ owner \in bereft'
    BY <1>16, <2>1 DEF LinkNewUser, StateIsTyped, LinkingTypeOK
  <2>4. \A g \in Identity : linked[g] # NoOne => linked'[g] = linked[g]
    BY <1>16 DEF LinkNewUser, StateIsTyped, LinkingTypeOK
  <2>5. \A c \in Browser \ {b} : flow'[c] = flow[c]
    BY <2>2 DEF Proceed, StateIsTyped
  <2> SUFFICES ASSUME NEW a \in Account, IsActive(a)', ~holder'[a].password
               PROVE  \/ LinksOf(a)' # {} \/ a \in bereft'
                      \/ \E c \in Browser : FlowAt(c, "link user")' /\ flow'[c].to = a
    BY DEF WayBackIn
  <2>6. LinksOf(a) # {} \/ a \in bereft \/ \E c \in Browser : FlowAt(c, "link user") /\ flow[c].to = a
    BY <2>2 DEF WayBackIn, IsActive
  <2>7. CASE a = owner
    BY <2>3, <2>7 DEF LinksOf
  <2>8. CASE a # owner
    <3>1. CASE LinksOf(a) # {}
      BY <2>4, <3>1, LinkingAssumption DEF LinksOf
    <3>2. CASE \E c \in Browser : FlowAt(c, "link user") /\ flow[c].to = a
      BY <2>1, <2>5, <2>8, <3>2 DEF FlowAt
    <3>3. QED
      BY <2>2, <2>6, <3>1, <3>2
  <2>9. QED
    BY <2>7, <2>8
<1>17. ASSUME NEW a \in Account, AskToDisconnect(a)
     PROVE  WayBackIn'
  BY <1>17, <1>0, WayBackStands DEF AskToDisconnect, flowHistory, IsActive, KeysStay
<1>18. ASSUME NEW a \in Account, Disconnect(a)
     PROVE  WayBackIn'
  <2>1. a \in removal /\ holder' = holder /\ flow' = flow /\ bereft' = bereft
    BY <1>18 DEF Disconnect
  <2>2. holder[a].password \/ ~IsActive(a)'
    BY <2>1 DEF RemovalsLeaveAKey, IsActive
  <2>3. \A g \in Identity : linked[g] # NoOne => linked'[g] = linked[g] \/ linked[g] = a
    BY <1>18, SeverKeepsOthers DEF Disconnect
  <2>4. \A g \in Identity, c \in Account : linked[g] = c =>
            linked'[g] = c \/ ~IsActive(c)' \/ holder[c].password
    BY <2>2, <2>3, LinkingAssumption DEF IsActive
  <2>5. QED
    BY <1>0, <2>1, <2>4, WayBackStands DEF IsActive
<1>19. CASE UNCHANGED linkingVars
  BY <1>0, <1>19, WayBackStands DEF linkingVars, IsActive, KeysStay
<1>20. QED
  BY <1>1, <1>2, <1>3, <1>4, <1>5, <1>6, <1>7, <1>8, <1>9, <1>10, <1>11, <1>12, <1>13,
     <1>14, <1>15, <1>16, <1>17, <1>18, <1>19 DEF LinkingNext

---------------------------------------------------------------------------
(* The theorems                                                            *)

LEMMA LinkingInvInit == LinkingInit => LinkingInv
<1> SUFFICES ASSUME LinkingInit
             PROVE  LinkingInv
  OBVIOUS
<1> USE DEF LinkingInit
<1>1. \A a \in Account : holder[a] = Unused
  OBVIOUS
<1>2. StateIsTyped
  <2>1. NoFlow \in FlowStep
    BY DEF FlowStep
  <2>2. holder \in [Account -> HolderRow]
    BY UnusedIsARow
  <2>3. QED
    BY <1>1, <2>1, <2>2, UnusedIsARow, LinkingAssumption DEF StateIsTyped, LinkingTypeOK
<1>3. VerifiedHoldersAreProven /\ RemovalsLeaveAKey
  BY <1>1, UnusedIsARow DEF VerifiedHoldersAreProven, RemovalsLeaveAKey
<1>4. WayBackIn
  BY <1>1, UnusedIsARow DEF WayBackIn, IsActive
<1>5. ReturnsHaveGround /\ ReturnsHaveConsent
  BY DEF ReturnsHaveGround, ReturnsHaveConsent, HasConsent, FlowAt, NoFlow
<1>6. LinksHaveGround /\ CookiesAreConsent /\ ConsentPrecedesAccount
  BY DEF LinksHaveGround, CookiesAreConsent, ConsentPrecedesAccount
<1>7. QED
  BY <1>2, <1>3, <1>4, <1>5, <1>6 DEF LinkingInv

LEMMA LinkingInvStep == LinkingInv /\ [LinkingNext]_linkingVars => LinkingInv'
BY TypedStep, VerifiedIsProvenStep, ReturnsHaveGroundStep, LinksHaveGroundStep,
   CookiesAreConsentStep, ReturnsHaveConsentStep, ConsentPrecedesAccountStep,
   RemovalsLeaveAKeyStep, WayBackInStep
DEF LinkingInv

\* Every reachable state satisfies the invariant, its shapes and the
\* uniqueness of addresses among them (the unique index on User.email).
THEOREM LinkingInvariance == LinkingSpec => []LinkingInv
<1>1. LinkingInit => LinkingInv
  BY LinkingInvInit
<1>2. LinkingInv /\ [LinkingNext]_linkingVars => LinkingInv'
  BY LinkingInvStep
<1>3. QED
  BY <1>1, <1>2, PTL DEF LinkingSpec

\* Accounts do not merge by accident (decideLinking, linkGoogleAccount and the
\* adapter): whatever browsers come back in whatever order, a Google identity
\* reaches an account only by Connect, by birth, or because both sides proved
\* the address.
THEOREM NoMergeWithoutProof == LinkingSpec => []NoUnprovenMerge
<1>1. LinkingInv => NoUnprovenMerge
  BY DEF LinkingInv, LinksHaveGround, Ground, NoUnprovenMerge
<1>2. QED
  BY <1>1, LinkingInvariance, PTL

\* An account comes from Google only after the terms were accepted
\* (app/(auth)/google.ts), but for an identity whose link was removed while
\* its return was served.
THEOREM ConsentComesFirst == LinkingSpec => []ConsentPrecedesAccount
<1>1. LinkingInv => ConsentPrecedesAccount
  BY DEF LinkingInv
<1>2. QED
  BY <1>1, LinkingInvariance, PTL

\* Disconnecting Google, erasing and the adapter's refusals leave every active
\* account a way back in (disconnectGoogle asks for a password).
THEOREM EveryoneGetsBackIn == LinkingSpec => []WayBackIn
<1>1. LinkingInv => WayBackIn
  BY DEF LinkingInv
<1>2. QED
  BY <1>1, LinkingInvariance, PTL

\* The unique index on Account and the order of the reads keep an identity
\* where it is until it is disconnected or its account erased.
THEOREM LinksAreNotTakenOver == LinkingSpec => NoLinkIsTakenOver
<1>1. LinkingInv /\ [LinkingNext]_linkingVars =>
          [\A g \in Identity : linked[g] # NoOne /\ linked'[g] # linked[g]
              => linked'[g] = NoOne]_linkingVars
  BY LinksStep DEF LinkingInv, LinksLeaveTraces
<1>2. QED
  BY <1>1, LinkingInvariance, PTL DEF LinkingSpec, NoLinkIsTakenOver
=============================================================================
