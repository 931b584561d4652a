------------------------------- MODULE Tokens -------------------------------
(***************************************************************************)
(* Links sent by mail: createToken and consumeToken of lib/auth/tokens.ts  *)
(* with every flow that uses them - registration, the forgotten password,  *)
(* verifying an address and moving to another one.                         *)
(*                                                                         *)
(* Delete-then-create and find-then-delete are two statements each, so     *)
(* requests interleave between them.  A delete of a row that is gone       *)
(* throws, which ends the request.                                         *)
(***************************************************************************)
EXTENDS Naturals, FiniteSets

CONSTANTS
    Person,         \* people who have or may open an account
    Address,        \* e-mail addresses
    FirstAddress,   \* by person: the verified address at the start, or NoAddress
    LinkLane,       \* requests that may be in flight at once
    LinkBound,      \* bound of the model: requests begun, by lanes in use
    NoAddress

ASSUME TokensAssumption ==
    /\ NoAddress \notin Address
    /\ FirstAddress \in [Person -> Address \cup {NoAddress}]
    /\ \A p, q \in Person :
           FirstAddress[p] = FirstAddress[q] /\ p # q => FirstAddress[p] = NoAddress
    /\ IsFiniteSet(LinkLane) /\ \A n \in 1..2 : LinkBound[n] \in Nat

VARIABLES
    person,         \* User rows: address, pending address, verified or not
    links,          \* VerificationToken rows
    stale,          \* links past their expiry
    inbox,          \* the links that were mailed
    linkCall,       \* the requests in flight
    linkLanes,      \* how many requests may overlap in this behaviour
    linkCalls,      \* history: requests begun
    made,           \* history: tokens made
    worked,         \* history: how often each token was accepted
    proven,         \* history: addresses whose link was accepted
    asked           \* history: the address each person asked to move to last

tokenVars == <<person, links, stale, inbox, linkCall, linkLanes, linkCalls,
               made, worked, proven, asked>>

Purposes == {"email-verify", "password-reset", "email-change"}
PersonRow ==
    [email : Address \cup {NoAddress}, pendingEmail : Address \cup {NoAddress},
     verified : BOOLEAN]
LastLink == LinkBound[1] + LinkBound[2]
LinkId == 1..LastLink
Link == [id : LinkId, purpose : Purposes, address : Address]

Holder(a) == {p \in Person : person[p].email = a}
Taken(a) == Holder(a) # {}

NoRequest == [pc |-> "idle"]
InFlight == {l \in LinkLane : linkCall[l] # NoRequest}

StartRequest(l, request) ==
    /\ linkCall[l] = NoRequest
    /\ Cardinality(InFlight) < linkLanes
    /\ linkCalls < LinkBound[linkLanes]
    /\ linkCalls' = linkCalls + 1
    /\ linkCall' = [linkCall EXCEPT ![l] = request]
    /\ UNCHANGED <<linkLanes, person, links, stale, inbox, made, worked, proven>>

Continue(l, request) ==
    linkCall' = [linkCall EXCEPT ![l] = request] /\ UNCHANGED <<linkLanes, linkCalls, asked>>
Stop(l) == Continue(l, NoRequest)

ToMail(purpose, a) == [pc |-> "revoke", purpose |-> purpose, address |-> a]

TokensInit ==
    /\ person = [p \in Person |->
           [email |-> FirstAddress[p], pendingEmail |-> NoAddress,
            verified |-> FirstAddress[p] # NoAddress]]
    /\ links = {} /\ stale = {} /\ inbox = {}
    /\ linkCall = [l \in LinkLane |-> NoRequest]
    /\ linkLanes \in 1..Cardinality(LinkLane) /\ linkCalls = 0
    /\ made = 0 /\ worked = [i \in LinkId |-> 0]
    /\ proven = {FirstAddress[p] : p \in Person} \ {NoAddress}
    /\ asked = [p \in Person |-> NoAddress]

---------------------------------------------------------------------------
(* Asking for a link                                                       *)

\* registerUser: nobody has the address, then the row is created.
Register(l, p, a) ==
    /\ person[p].email = NoAddress /\ ~Taken(a)
    /\ StartRequest(l, [pc |-> "create user", who |-> p, address |-> a])
    /\ UNCHANGED asked

CreateUser(l) ==
    /\ linkCall[l].pc = "create user"
    /\ LET p == linkCall[l].who  a == linkCall[l].address IN
       IF Taken(a) \/ person[p].email # NoAddress
       THEN Stop(l) /\ UNCHANGED person      \* the unique index throws
       ELSE /\ person' = [person EXCEPT ![p].email = a]
            /\ Continue(l, ToMail("email-verify", a))
    /\ UNCHANGED <<links, stale, inbox, made, worked, proven>>

\* requestPasswordReset, and an administrator's sendPasswordResetTo.
ForgotPassword(l, a) ==
    /\ Taken(a)
    /\ StartRequest(l, ToMail("password-reset", a))
    /\ UNCHANGED asked

ResendVerification(l, a) ==
    /\ \E p \in Holder(a) : ~person[p].verified
    /\ StartRequest(l, ToMail("email-verify", a))
    /\ UNCHANGED asked

\* requestEmailChange: the address is free; then it is noted, then mailed.
RequestEmailChange(l, p, a) ==
    /\ person[p].email \notin {NoAddress, a} /\ ~Taken(a)
    /\ StartRequest(l, [pc |-> "note address", who |-> p, address |-> a])
    /\ UNCHANGED asked

\* Mutant: the address is in force before its link was opened.
MoveAtOnce(l) ==
    /\ linkCall[l].pc = "note address"
    /\ person' = [person EXCEPT ![linkCall[l].who].email = linkCall[l].address]
    /\ asked' = [asked EXCEPT ![linkCall[l].who] = linkCall[l].address]
    /\ linkCall' = [linkCall EXCEPT ![l] = ToMail("email-change", linkCall[l].address)]
    /\ UNCHANGED <<linkLanes, linkCalls, links, stale, inbox, made, worked, proven>>

\* Mutant: an address asked for earlier stays the one noted.
NoteFirstAddress(l) ==
    /\ linkCall[l].pc = "note address"
    /\ person' = [person EXCEPT ![linkCall[l].who].pendingEmail =
                      IF @ = NoAddress THEN linkCall[l].address ELSE @]
    /\ asked' = [asked EXCEPT ![linkCall[l].who] = linkCall[l].address]
    /\ linkCall' = [linkCall EXCEPT ![l] = ToMail("email-change", linkCall[l].address)]
    /\ UNCHANGED <<linkLanes, linkCalls, links, stale, inbox, made, worked, proven>>

NoteAddress(l) ==
    /\ linkCall[l].pc = "note address"
    /\ person' = [person EXCEPT ![linkCall[l].who].pendingEmail = linkCall[l].address]
    /\ asked' = [asked EXCEPT ![linkCall[l].who] = linkCall[l].address]
    /\ linkCall' = [linkCall EXCEPT ![l] = ToMail("email-change", linkCall[l].address)]
    /\ UNCHANGED <<linkLanes, linkCalls, links, stale, inbox, made, worked, proven>>

\* Mutant: earlier links are left to expire.
RevokeNothing(l) ==
    /\ linkCall[l].pc = "revoke"
    /\ Continue(l, [linkCall[l] EXCEPT !.pc = "create"])
    /\ UNCHANGED <<person, links, stale, inbox, made, worked, proven>>

\* createToken: deleteMany for the purpose and address, then create.
RevokeEarlier(l) ==
    /\ linkCall[l].pc = "revoke"
    /\ links' = {k \in links : <<k.purpose, k.address>>
                                  # <<linkCall[l].purpose, linkCall[l].address>>}
    /\ Continue(l, [linkCall[l] EXCEPT !.pc = "create"])
    /\ UNCHANGED <<person, stale, inbox, made, worked, proven>>

CreateLink(l) ==
    /\ linkCall[l].pc = "create" /\ made < LastLink
    /\ made' = made + 1
    /\ LET k == [id |-> made', purpose |-> linkCall[l].purpose,
                 address |-> linkCall[l].address]
       IN /\ links' = links \cup {k}
          /\ Continue(l, [pc |-> "send", link |-> k])
    /\ UNCHANGED <<person, stale, inbox, worked, proven>>

\* sendEmail, which may fail and end the request.
Send(l) ==
    /\ linkCall[l].pc = "send"
    /\ inbox' \in {inbox, inbox \cup {linkCall[l].link}}
    /\ Stop(l)
    /\ UNCHANGED <<person, links, stale, made, worked, proven>>

---------------------------------------------------------------------------
(* Opening a link                                                          *)

\* consumeToken finds the row by the token alone ...
OpenLink(l, k) ==
    /\ k \in inbox /\ k \in links
    /\ StartRequest(l, [pc |-> "burn", link |-> k])
    /\ UNCHANGED asked

\* Mutant: deleting a row that is gone is not an error.
BurnQuietly(l) ==
    /\ linkCall[l].pc = "burn"
    /\ LET k == linkCall[l].link IN
       /\ links' = links \ {k}
       /\ worked' = [worked EXCEPT ![k.id] = @ + 1]
       /\ Continue(l, [pc |-> k.purpose, link |-> k])
    /\ UNCHANGED <<person, stale, inbox, made, proven>>

\* ... and deletes it, which throws when another request already did.
BurnLink(l) ==
    /\ linkCall[l].pc = "burn"
    /\ LET k == linkCall[l].link IN
       /\ links' = links \ {k}
       /\ IF k \in links /\ k.id \notin stale
          THEN /\ worked' = [worked EXCEPT ![k.id] = @ + 1]
               /\ proven' = proven \cup {k.address}
               /\ Continue(l, [pc |-> k.purpose, link |-> k])
          ELSE Stop(l) /\ UNCHANGED <<worked, proven>>
    /\ UNCHANGED <<person, stale, inbox, made>>

\* verifyEmail: whoever has the address by now.
MarkVerified(l) ==
    /\ linkCall[l].pc = "email-verify"
    /\ person' = [p \in Person |->
           IF p \in Holder(linkCall[l].link.address)
           THEN [person[p] EXCEPT !.verified = TRUE] ELSE person[p]]
    /\ Stop(l)
    /\ UNCHANGED <<links, stale, inbox, made, worked, proven>>

\* resetPassword: the rest of it is SignIn's ResetPassword.
ApplyReset(l) ==
    /\ linkCall[l].pc = "password-reset"
    /\ Stop(l)
    /\ UNCHANGED <<person, links, stale, inbox, made, worked, proven>>

\* verifyEmailChange: somebody waits for this address and nobody has it.
FindWaiting(l) ==
    /\ linkCall[l].pc = "email-change"
    /\ LET a == linkCall[l].link.address
           waiting == {p \in Person : person[p].pendingEmail = a}
       IN IF waiting = {} \/ Taken(a)
          THEN Stop(l)
          ELSE \E p \in waiting :
                  Continue(l, [pc |-> "move", who |-> p, address |-> a])
    /\ UNCHANGED <<person, links, stale, inbox, made, worked, proven>>

MoveAddress(l) ==
    /\ linkCall[l].pc = "move"
    /\ person' = IF Taken(linkCall[l].address) THEN person
                 ELSE [person EXCEPT ![linkCall[l].who] =
                          [email |-> linkCall[l].address, pendingEmail |-> NoAddress,
                           verified |-> TRUE]]
    /\ Stop(l)
    /\ UNCHANGED <<links, stale, inbox, made, worked, proven>>

Expire ==
    /\ \E k \in links : k.id \notin stale /\ stale' = stale \cup {k.id}
    /\ UNCHANGED <<person, links, inbox, linkCall, linkLanes, linkCalls, made,
                   worked, proven, asked>>

TokensNext ==
    \/ \E l \in LinkLane :
          \/ \E p \in Person, a \in Address : Register(l, p, a) \/ RequestEmailChange(l, p, a)
          \/ \E a \in Address : ForgotPassword(l, a) \/ ResendVerification(l, a)
          \/ \E k \in inbox : OpenLink(l, k)
          \/ CreateUser(l) \/ NoteAddress(l) \/ RevokeEarlier(l) \/ CreateLink(l)
          \/ Send(l) \/ BurnLink(l) \/ MarkVerified(l) \/ ApplyReset(l)
          \/ FindWaiting(l) \/ MoveAddress(l)
    \/ Expire

TokensSpec == TokensInit /\ [][TokensNext]_tokenVars

---------------------------------------------------------------------------

\* Every row has its shape, and no two accounts share an address.
TokensTypeOK ==
    /\ person \in [Person -> PersonRow]
    /\ links \subseteq Link /\ inbox \subseteq Link /\ stale \subseteq 1..made
    /\ \A p, q \in Person :
          person[p].email = person[q].email /\ p # q => person[p].email = NoAddress

\* "Single use, whether it worked or not" (lib/auth/tokens.ts), for any
\* overlap: the rows implement one-time secrets, because the second delete of
\* a row throws.
Abstract == INSTANCE OneTimeSecret
    WITH Secret <- LinkId, issued <- 1..made,
         live <- {k.id : k \in links} \ stale, uses <- worked
LinksAreOneTime == Abstract!SecretSpec

\* "One outstanding token per (purpose, email) at a time" (lib/auth/tokens.ts),
\* which holds when nothing overlaps; k requests at once leave at most k.
FewLinksOutstanding ==
    \A purpose \in Purposes, a \in Address :
        Cardinality({k \in links : k.purpose = purpose /\ k.address = a}) <= linkLanes

\* An address is marked as verified only after a link mailed to it was opened,
\* even when the address changes hands while the link is being opened.
VerifiedAddressIsProven ==
    \A p \in Person : person[p].verified => person[p].email \in proven

\* An account moves to the address its owner asked for last, not to one they
\* have thought better of (one request at a time).
LastAskedWins ==
    [][\A p \in Person :
          linkLanes = 1 /\ person[p].email # NoAddress /\ person'[p].email # person[p].email
              => person'[p].email = asked[p]]_tokenVars
=============================================================================
