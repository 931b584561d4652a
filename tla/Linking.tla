------------------------------- MODULE Linking -------------------------------
(***************************************************************************)
(* Google identities and local accounts: lib/auth/accountLinking.ts, the   *)
(* signIn callback of lib/auth/config.ts, the signed cookies of            *)
(* lib/auth/oauthFlow.ts, the adapter Auth.js calls, and connecting and    *)
(* disconnecting on the account page.                                      *)
(*                                                                         *)
(* Every return from Google is a sequence of reads and writes, and several *)
(* browsers may be coming back at once, while accounts change under them.  *)
(***************************************************************************)
EXTENDS Naturals, FiniteSets

CONSTANTS
    Account,        \* rows of User, those to be created included
    Identity,       \* Google accounts
    Browser,        \* browsers, each with one return from Google in flight
    Mailbox,        \* addresses
    GoogleMail,     \* by identity: the address Google reports
    FlowBound,      \* bound of the model: returns from Google
    VersionBound,   \* bound of the model: revocations of sessions, all of one account
    NoOne           \* no account, no address, no identity

ASSUME LinkingAssumption ==
    /\ NoOne \notin Account \cup Identity
    /\ GoogleMail \in [Identity -> Mailbox] /\ NoOne \notin Mailbox
    /\ FlowBound \in Nat /\ VersionBound \in Nat

VARIABLES
    holder,         \* User rows
    vouched,        \* identities whose address Google says is verified
    linked,         \* Account rows: identity -> account, or NoOne
    connectCookie,  \* by browser: "Connect Google" in progress, or NoOne
    consentCookie,  \* by browser: a record of consent is held
    flow,           \* by browser: the return from Google being served
    removal,        \* accounts whose disconnection passed its check
    returns,        \* history: returns from Google
    verifiedAs,     \* history: <<account, address>> once verified together
    wanted,         \* history: <<account, identity>> brought back to Connect
    bornOf,         \* history: by account, the identity it was created for
    agreed,         \* history: the terms were accepted in some browser
    severed,        \* history: identities whose link was removed
    bereft          \* history: accounts whose identity was taken meanwhile

linkingVars == <<holder, vouched, linked, connectCookie, consentCookie, flow, removal,
                 returns, verifiedAs, wanted, bornOf, agreed, severed, bereft>>
flowHistory == <<returns, verifiedAs, wanted, bornOf, agreed, severed, bereft>>

HolderRow == [status : {"none", "ACTIVE", "SUSPENDED", "erased"}, email : Mailbox \cup {NoOne},
              verified : BOOLEAN, password : BOOLEAN, version : 0..VersionBound]
Unused == [status |-> "none", email |-> NoOne, verified |-> FALSE,
           password |-> FALSE, version |-> 0]
NoFlow == [pc |-> "idle"]

IsActive(a) == holder[a].status = "ACTIVE"
WithMail(m) == {a \in Account : holder[a].email = m}
LinksOf(a) == {g \in Identity : linked[g] = a}

LinkingInit ==
    /\ holder = [a \in Account |-> Unused]
    /\ vouched \in SUBSET Identity
    /\ linked = [g \in Identity |-> NoOne]
    /\ connectCookie = [b \in Browser |-> NoOne]
    /\ consentCookie = [b \in Browser |-> FALSE]
    /\ flow = [b \in Browser |-> NoFlow]
    /\ removal = {} /\ returns = 0 /\ verifiedAs = {} /\ wanted = {}
    /\ bornOf = [a \in Account |-> NoOne] /\ agreed = FALSE /\ severed = {} /\ bereft = {}

\* account.deleteMany for one account.
Sever(a) ==
    /\ linked' = [g \in Identity |-> IF linked[g] = a THEN NoOne ELSE linked[g]]
    /\ severed' = severed \cup LinksOf(a)

---------------------------------------------------------------------------
(* The account's own life, as far as linking reads it                      *)

\* One account's sessions are revoked, up to the bound, in a behaviour.
MayRevoke(a) ==
    /\ IsActive(a) /\ holder[a].version < VersionBound
    /\ \A c \in Account \ {a} : holder[c].version = 0

\* registerUser: an address and a password, nothing proved yet.
RegisterHolder(a, m) ==
    /\ holder[a].status = "none" /\ WithMail(m) = {}
    /\ holder' = [holder EXCEPT ![a] =
           [Unused EXCEPT !.status = "ACTIVE", !.email = m, !.password = TRUE]]
    /\ UNCHANGED <<vouched, linked, connectCookie, consentCookie, flow, removal, flowHistory>>

VerifyHolder(a) ==
    /\ IsActive(a) /\ ~holder[a].verified
    /\ holder' = [holder EXCEPT ![a].verified = TRUE]
    /\ verifiedAs' = verifiedAs \cup {<<a, holder[a].email>>}
    /\ UNCHANGED <<vouched, linked, connectCookie, consentCookie, flow, removal, returns,
                   wanted, bornOf, agreed, severed, bereft>>

\* verifyEmailChange: the new address is proved by the link that was opened.
MoveHolder(a, m) ==
    /\ IsActive(a) /\ holder[a].password /\ WithMail(m) = {}
    /\ holder' = [holder EXCEPT ![a].email = m, ![a].verified = TRUE]
    /\ verifiedAs' = verifiedAs \cup {<<a, m>>}
    /\ UNCHANGED <<vouched, linked, connectCookie, consentCookie, flow, removal, returns,
                   wanted, bornOf, agreed, severed, bereft>>

SuspendHolder(a) ==
    /\ MayRevoke(a)
    /\ holder' = [holder EXCEPT ![a].status = "SUSPENDED", ![a].version = @ + 1]
    /\ UNCHANGED <<vouched, linked, connectCookie, consentCookie, flow, removal, flowHistory>>

\* revokeAllSessions, alone or with a password that was set (resetPassword).
RevokeHolder(a) ==
    /\ MayRevoke(a)
    /\ \E password \in {holder[a].password, TRUE} :
          holder' = [holder EXCEPT ![a].version = @ + 1, ![a].password = password]
    /\ UNCHANGED <<vouched, linked, connectCookie, consentCookie, flow, removal, flowHistory>>

\* anonymiseAccount: the links go, the address becomes a stub.
EraseHolder(a) ==
    /\ MayRevoke(a)
    /\ holder' = [holder EXCEPT ![a] =
           [Unused EXCEPT !.status = "erased", !.version = holder[a].version + 1]]
    /\ Sever(a)
    /\ UNCHANGED <<vouched, connectCookie, consentCookie, flow, removal, returns, verifiedAs,
                   wanted, bornOf, agreed, bereft>>

---------------------------------------------------------------------------
(* Leaving for Google                                                      *)

\* A browser that leaves comes back: nothing is started past the bound.
MayLeave(b) == flow[b] = NoFlow /\ returns < FlowBound

\* startGoogleSignIn, startGoogleSignUp: consent is recorded first.
LeaveForGoogle(b) ==
    /\ MayLeave(b) /\ ~consentCookie[b]
    /\ consentCookie' = [consentCookie EXCEPT ![b] = TRUE]
    /\ agreed' = TRUE
    /\ UNCHANGED <<vouched, holder, linked, connectCookie, flow, removal, returns,
                   verifiedAs, wanted, bornOf, severed, bereft>>

\* connectGoogle, by somebody who is signed in to the account.
ConnectGoogle(b, a) ==
    /\ MayLeave(b) /\ IsActive(a)
    /\ connectCookie' = [connectCookie EXCEPT ![b] = [account |-> a, version |-> holder[a].version]]
    /\ UNCHANGED <<vouched, holder, linked, consentCookie, flow, removal, flowHistory>>

\* Both cookies expire by themselves.
CookieExpires(b) ==
    /\ \/ consentCookie[b] /\ consentCookie' = [consentCookie EXCEPT ![b] = FALSE]
          /\ UNCHANGED connectCookie
       \/ connectCookie[b] # NoOne /\ connectCookie' = [connectCookie EXCEPT ![b] = NoOne]
          /\ UNCHANGED consentCookie
    /\ UNCHANGED <<vouched, holder, linked, flow, removal, flowHistory>>

---------------------------------------------------------------------------
(* Coming back                                                             *)

Proceed(b, step) == flow' = [flow EXCEPT ![b] = step]
FlowAt(b, pc) == flow[b].pc = pc

\* The signIn callback reads the connect cookie before anything else.
GoogleReturn(b, g) ==
    /\ FlowAt(b, "idle") /\ returns < FlowBound
    /\ returns' = returns + 1
    /\ LET cookie == connectCookie[b] IN
       IF cookie = NoOne THEN Proceed(b, [pc |-> "decide", as |-> g]) /\ UNCHANGED wanted
       ELSE /\ Proceed(b, [pc |-> "connect", as |-> g, cookie |-> cookie])
            /\ wanted' = wanted \cup {<<cookie.account, g>>}
    /\ UNCHANGED <<vouched, holder, linked, connectCookie, consentCookie, removal,
                   verifiedAs, bornOf, agreed, severed, bereft>>

\* The owner has to be active at the version the cookie names, and the
\* identity must not reach any account yet.
CheckConnect(b) ==
    /\ FlowAt(b, "connect")
    /\ LET owner == flow[b].cookie.account  g == flow[b].as IN
       IF IsActive(owner) /\ holder[owner].version = flow[b].cookie.version
          /\ linked[g] = NoOne
       THEN Proceed(b, [pc |-> "join", as |-> g, to |-> owner, next |-> NoFlow])
       ELSE Proceed(b, NoFlow)
    /\ UNCHANGED <<vouched, holder, linked, connectCookie, consentCookie, removal, flowHistory>>

\* Mutant: what Google says is enough.
MayJoinVouched(g, a) == IsActive(a) /\ g \in vouched

\* What an unlinked identity whose address somebody here holds may do.
MayJoin(g, a) == IsActive(a) /\ g \in vouched /\ holder[a].verified

\* decideLinking: allow what is linked or new, join what both sides proved,
\* refuse the rest.
DecideLinking(b) ==
    /\ FlowAt(b, "decide")
    /\ LET g == flow[b].as
           existing == WithMail(GoogleMail[g])
           lookUp == [pc |-> "look up", as |-> g]
           join(a) == [pc |-> "join", as |-> g, to |-> a,
                       next |-> [pc |-> "find user", as |-> g]]
       IN \/ /\ linked[g] # NoOne
             /\ Proceed(b, IF IsActive(linked[g]) THEN lookUp ELSE NoFlow)
          \/ /\ linked[g] = NoOne /\ existing = {}
             /\ Proceed(b, lookUp)
          \/ /\ linked[g] = NoOne
             /\ \E a \in existing : Proceed(b, IF MayJoin(g, a) THEN join(a) ELSE NoFlow)
    /\ UNCHANGED <<vouched, holder, linked, connectCookie, consentCookie, removal, flowHistory>>

\* Mutant: the row is written over whatever the identity reached.
LinkOver(b) ==
    /\ FlowAt(b, "join")
    /\ linked' = [linked EXCEPT ![flow[b].as] = flow[b].to]
    /\ Proceed(b, flow[b].next)
    /\ UNCHANGED <<vouched, holder, connectCookie, consentCookie, removal, flowHistory>>

\* linkGoogleAccount: the unique index makes a second link of an identity throw.
LinkGoogleAccount(b) ==
    /\ FlowAt(b, "join")
    /\ IF linked[flow[b].as] = NoOne
       THEN linked' = [linked EXCEPT ![flow[b].as] = flow[b].to] /\ Proceed(b, flow[b].next)
       ELSE Proceed(b, NoFlow) /\ UNCHANGED linked
    /\ UNCHANGED <<vouched, holder, connectCookie, consentCookie, removal, flowHistory>>

\* Mutant: the consent cookie is not asked for.
LookUpWithoutConsent(b) ==
    /\ FlowAt(b, "look up")
    /\ Proceed(b, [pc |-> "find user", as |-> flow[b].as])
    /\ UNCHANGED <<vouched, holder, linked, connectCookie, consentCookie, removal, flowHistory>>

\* No account behind the identity: the adapter may create one, with consent.
LookUp(b) ==
    /\ FlowAt(b, "look up")
    /\ Proceed(b, IF linked[flow[b].as] # NoOne \/ consentCookie[b]
                  THEN [pc |-> "find user", as |-> flow[b].as] ELSE NoFlow)
    /\ UNCHANGED <<vouched, holder, linked, connectCookie, consentCookie, removal, flowHistory>>

\* Auth.js: getUserByAccount signs in; else getUserByEmail refuses a known
\* address; else a user is to be created.
FindUser(b) ==
    /\ FlowAt(b, "find user")
    /\ LET g == flow[b].as IN
       Proceed(b, IF linked[g] # NoOne \/ WithMail(GoogleMail[g]) # {}
                  THEN NoFlow ELSE [pc |-> "create user", as |-> g])
    /\ UNCHANGED <<vouched, holder, linked, connectCookie, consentCookie, removal, flowHistory>>

\* Mutant: the index on the address is missing.
CreateUserAnyway(b, a) ==
    /\ FlowAt(b, "create user") /\ holder[a].status = "none"
    /\ holder' = [holder EXCEPT ![a] =
           [Unused EXCEPT !.status = "ACTIVE", !.email = GoogleMail[flow[b].as]]]
    /\ bornOf' = [bornOf EXCEPT ![a] = flow[b].as]
    /\ Proceed(b, [pc |-> "link user", as |-> flow[b].as, to |-> a])
    /\ UNCHANGED <<vouched, linked, connectCookie, consentCookie, removal, returns,
                   wanted, verifiedAs, agreed, severed, bereft>>

\* createUser: the address is unique; verified only when Google vouches.
CreateUserOf(b, a) ==
    /\ FlowAt(b, "create user") /\ holder[a].status = "none"
    /\ LET g == flow[b].as  m == GoogleMail[g] IN
       IF WithMail(m) # {}
       THEN Proceed(b, NoFlow) /\ UNCHANGED <<holder, bornOf, verifiedAs>>
       ELSE /\ holder' = [holder EXCEPT ![a] =
                   [Unused EXCEPT !.status = "ACTIVE", !.email = m, !.verified = g \in vouched]]
            /\ bornOf' = [bornOf EXCEPT ![a] = g]
            /\ verifiedAs' = verifiedAs \cup (IF g \in vouched THEN {<<a, m>>} ELSE {})
            /\ Proceed(b, [pc |-> "link user", as |-> g, to |-> a])
    /\ UNCHANGED <<vouched, linked, connectCookie, consentCookie, removal, returns, wanted,
                   agreed, severed, bereft>>

\* linkAccount: the same unique index; a refusal leaves the user as it is.
LinkNewUser(b) ==
    /\ FlowAt(b, "link user")
    /\ LET g == flow[b].as  a == flow[b].to IN
       IF linked[g] = NoOne
       THEN linked' = [linked EXCEPT ![g] = a] /\ UNCHANGED bereft
       ELSE bereft' = bereft \cup {a} /\ UNCHANGED linked
    /\ Proceed(b, NoFlow)
    /\ UNCHANGED <<vouched, holder, connectCookie, consentCookie, removal, returns,
                   verifiedAs, wanted, bornOf, agreed, severed>>

---------------------------------------------------------------------------
(* Disconnecting                                                           *)

\* Mutant: the password is not looked at.
AskToDisconnectAnyway(a) ==
    /\ IsActive(a) /\ LinksOf(a) # {}
    /\ removal' = removal \cup {a}
    /\ UNCHANGED <<vouched, holder, linked, connectCookie, consentCookie, flow, flowHistory>>

\* disconnectGoogle is refused when no password is left (no other provider
\* is configured) ...
AskToDisconnect(a) ==
    /\ IsActive(a) /\ LinksOf(a) # {} /\ holder[a].password
    /\ removal' = removal \cup {a}
    /\ UNCHANGED <<vouched, holder, linked, connectCookie, consentCookie, flow, flowHistory>>

\* ... and then deletes what is linked by that time.
Disconnect(a) ==
    /\ a \in removal
    /\ removal' = removal \ {a}
    /\ Sever(a)
    /\ UNCHANGED <<vouched, holder, connectCookie, consentCookie, flow, returns, verifiedAs,
                   wanted, bornOf, agreed, bereft>>

LinkingNext ==
    \/ \E a \in Account :
          \/ \E m \in Mailbox : RegisterHolder(a, m) \/ MoveHolder(a, m)
          \/ VerifyHolder(a) \/ SuspendHolder(a) \/ RevokeHolder(a) \/ EraseHolder(a)
          \/ AskToDisconnect(a) \/ Disconnect(a)
    \/ \E b \in Browser :
          \/ LeaveForGoogle(b) \/ CookieExpires(b)
          \/ \E a \in Account : ConnectGoogle(b, a) \/ CreateUserOf(b, a)
          \/ \E g \in Identity : GoogleReturn(b, g)
          \/ CheckConnect(b) \/ DecideLinking(b) \/ LinkGoogleAccount(b) \/ LookUp(b)
          \/ FindUser(b) \/ LinkNewUser(b)

---------------------------------------------------------------------------

\* Every row has its shape; addresses are unique among accounts.
LinkingTypeOK ==
    /\ holder \in [Account -> HolderRow]
    /\ linked \in [Identity -> Account \cup {NoOne}]
    /\ \A a, c \in Account : holder[a].email = holder[c].email /\ a # c => holder[a].email = NoOne
    /\ removal \subseteq Account /\ returns \in 0..FlowBound

\* An identity reaches an account only because it came back to a Connect
\* started in that account, because the account was created for it, or
\* because Google vouches for an address the account had itself proved: two
\* tabs, a move to another address or an erasure in between change nothing.
NoUnprovenMerge ==
    \A g \in Identity : linked[g] # NoOne =>
        \/ <<linked[g], g>> \in wanted
        \/ bornOf[linked[g]] = g
        \/ g \in vouched /\ <<linked[g], GoogleMail[g]>> \in verifiedAs

\* An account comes from Google only after the terms were accepted ("consent
\* has to be recorded before the browser leaves for Google",
\* app/(auth)/google.ts), except for an identity whose link was removed after
\* the callback had seen it and before the adapter looked.
ConsentPrecedesAccount ==
    \A a \in Account : bornOf[a] # NoOne => agreed \/ bornOf[a] \in severed

\* An active account without a password is reachable through Google, or is
\* being created, or lost its identity to another account meanwhile.
WayBackIn ==
    \A a \in Account : IsActive(a) /\ ~holder[a].password =>
        \/ LinksOf(a) # {} \/ a \in bereft
        \/ \E b \in Browser : FlowAt(b, "link user") /\ flow[b].to = a

\* An identity that reaches an account does not move to another one without
\* having been disconnected or erased in between.
NoLinkIsTakenOver ==
    [][\A g \in Identity : linked[g] # NoOne /\ linked'[g] # linked[g]
           => linked'[g] = NoOne]_linkingVars
=============================================================================
