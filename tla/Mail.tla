-------------------------------- MODULE Mail --------------------------------
(***************************************************************************)
(* The mail settings and the messages sent by them (lib/smtp.ts,           *)
(* lib/email.ts, dashboard/settings/actions.ts).  The server is read       *)
(* through a cache that each process keeps for a minute, the password from *)
(* the database for every message; a save writes them together and empties *)
(* the cache of its own process only.                                      *)
(*                                                                         *)
(* A save is known by its number, and so are the server and the password   *)
(* that came with it.                                                      *)
(***************************************************************************)
EXTENDS Naturals

CONSTANTS
    Worker,         \* processes of the site
    CacheLife,      \* CACHE_MS
    MailClock,      \* bound of the model: the moments of a behaviour
    SaveBoundary,   \* bound of the model: saves
    LetterBound     \* bound of the model: messages and tests

ASSUME MailAssumption ==
    /\ CacheLife \in Nat \ {0} /\ MailClock \in Nat \ {0}
    /\ SaveBoundary \in Nat /\ LetterBound \in Nat

VARIABLES
    moment,
    server,         \* smtp.config: the save it is from, and whether SMTP is on
    secret,         \* smtp.password: the save it is from
    saver,          \* history: the process of the last save
    known,          \* by process, the cache: a server, since when, and whether it was old at once
    letter,         \* by process, the message under way
    letters,        \* counter of the bound
    replaced,       \* history: by save, the moment of the next one, or 0
    pairs,          \* history: by save, the password that was stored with it
    late,           \* history: a message took a server that was replaced too long ago
    mixed           \* history: a server was given the password of another, for the same reason

mailVars == <<moment, server, secret, saver, known, letter, letters, replaced, pairs, late, mixed>>

Unknown == [at |-> 0, save |-> 0, on |-> FALSE, old |-> FALSE]
NoLetter == [pc |-> "idle", save |-> 0, on |-> FALSE, fresh |-> FALSE, secret |-> 0, test |-> FALSE]

MailInit ==
    /\ moment = 1 /\ letters = 0
    /\ server = [save |-> 0, on |-> TRUE] /\ secret = 0 /\ saver \in Worker
    /\ known = [w \in Worker |-> Unknown]
    /\ letter = [w \in Worker |-> NoLetter]
    /\ replaced = [s \in 0..SaveBoundary |-> 0]
    /\ pairs = [s \in 0..SaveBoundary |-> 0]
    /\ late = FALSE /\ mixed = FALSE

Hold(w, l) == letter' = [letter EXCEPT ![w] = l]
HistoryStays == UNCHANGED <<saver, replaced, pairs, late, mixed>>

\* Mutant: the process that saves goes on with what it knew.
KeepKnown(w) == known

\* resetSmtpCache.
Forget(w) == [known EXCEPT ![w] = Unknown]

\* One transaction; the password may be left alone.
SaveMail(w) ==
    LET s == server.save + 1 IN
    /\ s <= SaveBoundary
    /\ \E on, retyped \in BOOLEAN :
           /\ server' = [save |-> s, on |-> on]
           /\ secret' = IF retyped THEN s ELSE secret
           /\ pairs' = [pairs EXCEPT ![s] = IF retyped THEN s ELSE secret]
    /\ known' = Forget(w) /\ saver' = w
    /\ replaced' = [replaced EXCEPT ![server.save] = moment]
    /\ UNCHANGED <<moment, letter, letters, late, mixed>>

BeginLetter(w) ==
    /\ letter[w].pc = "idle" /\ letters < LetterBound
    /\ letters' = letters + 1
    /\ \E test \in BOOLEAN : Hold(w, [NoLetter EXCEPT !.pc = "config", !.test = test])
    /\ UNCHANGED <<moment, server, secret, known>> /\ HistoryStays

\* Mutant: the cache is kept for ever.
NeverExpires(k) == k # Unknown

Good(k) == k # Unknown /\ moment - k.at < CacheLife

\* A server taken from here on: too late, if it was replaced so long ago
\* that a cache that was right when it was filled would have let it go.
TooLate(s, old) == ~old /\ s # server.save /\ moment - replaced[s] >= CacheLife

Take(w, k) ==
    /\ Hold(w, IF k.on THEN [letter[w] EXCEPT !.pc = "secret", !.save = k.save, !.on = TRUE, !.fresh = ~k.old]
               ELSE IF letter[w].test THEN NoLetter    \* SMTP is not switched on
               ELSE [letter[w] EXCEPT !.pc = "other route", !.save = k.save])
    /\ late' = (late \/ TooLate(k.save, k.old))

TakeKnown(w) ==
    /\ letter[w].pc = "config" /\ Good(known[w])
    /\ Take(w, known[w])
    /\ UNCHANGED <<moment, server, secret, saver, known, letters, replaced, pairs, mixed>>

ReadServer(w) ==
    /\ letter[w].pc = "config" /\ ~Good(known[w])
    /\ Hold(w, [letter[w] EXCEPT !.pc = "keep", !.save = server.save, !.on = server.on])
    /\ UNCHANGED <<moment, server, secret, known, letters>> /\ HistoryStays

\* The answer of the database is kept from now on, whatever was saved since.
KeepServer(w) ==
    LET k == [at |-> moment, save |-> letter[w].save, on |-> letter[w].on,
              old |-> letter[w].save # server.save] IN
    /\ letter[w].pc = "keep"
    /\ known' = [known EXCEPT ![w] = k]
    /\ Take(w, k)
    /\ UNCHANGED <<moment, server, secret, saver, letters, replaced, pairs, mixed>>

ReadSecret(w) ==
    /\ letter[w].pc = "secret"
    /\ Hold(w, [letter[w] EXCEPT !.pc = "send", !.secret = secret])
    /\ mixed' = (mixed \/ (secret # pairs[letter[w].save] /\ TooLate(letter[w].save, ~letter[w].fresh)))
    /\ UNCHANGED <<moment, server, secret, saver, known, letters, replaced, pairs, late>>

\* Accepted, or refused and logged; the test verifies first, then sends as
\* any other caller does, and alone is told what went wrong.
SendLetter(w) ==
    /\ letter[w].pc \in {"send", "other route"}
    /\ \/ Hold(w, NoLetter)
       \/ letter[w].test /\ Hold(w, [NoLetter EXCEPT !.pc = "config"])
    /\ UNCHANGED <<moment, server, secret, known, letters>> /\ HistoryStays

\* The database and the mail server answer within a moment.
MailTimePasses ==
    /\ moment < MailClock
    /\ \A w \in Worker : letter[w].pc \notin {"keep", "secret"}
    /\ moment' = moment + 1
    /\ UNCHANGED <<server, secret, known, letter, letters>> /\ HistoryStays

MailNext ==
    \/ \E w \in Worker :
           \/ SaveMail(w) \/ BeginLetter(w) \/ TakeKnown(w) \/ ReadServer(w) \/ KeepServer(w)
           \/ ReadSecret(w) \/ SendLetter(w)
    \/ MailTimePasses

MailSpec == MailInit /\ [][MailNext]_mailVars

---------------------------------------------------------------------------
MailTypeOK ==
    /\ moment \in 1..MailClock /\ letters \in 0..LetterBound
    /\ server.save \in 0..SaveBoundary /\ secret \in 0..server.save
    /\ \A w \in Worker : known[w].save <= server.save /\ known[w].at <= moment

\* Where a save was made it counts at once.
SaverKnows == known[saver].save = server.save \/ known[saver] = Unknown \/ known[saver].old

\* A save reaches every process within the life of the cache: no message
\* goes by a server, or carries the password of another, that was replaced
\* longer ago; unless a save fell between the reading and the keeping.
SavedMailIsUsed == SaverKnows /\ ~late /\ ~mixed
=============================================================================
