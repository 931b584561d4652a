------------------------------- MODULE Phone --------------------------------
(*************************************************************************)
(* A phone number on an account, and the section of the account page it  *)
(* is entered in, in two parts.                                          *)
(*************************************************************************)
EXTENDS Naturals, FiniteSets

(*************************************************************************)
(* A phone number on an account: startPhoneVerification, confirmPhone    *)
(* and removePhone of app/(public)/account/actions.ts with lib/phone.ts. *)
(*                                                                       *)
(* Confirming reads the row, compares the code and then writes by id, so *)
(* the number may be another one by the time it is marked as verified.   *)
(*************************************************************************)

CONSTANTS
    Caller,         \* accounts
    Number,         \* phone numbers
    PhoneLane,      \* requests that may be in flight at once
    PHONE_CODE_MAX_ATTEMPTS,
    PhoneBound,     \* bound of the model: requests begun, by lanes in use
    NoNumber

VARIABLES
    phone,          \* the phone columns of User
    texted,         \* codes that reached a phone: [code, number]
    phoneCall,      \* the requests in flight
    phoneLanes,     \* how many requests may overlap in this behaviour
    phoneCalls,     \* history: requests begun
    coined,         \* history: codes made
    wrong,          \* history: by code, wrong guesses answered
    shown           \* history: <<account, number>> whose texted code was entered

phoneVars == <<phone, texted, phoneCall, phoneLanes, phoneCalls, coined, wrong, shown>>

ASSUME PhoneAssumption ==
    /\ IsFiniteSet(PhoneLane) /\ PhoneBound \in [1..Cardinality(PhoneLane) -> Nat]
    /\ PHONE_CODE_MAX_ATTEMPTS \in Nat \ {0} /\ NoNumber \notin Number

\* A code per request at most; 0 is no code.
CodeId == UNION {0..PhoneBound[n] : n \in 1..Cardinality(PhoneLane)}
PhoneRow == [number : Number \cup {NoNumber}, verified : BOOLEAN, code : CodeId,
             expired : BOOLEAN, attempts : Nat]
NoPhone == [number |-> NoNumber, verified |-> FALSE, code |-> 0,
            expired |-> FALSE, attempts |-> 0]
Free == [pc |-> "idle"]

PhoneInit ==
    /\ phone = [c \in Caller |-> NoPhone]
    /\ texted = {}
    /\ phoneCall = [l \in PhoneLane |-> Free]
    /\ phoneLanes \in 1..Cardinality(PhoneLane) /\ phoneCalls = 0
    /\ coined = 0 /\ wrong = [k \in CodeId |-> 0] /\ shown = {}

BeginPhone(l, step) ==
    /\ phoneCall[l] = Free /\ phoneCalls < PhoneBound[phoneLanes]
    /\ Cardinality({k \in PhoneLane : phoneCall[k] # Free}) < phoneLanes
    /\ phoneCalls' = phoneCalls + 1
    /\ phoneCall' = [phoneCall EXCEPT ![l] = step]
    /\ UNCHANGED <<phoneLanes, phone, texted, coined, wrong, shown>>

GoOn(l, step) == phoneCall' = [phoneCall EXCEPT ![l] = step] /\ UNCHANGED <<phoneLanes, phoneCalls>>

HeldBy(n) == {c \in Caller : phone[c].number = n}

\* startPhoneVerification: nobody else has the number ...
StartPhone(l, c, n) ==
    /\ HeldBy(n) \subseteq {c}
    /\ BeginPhone(l, [pc |-> "store", who |-> c, number |-> n])

\* Mutant: there is no index on the number.
StoreAnyNumber(l) ==
    /\ phoneCall[l].pc = "store"
    /\ LET c == phoneCall[l].who  n == phoneCall[l].number IN
       /\ coined' = coined + 1
       /\ phone' = [phone EXCEPT ![c] = [NoPhone EXCEPT !.number = n, !.code = coined']]
       /\ GoOn(l, [pc |-> "text", code |-> coined', number |-> n])
    /\ UNCHANGED <<texted, wrong, shown>>

\* Mutant: phoneVerifiedAt is not reset with the number.
StoreVerified(l) ==
    /\ phoneCall[l].pc = "store"
    /\ LET c == phoneCall[l].who  n == phoneCall[l].number IN
       /\ HeldBy(n) \subseteq {c} /\ coined' = coined + 1
       /\ phone' = [phone EXCEPT ![c] = [phone[c] EXCEPT !.number = n, !.code = coined', !.attempts = 0]]
       /\ GoOn(l, [pc |-> "text", code |-> coined', number |-> n])
    /\ UNCHANGED <<texted, wrong, shown>>

\* ... it is stored at once, unverified, with a new code; the unique index on
\* phoneHash throws when somebody else stored it meanwhile.
StoreNumber(l) ==
    /\ phoneCall[l].pc = "store"
    /\ LET c == phoneCall[l].who  n == phoneCall[l].number IN
       IF HeldBy(n) \subseteq {c}
       THEN /\ coined' = coined + 1
            /\ phone' = [phone EXCEPT ![c] =
                   [NoPhone EXCEPT !.number = n, !.code = coined']]
            /\ GoOn(l, [pc |-> "text", code |-> coined', number |-> n])
       ELSE GoOn(l, Free) /\ UNCHANGED <<phone, coined>>
    /\ UNCHANGED <<texted, wrong, shown>>

\* sendSms, which may fail.
TextCode(l) ==
    /\ phoneCall[l].pc = "text"
    /\ texted' \in {texted, texted \cup {[code |-> phoneCall[l].code, number |-> phoneCall[l].number]}}
    /\ GoOn(l, Free)
    /\ UNCHANGED <<phone, coined, wrong, shown>>

\* confirmPhone reads the row and refuses without a code, after it expired and
\* after too many wrong ones.  The guess is a code that was texted, or wrong.
ConfirmPhone(l, c, guess) ==
    /\ phone[c].code # 0 /\ ~phone[c].expired
    /\ phone[c].attempts < PHONE_CODE_MAX_ATTEMPTS
    /\ BeginPhone(l, [pc |-> "check", who |-> c, guess |-> guess, read |-> phone[c]])

\* Mutant: one more than the count that was read.
CountWrongFromRead(l) ==
    /\ phoneCall[l].pc = "check" /\ phoneCall[l].guess # phoneCall[l].read.code
    /\ phone' = [phone EXCEPT ![phoneCall[l].who].attempts = phoneCall[l].read.attempts + 1]
    /\ wrong' = [wrong EXCEPT ![phoneCall[l].read.code] = @ + 1]
    /\ GoOn(l, Free)
    /\ UNCHANGED <<texted, coined, shown>>

CountWrongCode(l) ==
    /\ phoneCall[l].pc = "check" /\ phoneCall[l].guess # phoneCall[l].read.code
    /\ phone' = [phone EXCEPT ![phoneCall[l].who].attempts = @ + 1]
    /\ wrong' = [wrong EXCEPT ![phoneCall[l].read.code] = @ + 1]
    /\ GoOn(l, Free)
    /\ UNCHANGED <<texted, coined, shown>>

\* Mutant: the code stays, and so do its attempts.
MarkPhoneOnly(l) ==
    /\ phoneCall[l].pc = "check" /\ phoneCall[l].guess = phoneCall[l].read.code
    /\ phone' = [phone EXCEPT ![phoneCall[l].who].verified = TRUE,
                              ![phoneCall[l].who].number = phoneCall[l].read.number]
    /\ shown' = shown \cup {<<phoneCall[l].who, phoneCall[l].read.number>>}
    /\ GoOn(l, Free)
    /\ UNCHANGED <<texted, coined, wrong>>

MarkPhoneVerified(l) ==
    /\ phoneCall[l].pc = "check" /\ phoneCall[l].guess = phoneCall[l].read.code
    /\ phone' = [phone EXCEPT ![phoneCall[l].who] =
           [NoPhone EXCEPT !.number = phone[phoneCall[l].who].number, !.verified = TRUE]]
    /\ shown' = shown \cup {<<phoneCall[l].who, phoneCall[l].read.number>>}
    /\ GoOn(l, Free)
    /\ UNCHANGED <<texted, coined, wrong>>

RemovePhone(c) ==
    /\ phone[c] # NoPhone
    /\ phone' = [phone EXCEPT ![c] = NoPhone]
    /\ UNCHANGED <<texted, phoneCall, phoneLanes, phoneCalls, coined, wrong, shown>>

PhoneCodeExpires(c) ==
    /\ phone[c].code # 0 /\ ~phone[c].expired
    /\ phone' = [phone EXCEPT ![c].expired = TRUE]
    /\ UNCHANGED <<texted, phoneCall, phoneLanes, phoneCalls, coined, wrong, shown>>

PhoneNext ==
    \/ \E l \in PhoneLane, c \in Caller :
          \/ \E n \in Number : StartPhone(l, c, n)
          \/ \E guess \in {t.code : t \in texted} \cup {0} : ConfirmPhone(l, c, guess)
    \/ \E l \in PhoneLane :
          StoreNumber(l) \/ TextCode(l) \/ CountWrongCode(l) \/ MarkPhoneVerified(l)
    \/ \E c \in Caller : RemovePhone(c) \/ PhoneCodeExpires(c)

PhoneSpec == PhoneInit /\ [][PhoneNext]_phoneVars

---------------------------------------------------------------------------

\* Every row has its shape and a number is on one account at most.
PhoneTypeOK ==
    /\ phone \in [Caller -> PhoneRow]
    /\ \A c, d \in Caller : c # d /\ phone[c].number = phone[d].number
           => phone[c].number = NoNumber

\* The number that is marked as verified is the one whose texted code this
\* account entered, when no request or removal overlaps the confirmation: a
\* request that stores another number in between has it marked unproved.
VerifiedNumberIsProven ==
    \A c \in Caller : phoneLanes = 1 /\ phone[c].verified
        => phone[c].number = NoNumber \/ <<c, phone[c].number>> \in shown

\* A code is guessed wrongly PHONE_CODE_MAX_ATTEMPTS times at most, and once
\* more for every further request in flight.
PhoneGuessesAreCapped ==
    \A k \in CodeId : wrong[k] < PHONE_CODE_MAX_ATTEMPTS + phoneLanes

\* A code works for the number it was texted to and the account it was made
\* for, once: entering it again finds nothing to compare with.
PhoneCodeWorksOnce ==
    [][\A c \in Caller : ~phone[c].verified /\ phone'[c].verified => phone'[c].code = 0]_phoneVars

---------------------------------------------------------------------------
(*************************************************************************)
(* The account page's section for the address and the phone number: two  *)
(* conversations with the server that share one "pending".  The buttons  *)
(* that only turn a page of it - change, cancel, send again - are never  *)
(* disabled, so an answer may find another step than the one it left.    *)
(* What the codes and links are worth is Phone's and Tokens'; here the   *)
(* server takes what it is asked or refuses.                             *)
(*************************************************************************)
CONSTANT AskBound       \* calls the person makes

ASSUME ContactAssumption == AskBound \in Nat

VARIABLES
    onFile,         \* the server: the number, whether verified, and the address waited for
    rendered,       \* the same, as the page was last rendered
    phoneStep,      \* of the phone: idle, number or code
    codeFor,        \* the number the page says a code went to, or 0
    numberBox,      \* what is in the box for the number, 0 if nothing
    mailOpen,       \* the form for the address is open
    mailBox,        \* what is in it
    mailSent,       \* the address the page says a link went to, or 0
    waits,          \* pending
    asks,           \* calls in flight
    askCount,       \* history: calls so far
    elsewhere       \* history: another tab or a lost answer changed the server

contactVars == <<onFile, rendered, phoneStep, codeFor, numberBox, mailOpen, mailBox, mailSent, waits,
                 asks, askCount, elsewhere>>

Value == {1, 2}
Unverified(f) == f.number # 0 /\ ~f.verified

\* The section is mounted: a number that is not verified yet asks for its code.
ContactMounted(f) ==
    /\ rendered' = f /\ waits' = FALSE /\ numberBox' = 0 /\ mailOpen' = FALSE /\ mailBox' = 0 /\ mailSent' = 0
    /\ phoneStep' = (IF Unverified(f) THEN "code" ELSE "idle") /\ codeFor' = (IF Unverified(f) THEN f.number ELSE 0)

ContactInit ==
    /\ onFile \in {[number |-> n, verified |-> v, mail |-> 0] : n \in {0, 1}, v \in BOOLEAN}
    /\ onFile.verified => onFile.number # 0
    /\ rendered = onFile /\ phoneStep = (IF Unverified(onFile) THEN "code" ELSE "idle")
    /\ codeFor = (IF Unverified(onFile) THEN onFile.number ELSE 0)
    /\ numberBox = 0 /\ mailOpen = FALSE /\ mailBox = 0 /\ mailSent = 0 /\ waits = FALSE
    /\ asks = {} /\ askCount = 0 /\ elsewhere = FALSE

---------------------------------------------------------------------------
\* A button that asks the server; each of the five is disabled while one waits.
AskServer(what, of) ==
    /\ ~waits /\ askCount < AskBound
    /\ asks' = asks \cup {[what |-> what, of |-> of, at |-> "asked"]}
    /\ waits' = TRUE /\ askCount' = askCount + 1
    /\ UNCHANGED <<onFile, rendered, phoneStep, codeFor, numberBox, mailOpen, mailBox, mailSent, elsewhere>>

AskEmailChange == mailOpen /\ mailBox # 0 /\ AskServer("email", mailBox)
AskResend == AskServer("resend", 0)
AskCode == phoneStep = "number" /\ numberBox # 0 /\ AskServer("send", numberBox)
AskConfirm == phoneStep = "code" /\ AskServer("confirm", 0)

\* Mutant: the button that removes the number works while a call is pending.
RemoveAnyTime ==
    /\ phoneStep = "code" \/ (phoneStep = "idle" /\ rendered.number # 0)
    /\ askCount < AskBound /\ askCount' = askCount + 1 /\ waits' = TRUE
    /\ asks' = asks \cup {[what |-> "remove", of |-> 0, at |-> "asked"]}
    /\ UNCHANGED <<onFile, rendered, phoneStep, codeFor, numberBox, mailOpen, mailBox, mailSent, elsewhere>>

AskRemove ==
    /\ phoneStep = "code" \/ (phoneStep = "idle" /\ rendered.number # 0)
    /\ AskServer("remove", 0)

\* What the server does with it, when it takes it.
Effect(a) == CASE a.what = "email"   -> [onFile EXCEPT !.mail = a.of]
             [] a.what = "send"    -> [onFile EXCEPT !.number = a.of, !.verified = FALSE]
             [] a.what = "confirm" -> [onFile EXCEPT !.verified = TRUE]
             [] a.what = "remove"  -> [onFile EXCEPT !.number = 0, !.verified = FALSE]
             [] OTHER              -> onFile

\* Taken or refused; a text that can't be sent is a refusal after the number
\* was stored.  A code is confirmed only while one is outstanding.
AskServed(a) ==
    /\ a.at = "asked"
    /\ \/ /\ a.what = "confirm" => Unverified(onFile)
          /\ onFile' = Effect(a) /\ asks' = (asks \ {a}) \cup {[a EXCEPT !.at = "done"]}
       \/ /\ onFile' \in {onFile} \cup {Effect(b) : b \in {a} \cap [what : {"send"}, of : Value, at : {"asked"}]}
          /\ asks' = (asks \ {a}) \cup {[a EXCEPT !.at = "refused"]}
    /\ UNCHANGED <<rendered, phoneStep, codeFor, numberBox, mailOpen, mailBox, mailSent, waits, askCount, elsewhere>>

Hear(a) == a \in asks /\ asks' = asks \ {a} /\ waits' = FALSE

\* Mutant: the page names what is in the box by then.
HearEmailByBox(a) ==
    /\ a.what = "email" /\ a.at = "done" /\ Hear(a)
    /\ mailSent' = mailBox /\ mailOpen' = FALSE /\ rendered' = onFile
    /\ UNCHANGED <<onFile, phoneStep, codeFor, numberBox, mailBox, askCount, elsewhere>>

\* onRequestEmailChange names the address that was sent, and closes the form.
HearEmail(a) ==
    /\ a.what = "email" /\ a.at = "done" /\ Hear(a)
    /\ mailSent' = a.of /\ mailOpen' = FALSE /\ rendered' = onFile
    /\ UNCHANGED <<onFile, phoneStep, codeFor, numberBox, mailBox, askCount, elsewhere>>

\* onSendCode opens the step for the code, wherever the person has turned.
HearSend(a) ==
    /\ a.what = "send" /\ a.at = "done" /\ Hear(a)
    /\ phoneStep' = "code" /\ codeFor' = a.of /\ rendered' = onFile
    /\ UNCHANGED <<onFile, numberBox, mailOpen, mailBox, mailSent, askCount, elsewhere>>

\* Mutant: a verified number leaves its step open.
HearConfirmAndStay(a) ==
    /\ a.what = "confirm" /\ a.at = "done" /\ Hear(a) /\ rendered' = onFile
    /\ UNCHANGED <<onFile, phoneStep, codeFor, numberBox, mailOpen, mailBox, mailSent, askCount, elsewhere>>

HearConfirm(a) ==
    /\ a.what = "confirm" /\ a.at = "done" /\ Hear(a)
    /\ phoneStep' = "idle" /\ rendered' = onFile
    /\ UNCHANGED <<onFile, codeFor, numberBox, mailOpen, mailBox, mailSent, askCount, elsewhere>>

\* onRemovePhone does not look at its answer.
HearRemove(a) ==
    /\ a.what = "remove" /\ a.at # "asked" /\ Hear(a)
    /\ phoneStep' = "idle" /\ codeFor' = 0 /\ rendered' = onFile
    /\ UNCHANGED <<onFile, numberBox, mailOpen, mailBox, mailSent, askCount, elsewhere>>

\* A refusal, and whatever a resent link was answered, leaves the steps alone.
HearRefusal(a) ==
    /\ (a.what = "resend" /\ a.at = "done") \/ (a.what # "remove" /\ a.at = "refused")
    /\ Hear(a)
    /\ UNCHANGED <<onFile, rendered, phoneStep, codeFor, numberBox, mailOpen, mailBox, mailSent, askCount, elsewhere>>

\* The call or its answer is lost: the buttons wait for it for good.
HearNothing(a) ==
    /\ asks' = asks \ {a} /\ elsewhere' = TRUE
    /\ UNCHANGED <<onFile, rendered, phoneStep, codeFor, numberBox, mailOpen, mailBox, mailSent, waits, askCount>>

\* The buttons that turn the page: add or change, cancel, send again.
TurnPhone ==
    /\ \/ phoneStep = "idle" /\ phoneStep' = "number"
       \/ phoneStep = "number" /\ phoneStep' = "idle"
       \/ phoneStep = "code" /\ phoneStep' = "number"
    /\ UNCHANGED <<onFile, rendered, codeFor, numberBox, mailOpen, mailBox, mailSent, waits, asks, askCount, elsewhere>>

TurnMail ==
    /\ mailOpen' = ~mailOpen
    /\ UNCHANGED <<onFile, rendered, phoneStep, codeFor, numberBox, mailBox, mailSent, waits, asks, askCount, elsewhere>>

WriteContact(v) ==
    /\ \/ phoneStep = "number" /\ numberBox' = v /\ UNCHANGED mailBox
       \/ mailOpen /\ mailBox' = v /\ UNCHANGED numberBox
    /\ UNCHANGED <<onFile, rendered, phoneStep, codeFor, mailOpen, mailSent, waits, asks, askCount, elsewhere>>

\* Another tab changes the number or confirms an address.
OtherContact ==
    /\ onFile' \in {[number |-> 0, verified |-> FALSE, mail |-> onFile.mail],
                    [number |-> 2, verified |-> TRUE, mail |-> 0]}
    /\ onFile' # onFile /\ elsewhere' = TRUE
    /\ UNCHANGED <<rendered, phoneStep, codeFor, numberBox, mailOpen, mailBox, mailSent, waits, asks, askCount>>

\* The page is loaded anew; what is in flight may still reach the server.
ReloadContact ==
    /\ ContactMounted(onFile) /\ asks' = {} /\ elsewhere' = (\E a \in asks : a.at = "asked")
    /\ UNCHANGED <<onFile, askCount>>

ContactNext ==
    \/ AskEmailChange \/ AskResend \/ AskCode \/ AskConfirm \/ AskRemove
    \/ \E a \in asks : \/ AskServed(a) \/ HearEmail(a) \/ HearSend(a) \/ HearConfirm(a) \/ HearRemove(a)
                       \/ HearRefusal(a) \/ HearNothing(a)
    \/ TurnPhone \/ TurnMail \/ OtherContact \/ ReloadContact \/ \E v \in Value : WriteContact(v)

ContactSpec == ContactInit /\ [][ContactNext]_contactVars

---------------------------------------------------------------------------
ContactTypeOK ==
    /\ onFile \in [number : 0..2, verified : BOOLEAN, mail : 0..2] /\ rendered \in [number : 0..2, verified : BOOLEAN, mail : 0..2]
    /\ phoneStep \in {"idle", "number", "code"} /\ {codeFor, numberBox, mailBox, mailSent} \subseteq 0..2
    /\ {mailOpen, waits, elsewhere} \subseteq BOOLEAN /\ askCount \in 0..AskBound

\* While the page asks for a code and no call is under way, the number it
\* names is the one on file, waiting to be verified: however the person turned
\* between the steps while the answers came.
CodeStepIsTrue == phoneStep = "code" /\ asks = {} /\ ~elsewhere => Unverified(onFile) /\ codeFor = onFile.number

\* The address the page says it wrote to is the one the account waits for.
MailSentIsAwaited == mailSent # 0 /\ asks = {} /\ ~elsewhere => mailSent = onFile.mail

\* Sharing one "pending", the two conversations have one call between them.
OneCallBetweenThem == Cardinality(asks) <= 1

ContactHolds == CodeStepIsTrue /\ MailSentIsAwaited /\ OneCallBetweenThem
=============================================================================
