------------------------------- MODULE Health -------------------------------
(***************************************************************************)
(* Whether the site is well: what a production process asks of its         *)
(* configuration before it serves (instrumentation.ts,                     *)
(* lib/productionReadiness.ts), and the page that measures everything when *)
(* an administrator opens it (lib/health/checks.ts, lib/health/grade.ts).  *)
(* The checks run at once, each against a subject of its own that may      *)
(* answer, refuse or be silent, and each ends by its answer, by what it    *)
(* throws, or by a timer.                                                  *)
(*                                                                         *)
(* A behaviour looks at a few rows of the page; the others are alike.      *)
(***************************************************************************)
EXTENDS Naturals, FiniteSets

CONSTANTS
    Watches,        \* sets of checks: the rows a behaviour looks at
    Migration,      \* migrations
    NameServer,     \* nameservers of the domain
    Required,       \* settings without which the site cannot do its job
    Optional        \* settings with a fallback

VARIABLES
    watched,        \* the rows this behaviour looks at
    fact,           \* by watched check, what it measures
    reach,          \* by subject, how it takes a question
    bigFolder,      \* walking the uploads takes longer than the time limit
    row,            \* by watched check, its row: being measured, or graded
    verdicts,       \* history: by watched check, since the report began: was it right, was it wrong
    troubled,       \* history: subjects that did not answer at some time since then
    written,        \* the configuration on disk: what is wrong with it, and the permission to go on
    env,            \* the configuration the process runs with
    serving         \* the process

healthVars == <<watched, fact, reach, bigFolder, row, verdicts, troubled, written, env, serving>>

Status == {"ok", "info", "warn", "fail"}
Check == {"db", "migrations", "tls", "dns", "headers", "audit", "mfa", "signins", "disk", "config"}
Subject == {"database", "web", "resolver", "self"}
NoFiles == {"unreadable"}
NoAnswer == {"none"}

ASSUME HealthAssumption == Watches \subseteq SUBSET Check /\ Migration # NoFiles

Facts(c) ==
    CASE c = "db" -> {100, 101, 501}
      [] c = "migrations" -> [applied : SUBSET Migration, failed : {{}, {2}},
                              shipped : {NoFiles, Migration}]
      [] c = "tls" -> [trusted : BOOLEAN, coversHost : BOOLEAN, daysLeft : {6, 20, 21}]
      [] c = "dns" -> [NameServer -> {NoAnswer, {"here"}, {"elsewhere"}}]
      [] c = "headers" -> [csp : {"none", "loose", "strict"}, others : BOOLEAN,
                           hsts : {"none", "short", "year"}]
      [] c = "audit" -> {[there |-> FALSE]}
             \cup [there : {TRUE}, high : 0..1, moderate : 0..1, ageDays : {30, 31}]
      [] c = "mfa" -> SUBSET {"ada", "bo"}
      [] c = "signins" -> [mfaFailed : 0..1, failed : {49, 50}]
      [] c = "disk" -> {4, 14, 15}
      [] c = "config" -> {"as it runs"}

SubjectOf(c) == CASE c \in {"db", "migrations", "mfa", "signins"} -> "database"
                  [] c \in {"headers", "tls"} -> "web"
                  [] c = "dns" -> "resolver"
                  [] OTHER -> "self"

---------------------------------------------------------------------------
(* lib/productionReadiness.ts and instrumentation.ts                       *)

Config == [wrong : SUBSET (Required \cup Optional), fallbacks : BOOLEAN]
Blockers(e) == e.wrong \cap Required
Warnings(e) == e.wrong \cap Optional

\* Mutant: what falls back at all may fall back in production.
StartsAnyway(e) == Blockers(e) = {} \/ e.wrong # Required

\* register: a production process that may not start exits.
MayServe(e) == Blockers(e) = {} \/ e.fallbacks

\* publicHost: without a public address there is no domain to check.
HasDomain(e) == "origin" \notin e.wrong

---------------------------------------------------------------------------
(* lib/health/grade.ts                                                     *)

GradeLatency(ms) == IF ms > 500 THEN "fail" ELSE IF ms > 100 THEN "warn" ELSE "ok"

GradeMigrations(m) ==
    CASE m.failed # {} -> "fail"
      [] m.failed = {} /\ m.shipped = NoFiles -> "info"
      [] m.failed = {} /\ m.shipped # NoFiles -> IF m.shipped \subseteq m.applied THEN "ok" ELSE "fail"

GradeCertificate(c) ==
    IF ~c.trusted \/ ~c.coversHost \/ c.daysLeft < 7 THEN "fail"
    ELSE IF c.daysLeft < 21 THEN "warn" ELSE "ok"

GradeNameservers(a) ==
    LET answered == {n \in NameServer : a[n] # NoAnswer} IN
    CASE answered = {} -> "fail"
      [] Cardinality({a[n] : n \in answered}) > 1 -> "fail"
      [] \E n \in answered : a[n] # {"here"} -> "fail"
      [] answered # {} /\ \A n \in answered : a[n] = {"here"} ->
             IF answered = NameServer THEN "ok" ELSE "warn"

GradeHeaders(h, expectHsts) ==
    IF h.csp # "strict" \/ ~h.others \/ (expectHsts /\ h.hsts # "year") THEN "fail" ELSE "ok"

GradeAudit(r) ==
    CASE ~r.there -> "info"
      [] r.there /\ r.high > 0 -> "fail"
      [] r.there /\ r.high = 0 -> IF r.moderate > 0 \/ r.ageDays > 30 THEN "warn" ELSE "ok"

GradeAdminMfa(without) == IF without # {} THEN "fail" ELSE "ok"
GradeSignIns(n) == IF n.mfaFailed > 0 \/ n.failed >= 50 THEN "warn" ELSE "ok"
GradeDisk(free) == IF free < 5 THEN "fail" ELSE IF free < 15 THEN "warn" ELSE "ok"

\* configuration(): a row for each setting.
GradeConfig(e) == IF Blockers(e) # {} THEN "fail" ELSE IF Warnings(e) # {} THEN "warn" ELSE "ok"

Grade(c, f) ==
    CASE c = "db" -> GradeLatency(f)
      [] c = "migrations" -> GradeMigrations(f)
      [] c = "tls" -> GradeCertificate(f)
      [] c = "dns" -> GradeNameservers(f)
      [] c = "headers" -> GradeHeaders(f, HasDomain(env))
      [] c = "audit" -> GradeAudit(f)
      [] c = "mfa" -> GradeAdminMfa(f)
      [] c = "signins" -> GradeSignIns(f)
      [] c = "disk" -> GradeDisk(f)
      [] c = "config" -> GradeConfig(env)

Rank == [s \in Status |-> CASE s = "fail" -> 2 [] s = "warn" -> 1 [] OTHER -> 0]

\* The worst status of all; "info" raises no alarm.
Worst(statuses) ==
    IF \A s \in statuses : Rank[s] = 0 THEN "ok"
    ELSE CHOOSE s \in statuses : \A t \in statuses : Rank[t] <= Rank[s]

---------------------------------------------------------------------------
(* What the checks should find, said of the facts alone                    *)

\* All is well with it; or nobody can tell.
Right(c, f) ==
    CASE c = "db" -> f <= 100
      [] c = "migrations" -> f.failed = {} /\ f.shipped # NoFiles /\ f.shipped \subseteq f.applied
      [] c = "tls" -> f.trusted /\ f.coversHost /\ f.daysLeft > 20
      [] c = "dns" -> \A n \in NameServer : f[n] = {"here"}
      [] c = "headers" -> f.csp = "strict" /\ f.others /\ (HasDomain(env) => f.hsts = "year")
      [] c = "audit" -> f.there /\ f.high + f.moderate = 0 /\ f.ageDays <= 30
      [] c = "mfa" -> f = {}
      [] c = "signins" -> f.mfaFailed = 0 /\ f.failed < 50
      [] c = "disk" -> f >= 15
      [] c = "config" -> env.wrong = {}
Untold(c, f) ==
    \/ c = "migrations" /\ f.shipped = NoFiles /\ f.failed = {}
    \/ c = "audit" /\ ~f.there
    \/ c \in {"tls", "dns"} /\ ~HasDomain(env)
Verdict(c, f) == IF Right(c, f) THEN "right" ELSE IF Untold(c, f) THEN "untold" ELSE "wrong"

---------------------------------------------------------------------------
(* The page                                                                *)

Row(at, status) == [at |-> at, status |-> status]
Waiting == Row("measuring", "info")
CouldNotRun == Row("failed", "warn")
Skipped(c) == c \in {"tls", "dns"} /\ ~HasDomain(env)

HealthInit ==
    /\ watched \in Watches
    /\ reach = [s \in Subject |-> "answers"] /\ bigFolder \in BOOLEAN
    /\ \E w \in SUBSET (Required \cup Optional), b \in BOOLEAN :
           /\ written = [wrong |-> w, fallbacks |-> b]
           /\ watched # {"config"} => w \in {{}, {"origin"}} /\ b = (w # {})
    /\ env = written /\ serving = FALSE
    /\ fact = [c \in watched |-> CHOOSE f \in Facts(c) : c = "config" \/ Right(c, f)]
    /\ row = [c \in watched |-> Row("none", "info")]
    /\ verdicts = [c \in watched |-> {}] /\ troubled = {}

\* A resolver that refuses is passed over for a public one; a silent one takes
\* all the time there is.
Unanswered(s, r) == r = "hangs" \/ (r = "refuses" /\ s # "resolver")

\* Mutant: the system's own resolver or none.
AnswersDirectly(c) == reach[SubjectOf(c)] = "answers"

Answers(c) == ~Unanswered(SubjectOf(c), reach[SubjectOf(c)])

\* runHealthChecks begins: the synchronous checks are done at once.
OpenHealth ==
    /\ serving /\ \A c \in watched : row[c].at \in {"none", "done", "failed"}
    /\ row' = [c \in watched |-> IF Skipped(c) THEN Row("done", "info") ELSE Waiting]
    /\ verdicts' = [c \in watched |-> {Verdict(c, fact[c])}]
    /\ troubled' = {s \in Subject : Unanswered(s, reach[s])}
    /\ UNCHANGED <<watched, fact, reach, bigFolder, written, env, serving>>

\* The measurement comes back and is graded.  The connection check goes on to
\* ask for the version.
Measure(c) ==
    /\ row[c].at = "measuring" /\ Answers(c)
    /\ row' = [row EXCEPT ![c] = Row(IF c = "db" THEN "version" ELSE "done", Grade(c, fact[c]))]
    /\ UNCHANGED <<watched, fact, reach, bigFolder, verdicts, troubled, written, env, serving>>

\* The version, or none when it is refused.
ReadVersion(c) ==
    /\ row[c].at = "version" /\ reach["database"] # "hangs"
    /\ row' = [row EXCEPT ![c].at = "done"]
    /\ UNCHANGED <<watched, fact, reach, bigFolder, verdicts, troubled, written, env, serving>>

\* Mutant: a check that throws is left out.
ThrowLeavesItOut(c) ==
    /\ row[c].at = "measuring" /\ ~Answers(c) /\ reach[SubjectOf(c)] = "refuses"
    /\ row' = [row EXCEPT ![c] = Row("done", "ok")]
    /\ UNCHANGED <<watched, fact, reach, bigFolder, verdicts, troubled, written, env, serving>>

\* What a refused measurement throws becomes its row; the connection check
\* says that the database is not answering.
Throw(c) ==
    /\ row[c].at = "measuring" /\ ~Answers(c) /\ reach[SubjectOf(c)] = "refuses"
    /\ row' = [row EXCEPT ![c] = IF c = "db" THEN Row("done", "fail") ELSE CouldNotRun]
    /\ UNCHANGED <<watched, fact, reach, bigFolder, verdicts, troubled, written, env, serving>>

\* The timer of withTimeout.  While the uploads are walked nothing is read,
\* and a timer that is due by then comes before the answers that wait.
TimeOut(c) ==
    /\ row[c].at \in {"measuring", "version"} /\ SubjectOf(c) # "self"
    /\ reach[SubjectOf(c)] = "hangs" \/ bigFolder
    /\ row' = [row EXCEPT ![c] = CouldNotRun]
    /\ UNCHANGED <<watched, fact, reach, bigFolder, verdicts, troubled, written, env, serving>>

\* The world moves on.
FactChanges(c) ==
    /\ \E f \in Facts(c) : f # fact[c] /\ fact' = [fact EXCEPT ![c] = f]
    /\ verdicts' = [verdicts EXCEPT ![c] = @ \cup {Verdict(c, fact'[c])}]
    /\ UNCHANGED <<watched, reach, bigFolder, row, troubled, written, env, serving>>

ReachChanges(s) ==
    /\ s # "self" /\ \E c \in watched : SubjectOf(c) = s
    /\ \E r \in {"answers", "refuses", "hangs"} \ {reach[s]} :
           /\ reach' = [reach EXCEPT ![s] = r]
           /\ troubled' = IF Unanswered(s, r) THEN troubled \cup {s} ELSE troubled
    /\ UNCHANGED <<watched, fact, bigFolder, row, verdicts, written, env, serving>>

\* Somebody corrects the configuration, which the next start reads.
Configure ==
    /\ watched = {"config"}
    /\ written' \in Config /\ written' # written
    /\ UNCHANGED <<watched, fact, reach, bigFolder, row, verdicts, troubled, env, serving>>

\* register reads it and goes on or exits.
StartServing ==
    /\ ~serving /\ env' = written /\ serving' = MayServe(written)
    /\ UNCHANGED <<watched, fact, reach, bigFolder, row, verdicts, troubled, written>>

StopServing ==
    /\ serving /\ serving' = FALSE
    /\ row' = [c \in watched |-> Row("none", "info")] /\ verdicts' = [c \in watched |-> {}]
    /\ troubled' = {}
    /\ UNCHANGED <<watched, fact, reach, bigFolder, written, env>>

HealthNext ==
    \/ OpenHealth \/ Configure \/ StartServing \/ StopServing
    \/ \E c \in watched : Measure(c) \/ ReadVersion(c) \/ Throw(c) \/ TimeOut(c) \/ FactChanges(c)
    \/ \E s \in Subject : ReachChanges(s)

HealthSpec == HealthInit /\ [][HealthNext]_healthVars

---------------------------------------------------------------------------
HealthTypeOK ==
    /\ watched \in Watches /\ \A c \in watched : fact[c] \in Facts(c)
    /\ reach \in [Subject -> {"answers", "refuses", "hangs"}]
    /\ row \in [watched -> [at : {"none", "measuring", "version", "done", "failed"}, status : Status]]
    /\ verdicts \in [watched -> SUBSET {"right", "wrong", "untold"}] /\ troubled \subseteq Subject
    /\ written \in Config /\ env \in Config /\ serving \in BOOLEAN /\ bigFolder \in BOOLEAN

Reported == \A c \in watched : row[c].at \in {"done", "failed"}
Overall == Worst({row[c].status : c \in watched})

\* A row says "ok" only of what was right at some time while it was measured,
\* and what was wrong all the while shows: the page as a whole is not "ok".
\* Only what nobody can tell passes for neither.
TroubleShows ==
    /\ \A c \in watched : row[c].at \in {"done", "failed"} /\ row[c].status = "ok" => "right" \in verdicts[c]
    /\ Reported /\ Overall = "ok" => \A c \in watched : verdicts[c] # {"wrong"}
    /\ Reported => \A c \in watched : Rank[row[c].status] <= Rank[Overall]

\* One subject that is silent or refuses spoils the rows that ask it and no
\* other row; a resolver that only refuses spoils none.
RowsFailAlone ==
    \A c \in watched : row[c].at = "failed" /\ ~bigFolder => SubjectOf(c) \in troubled

\* A process without the permission to fall back serves with nothing wrong
\* that it cannot do without, so its page never shows such a row, whatever is
\* written to the configuration meanwhile.
ServesConfigured ==
    serving /\ ~env.fallbacks =>
        /\ Blockers(env) = {}
        /\ "config" \in watched => row["config"].status # "fail"

HealthIsTold == TroubleShows /\ RowsFailAlone /\ ServesConfigured
=============================================================================
