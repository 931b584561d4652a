------------------------------- MODULE Deploy -------------------------------
(*************************************************************************)
(* A release, in three parts: a new version that is put in place on the  *)
(* host and started, the migrations of its database, and the bundle      *)
(* somebody makes of it on a machine of their own.                       *)
(*************************************************************************)
EXTENDS Naturals, FiniteSets

(*************************************************************************)
(* A new version on the host: the deploy job copies the files, migrates  *)
(* the database, touches tmp/restart.txt and waits for a fresh process   *)
(* (.github/workflows/ci.yml); the running process watches the file and  *)
(* exits when it changes (lib/restartOnDeploy.ts, started first by       *)
(* instrumentation.ts); the host starts it again.                        *)
(*                                                                       *)
(* Version 0 is in place at the start.  The time of the file is the      *)
(* number of touches.                                                    *)
(*************************************************************************)

CONSTANTS
    Version,        \* bound of the model: the last version that is deployed
    CrashBound      \* bound of the model: exits nobody asked for

ASSUME DeployAssumption == Version \in Nat /\ CrashBound \in Nat

VARIABLES
    files,          \* the version whose files are in place, or Mixed
    schema,         \* the version the database was migrated to
    touched,        \* the time of tmp/restart.txt
    job,            \* the deploy under way: the version it brings and its step
    process,        \* its step, code, the time it remembers, and whether it is young
    crashes,        \* counter of the bound
    exits,          \* history: exits that answered a touch
    overlap,        \* history: a touch fell between a start's reading of old code and of the time
    early,          \* history: the process was young at the last touch already
    doubt           \* history: what a smoke test left unproven

deployVars == <<files, schema, touched, job, process, crashes, exits, overlap, early, doubt>>

Mixed == Version + 1
Starting == {"loading", "loaded"}

DeployInit ==
    /\ files = 0 /\ schema = 0 /\ touched = 1
    /\ job = [brings |-> 0, pc |-> "done"]
    /\ process = [pc |-> "up", code |-> 0, startedWith |-> 1, young |-> FALSE, asked |-> FALSE]
    /\ crashes = 0 /\ exits = 0
    /\ overlap = FALSE /\ early = FALSE /\ doubt = "none"

---------------------------------------------------------------------------
\* The job.  A step that fails ends it (set -e, or the exit of the step).

BeginCopy ==
    /\ job.pc \in {"done", "failed"} /\ job.brings < Version
    /\ job' = [brings |-> job.brings + 1, pc |-> "copying"]
    /\ files' = Mixed
    /\ UNCHANGED <<schema, touched, process, crashes, exits, overlap, early, doubt>>

EndCopy ==
    /\ job.pc = "copying"
    /\ files' = job.brings
    /\ job' = [job EXCEPT !.pc = "migrate"]
    /\ UNCHANGED <<schema, touched, process, crashes, exits, overlap, early, doubt>>

\* The connection may be lost, and a migration may be refused.
JobFails ==
    /\ job.pc \in {"copying", "migrate"}
    /\ job' = [job EXCEPT !.pc = "failed"]
    /\ UNCHANGED <<files, schema, touched, process, crashes, exits, overlap, early, doubt>>

StartsOld == process.pc = "loaded" /\ process.code # job.brings

\* Mutant: the file is touched before the migration.
TouchBeforeMigrating ==
    \/ /\ job.pc = "migrate" /\ touched < job.brings + 1
       /\ touched' = job.brings + 1
       /\ overlap' = (overlap \/ StartsOld) /\ early' = process.young
       /\ UNCHANGED <<files, schema, job>>
    \/ /\ job.pc = "migrate" /\ touched = job.brings + 1
       /\ schema' = job.brings /\ job' = [job EXCEPT !.pc = "smoke"]
       /\ UNCHANGED <<files, touched, overlap, early>>

\* setup.js migrate, then the touch, last.
MigrateThenTouch ==
    \/ /\ job.pc = "migrate"
       /\ schema' = job.brings /\ job' = [job EXCEPT !.pc = "touch"]
       /\ UNCHANGED <<files, touched, overlap, early>>
    \/ /\ job.pc = "touch"
       /\ touched' = touched + 1 /\ job' = [job EXCEPT !.pc = "smoke"]
       /\ overlap' = (overlap \/ StartsOld) /\ early' = process.young
       /\ UNCHANGED <<files, schema>>

Remote == MigrateThenTouch /\ UNCHANGED <<process, crashes, exits, doubt>>

\* Mutant: the watcher waits for the file to appear.
Appeared == process.startedWith = 0

Changed == touched # process.startedWith

\* The smoke test takes a process that answers and started lately.
SmokePasses ==
    /\ job.pc = "smoke"
    /\ process.pc \in {"up", "exiting"} /\ process.young
    /\ job' = [job EXCEPT !.pc = "done"]
    /\ doubt' = IF ~early /\ process.code # job.brings THEN "fooled"
                ELSE IF early /\ doubt = "none" THEN "young" ELSE doubt
    /\ UNCHANGED <<files, schema, touched, process, crashes, exits, overlap, early>>

\* Three minutes without one: by then the process has looked at the file.
SmokeFails ==
    /\ job.pc = "smoke"
    /\ process.pc # "exiting" /\ ~(process.pc = "up" /\ Changed)
    /\ job' = [job EXCEPT !.pc = "failed"]
    /\ doubt' = IF doubt = "none" THEN "gave up" ELSE doubt
    /\ UNCHANGED <<files, schema, touched, process, crashes, exits, overlap, early>>

---------------------------------------------------------------------------
\* The process.

\* The host starts it whenever it is not there.
HostStarts ==
    /\ process.pc = "down"
    /\ process' = [process EXCEPT !.pc = "loading", !.young = TRUE]
    /\ UNCHANGED <<files, schema, touched, job, crashes, exits, overlap, early, doubt>>

Loads ==
    /\ process.pc = "loading"
    /\ process' = [process EXCEPT !.pc = "loaded", !.code = files]
    /\ UNCHANGED <<files, schema, touched, job, crashes, exits, overlap, early, doubt>>

\* Mutant: what the file says when the process starts is not remembered.
StartForgetful == [process EXCEPT !.pc = "up", !.startedWith = 0]

\* restartOnDeploy remembers the file's time, before the first request.
StartWatching == [process EXCEPT !.pc = "up", !.startedWith = touched]

Registers ==
    /\ process.pc = "loaded"
    /\ process' = StartWatching
    /\ UNCHANGED <<files, schema, touched, job, crashes, exits, overlap, early, doubt>>

\* The poll finds another time: it exits, a second later.
Notices ==
    /\ process.pc = "up" /\ Changed
    /\ process' = [process EXCEPT !.pc = "exiting"]
    /\ exits' = exits + 1
    /\ UNCHANGED <<files, schema, touched, job, crashes, overlap, early, doubt>>

Exits ==
    /\ process.pc = "exiting"
    /\ process' = [process EXCEPT !.pc = "down", !.asked = TRUE]
    /\ UNCHANGED <<files, schema, touched, job, crashes, exits, overlap, early, doubt>>

\* A crash, a restart by hand, or a blocker that register refuses to start with.
Dies ==
    /\ process.pc # "down" /\ crashes < CrashBound
    /\ process' = [process EXCEPT !.pc = "down", !.asked = FALSE]
    /\ crashes' = crashes + 1
    /\ UNCHANGED <<files, schema, touched, job, exits, overlap, early, doubt>>

\* Five minutes up.
GrowsOld ==
    /\ process.pc = "up" /\ process.young
    /\ process' = [process EXCEPT !.young = FALSE]
    /\ UNCHANGED <<files, schema, touched, job, crashes, exits, overlap, early, doubt>>

DeployNext ==
    \/ BeginCopy \/ EndCopy \/ JobFails \/ Remote \/ SmokePasses \/ SmokeFails
    \/ HostStarts \/ Loads \/ Registers \/ Notices \/ Exits \/ Dies \/ GrowsOld

DeploySpec == DeployInit /\ [][DeployNext]_deployVars

\* The host and the process go on; the job and the crashes need not.
DeployStep == HostStarts \/ Loads \/ Registers \/ Notices \/ Exits

---------------------------------------------------------------------------
DeployTypeOK ==
    /\ files \in 0..Mixed /\ schema \in 0..Version /\ touched \in 1..(Version + 1)
    /\ job.brings \in 0..Version /\ crashes \in 0..CrashBound
    /\ process.pc \in {"up", "exiting", "down"} \cup Starting /\ process.code \in 0..Mixed

\* One deploy, one exit: the new process does not take the touch that
\* started it as a request to stop again.
OneExitForEachTouch == exits + 1 <= touched

\* The process that starts because of a touch finds its files and its
\* database in place, unless a later deploy was begun after a smoke test
\* that gave up, or that took a process which was young before the touch.
EverythingIsInPlace ==
    process.pc = "up" /\ process.asked => process.code <= schema \/ doubt # "none"

\* A smoke test that passes met the version that was deployed, unless the
\* process had been started within five minutes of the touch.
SmokeMeansDeployed == doubt # "fooled"

\* A deploy restarts the site once, onto a version that is all there.
DeploysLand == OneExitForEachTouch /\ EverythingIsInPlace /\ SmokeMeansDeployed

\* A version whose file was touched comes to serve, unless another one is
\* brought first, or the touch fell while a process was starting on the old
\* files: the one touch that nobody notices.
NewVersionServes ==
    \A v \in 1..Version :
        job.brings = v /\ job.pc = "smoke"
            ~> (process.pc = "up" /\ process.code = v) \/ job.brings > v \/ overlap

---------------------------------------------------------------------------
(*************************************************************************)
(* node setup.js migrate (scripts/cpanel-setup.cjs): the migrations of a *)
(* release are applied one statement at a time to a database that cannot *)
(* roll a schema change back, each with a row of _prisma_migrations that *)
(* is written before its first statement and finished after its last.  A *)
(* run may be lost anywhere; the next one refuses to go on until a       *)
(* person has said what became of the migration it finds unfinished.     *)
(*************************************************************************)
CONSTANTS
    Migrations,     \* the release has the migrations 1 to Migrations, by name
    Statements,     \* each of them has as many
    Runner,         \* runs that may be under way at once
    RunBound        \* bound of the model: runs started

ASSUME MigrationsAssumption == Migrations \in Nat /\ Statements \in Nat /\ RunBound \in Nat

VARIABLES
    ran,            \* by migration and statement, how often it took effect
    records,        \* the rows of _prisma_migrations
    runner,         \* by run, what it is at
    runs,           \* counter of the bound
    together        \* history: two runs were under way at once

migrationVars == <<ran, records, runner, runs, together>>

Name == 1..Migrations
NoRun == [pc |-> "idle", todo |-> {}, name |-> 0, step |-> 0, id |-> 0]

MigrationsInit ==
    /\ ran = [m \in Name |-> [s \in 1..Statements |-> 0]]
    /\ records = {} /\ runs = 0 /\ together = FALSE
    /\ runner = [r \in Runner |-> NoRun]

Running == {r \in Runner : runner[r].pc # "idle"}
Unfinished == {row \in records : row.state = "open"}
Applied == {row.name : row \in {x \in records : x.state = "finished"}}
First(todo) == CHOOSE m \in todo : \A k \in todo : m <= k

\* Mutant: what an earlier run left unfinished is started over.
GoOnAnyway(todo) == todo # {}

\* A migration that failed must be resolved first.
MayBegin(todo) == todo # {} /\ Unfinished = {}

BeginRun(r) ==
    LET todo == Name \ Applied IN
    /\ runner[r].pc = "idle" /\ runs < RunBound
    /\ MayBegin(todo)
    /\ runner' = [runner EXCEPT ![r] = [NoRun EXCEPT !.pc = "record", !.todo = todo]]
    /\ runs' = runs + 1
    /\ together' = (together \/ Running # {})
    /\ UNCHANGED <<ran, records>>

RecordStart(r) ==
    LET next == First(runner[r].todo)
        id == Cardinality(records) + 1 IN
    /\ runner[r].pc = "record"
    /\ records' = records \cup {[id |-> id, name |-> next, state |-> "open"]}
    /\ runner' = [runner EXCEPT ![r].pc = "execute", ![r].name = next, ![r].step = 1, ![r].id = id]
    /\ UNCHANGED <<ran, runs, together>>

\* The last statement of each moves data, and can be run again; the others
\* change the schema, and cannot.
Declined(m, s) == s # Statements /\ ran[m][s] > 0

Execute(r) ==
    LET m == runner[r].name  s == runner[r].step IN
    /\ runner[r].pc = "execute" /\ s <= Statements
    /\ ~Declined(m, s)
    /\ ran' = [ran EXCEPT ![m][s] = @ + 1]
    /\ runner' = [runner EXCEPT ![r].step = s + 1]
    /\ UNCHANGED <<records, runs, together>>

\* The database refuses, or the run is lost: the row stays as it is, with
\* or without its log.
RunEnds(r) ==
    /\ runner[r].pc # "idle"
    /\ runner' = [runner EXCEPT ![r] = NoRun]
    /\ UNCHANGED <<ran, records, runs, together>>

Finish(r) ==
    LET left == runner[r].todo \ {runner[r].name} IN
    /\ runner[r].pc = "execute" /\ runner[r].step > Statements
    /\ records' = {IF row.id = runner[r].id THEN [row EXCEPT !.state = "finished"] ELSE row :
                       row \in records}
    /\ runner' = [runner EXCEPT ![r] =
                      IF left = {} THEN NoRun ELSE [NoRun EXCEPT !.pc = "record", !.todo = left]]
    /\ UNCHANGED <<ran, runs, together>>

\* A person completes the migration or undoes it, and says so; nothing is
\* under way then.
Resolve(m, outcome) ==
    /\ Running = {}
    /\ \E row \in Unfinished : row.name = m
    /\ records' = {IF row \in Unfinished /\ row.name = m THEN [row EXCEPT !.state = outcome] ELSE row :
                       row \in records}
    /\ ran' = [ran EXCEPT ![m] = [s \in 1..Statements |-> IF outcome = "finished" THEN 1 ELSE 0]]
    /\ UNCHANGED <<runner, runs, together>>

MigrationsNext ==
    \/ \E r \in Runner : BeginRun(r) \/ RecordStart(r) \/ Execute(r) \/ RunEnds(r) \/ Finish(r)
    \/ \E m \in Name, outcome \in {"finished", "rolled back"} : Resolve(m, outcome)

MigrationsSpec == MigrationsInit /\ [][MigrationsNext]_migrationVars

---------------------------------------------------------------------------
MigrationsTypeOK ==
    /\ \A row \in records : row.name \in Name /\ row.state \in {"open", "finished", "rolled back"}
    /\ \A r \in Runner : runner[r].pc \in {"idle", "record", "execute"} /\ runner[r].step <= Statements + 1
    /\ runs \in 0..RunBound

\* What is recorded as finished took effect once and whole.
FinishedOnce == \A m \in Applied : \A s \in 1..Statements : ran[m][s] = 1

\* Nothing took effect that no row tells of.
NothingUnrecorded ==
    \A m \in Name : (\E s \in 1..Statements : ran[m][s] > 0)
                        => m \in Applied \/ \E row \in Unfinished : row.name = m

\* A migration begins when those before it are finished, and one at a time.
OneAfterAnother ==
    /\ \A row \in Unfinished : \A m \in 1..(row.name - 1) : m \in Applied
    /\ Cardinality(Unfinished) <= 1

\* Runs that are lost at any step, and resumed, leave every migration applied
\* once, in order, or recorded as the one that is not, unless two of them
\* were under way at once.
MigrationsLand == together \/ (FinishedOnce /\ NothingUnrecorded /\ OneAfterAnother)

---------------------------------------------------------------------------
(*************************************************************************)
(* A release made by hand, on a developer's machine: build:cpanel        *)
(* (scripts/build-cpanel.mjs) makes the directory cpanel-dist of what    *)
(* next build left, for a Linux server; pack:cpanel                      *)
(* (scripts/pack-cpanel.mjs) makes one archive of the directory, reads   *)
(* it back and only then gives it its name.  A command may stop          *)
(* anywhere, a download may be cut short, and a program that             *)
(* synchronises the folder may put something else in the archive's       *)
(* place.                                                                *)
(*************************************************************************)
CONSTANTS
    TreeBound,      \* bound of the model: versions of the working tree
    CommandBound    \* bound of the model: commands given

ASSUME BundleAssumption == TreeBound \in Nat \ {0} /\ CommandBound \in Nat

VARIABLES
    machine,        \* where it is made: "linux" or "windows"
    tree,           \* the version of the working tree: scripts, migrations, node_modules
    standalone,     \* the version next build made .next/standalone of, or 0
    dist,           \* the directory cpanel-dist, by what is in it, or Absent
    fetched,        \* .cpanel-cache: by download, what was kept of it
    command,        \* the step of the command under way, or "none"
    building,       \* the archive under its temporary name, or NoZip
    archive,        \* the archive under its own name, or NoZip
    commands,       \* counter of the bound
    cut,            \* history: a download of ffmpeg was cut short and kept
    slipped            \* history: the archive was replaced after it had been read back

bundleVars == <<machine, tree, standalone, dist, fetched, command, building, archive, commands, cut, slipped>>

Absent == [program |-> 0, finished |-> FALSE]
NoZip == [state |-> "none"]
NativeHere == IF machine = "linux" THEN "linux" ELSE "foreign"
Downloads == {"ffmpeg", "sharp"}
BuildSteps == {"copy", "strip", "repair", "scripts", "argon2", "ffmpeg", "sharp", "prove"}
PackSteps == {"write", "verify", "remove", "rename"}

EmptyDist ==
    [program |-> 0, env |-> FALSE, packages |-> "none", scripts |-> 0,
     argon2 |-> "none", ffmpeg |-> "none", sharp |-> "none", finished |-> FALSE]

BundleInit ==
    /\ machine \in {"linux", "windows"}
    /\ tree = 1 /\ standalone = 0 /\ dist = Absent
    /\ fetched = [x \in Downloads |-> "nothing"]
    /\ command = "none" /\ building = NoZip /\ archive = NoZip
    /\ commands = 0 /\ cut = FALSE /\ slipped = FALSE

---------------------------------------------------------------------------
\* The working tree changes; next build makes a program of it.
EditTree ==
    /\ command = "none" /\ tree < TreeBound /\ tree' = tree + 1
    /\ UNCHANGED <<machine, standalone, dist, fetched, command, building, archive, commands, cut, slipped>>

NextBuild ==
    /\ command = "none" /\ standalone' = tree
    /\ UNCHANGED <<machine, tree, dist, fetched, command, building, archive, commands, cut, slipped>>

Run(step) == command = "none" /\ commands < CommandBound /\ commands' = commands + 1 /\ command' = step

\* It starts from an empty directory, so nothing of an earlier bundle ships.
BeginBundle ==
    /\ standalone # 0 /\ Run("copy") /\ dist' = EmptyDist
    /\ UNCHANGED <<machine, tree, standalone, fetched, building, archive, cut, slipped>>

\* A step of the build that succeeds.
Step(from, to, new) ==
    /\ command = from /\ command' = to /\ dist' = new
    /\ UNCHANGED <<machine, tree, standalone, fetched, building, archive, commands, cut, slipped>>

\* fail(), an exception or the person: what is there stays there.
CommandStops ==
    /\ command # "none" /\ command' = "none"
    /\ UNCHANGED <<machine, tree, standalone, dist, fetched, building, archive, commands, cut, slipped>>

\* The standalone output, with the .env and the binaries of this machine; the
\* trace may have missed a file a package needs.
CopyStandalone ==
    \E packages \in {"traced", "whole"} :
        Step("copy", "strip",
             [dist EXCEPT !.program = standalone, !.env = TRUE, !.packages = packages,
                          !.argon2 = NativeHere, !.ffmpeg = NativeHere, !.sharp = NativeHere])

\* The local .env and the data of development are removed again.
StripSecrets == Step("strip", "repair", [dist EXCEPT !.env = FALSE])

\* Each package is resolved as the server will, and copied whole where it fails.
RepairPackages == Step("repair", "scripts", [dist EXCEPT !.packages = "whole"])

\* setup.js, the migrations and database.sql, of the tree as it is.
AddScripts == Step("scripts", "argon2", [dist EXCEPT !.scripts = tree])

AddArgon2 == Step("argon2", "ffmpeg", [dist EXCEPT !.argon2 = "linux"])

\* A download is kept for later builds: whole, or with something else in it
\* that was answered in its place; stopped half-way, what had arrived.
Fetch(x) ==
    /\ command = x /\ machine # "linux" /\ fetched[x] = "nothing"
    /\ \/ fetched' \in {[fetched EXCEPT ![x] = kept] : kept \in {"whole", "page"}}
          /\ UNCHANGED <<command, cut>>
       \/ /\ fetched' = [fetched EXCEPT ![x] = "cut"]
          /\ command' = "none" /\ cut' = (cut \/ x = "ffmpeg")
    /\ UNCHANGED <<machine, tree, standalone, dist, building, archive, commands, slipped>>

\* ffmpeg, which npm installed already on Linux: the copy that is used begins
\* like a Linux executable, or the build fails.
AddFfmpeg ==
    /\ machine = "linux" \/ fetched["ffmpeg"] \in {"whole", "cut"}
    /\ Step("ffmpeg", "sharp",
            [dist EXCEPT !.ffmpeg = IF machine = "linux" \/ fetched["ffmpeg"] = "whole"
                                    THEN "linux" ELSE fetched["ffmpeg"]])

\* sharp: tar refuses an archive that is not whole.
AddSharp ==
    /\ machine = "linux" \/ fetched["sharp"] = "whole"
    /\ Step("sharp", "prove", [dist EXCEPT !.sharp = "linux"])

\* The two that every request may need are read once more.
ProveLinux ==
    /\ command = "prove" /\ dist.argon2 = "linux" /\ dist.sharp = "linux"
    /\ Step("prove", "none", [dist EXCEPT !.finished = TRUE])

\* Whoever is told that a download is not what it should be deletes it.
ClearFetched ==
    /\ command = "none"
    /\ \E x \in Downloads : fetched[x] # "nothing" /\ fetched' = [fetched EXCEPT ![x] = "nothing"]
    /\ UNCHANGED <<machine, tree, standalone, dist, command, building, archive, commands, cut, slipped>>

---------------------------------------------------------------------------
Zip(state) == [of |-> dist, state |-> state]

\* pack:cpanel asks for a directory with something in it, and no more.
BeginPack ==
    /\ dist \notin {Absent, EmptyDist} /\ Run("write")
    /\ building' = Zip("partial")
    /\ UNCHANGED <<machine, tree, standalone, dist, fetched, archive, cut, slipped>>

\* Every file, then the index of them, under the temporary name.
WriteArchive ==
    /\ command = "write" /\ command' = "verify" /\ building' = Zip("whole")
    /\ UNCHANGED <<machine, tree, standalone, dist, fetched, archive, commands, cut, slipped>>

\* OneDrive or another such program puts something else there.
Resynchronise ==
    /\ command \in {"verify", "remove", "rename"}
    /\ building' = [building EXCEPT !.state = "other"]
    /\ slipped' = (slipped \/ command # "verify")
    /\ UNCHANGED <<machine, tree, standalone, dist, fetched, command, archive, commands, cut>>

\* Its length, its entries and their checksums are those of what was written;
\* otherwise the command fails.
ReadBack ==
    /\ command = "verify"
    /\ command' = IF building.state = "whole" THEN "remove" ELSE "none"
    /\ UNCHANGED <<machine, tree, standalone, dist, fetched, building, archive, commands, cut, slipped>>

RemoveOldArchive ==
    /\ command = "remove" /\ command' = "rename" /\ archive' = NoZip
    /\ UNCHANGED <<machine, tree, standalone, dist, fetched, building, commands, cut, slipped>>

NameArchive ==
    /\ command = "rename" /\ command' = "none"
    /\ archive' = building /\ building' = NoZip
    /\ UNCHANGED <<machine, tree, standalone, dist, fetched, commands, cut, slipped>>

BundleNext ==
    \/ EditTree \/ NextBuild \/ BeginBundle \/ CommandStops \/ ClearFetched
    \/ CopyStandalone \/ StripSecrets \/ RepairPackages \/ AddScripts \/ AddArgon2
    \/ (\E x \in Downloads : Fetch(x)) \/ AddFfmpeg \/ AddSharp \/ ProveLinux
    \/ BeginPack \/ WriteArchive \/ Resynchronise \/ ReadBack \/ RemoveOldArchive \/ NameArchive

BundleSpec == BundleInit /\ [][BundleNext]_bundleVars

---------------------------------------------------------------------------
BundleTypeOK ==
    /\ machine \in {"linux", "windows"}
    /\ tree \in 1..TreeBound /\ standalone \in 0..TreeBound /\ commands \in 0..CommandBound
    /\ command \in BuildSteps \cup PackSteps \cup {"none"}
    /\ fetched \in [Downloads -> {"nothing", "whole", "page", "cut"}]
    /\ {building.state, archive.state} \subseteq {"none", "partial", "whole", "other"}

\* What has the name that is uploaded is an archive that was read back, at
\* whichever step a command stopped, unless another program replaced it in the
\* moment after that.
NamedIsVerified == archive.state \in {"none", "whole"} \/ slipped

\* What build:cpanel finished can serve on Linux, keeps no secrets of the
\* machine, and brings migrations as new as its program: retried over
\* downloads that failed before.  Only an ffmpeg whose download was cut short
\* passes for a whole one.
Shippable(d) ==
    /\ ~d.env /\ d.packages = "whole" /\ d.argon2 = "linux" /\ d.sharp = "linux"
    /\ d.ffmpeg = "linux" \/ (d.ffmpeg = "cut" /\ cut)
    /\ 0 < d.program /\ d.program <= d.scripts

\* An archive is as good as the build it was made of; one of a build that
\* stopped is made all the same.
BundlesLand ==
    /\ NamedIsVerified
    /\ dist.finished => Shippable(dist)
    /\ archive.state = "whole" /\ archive.of.finished => Shippable(archive.of)
=============================================================================
