------------------------------ MODULE Uploads ------------------------------
(***************************************************************************)
(* A file on its way from the editor's browser to the readers: the two     *)
(* ways in (lib/uploadClient.ts and the routes under api/media), the one   *)
(* pipeline behind them (lib/mediaPipeline.ts with lib/transcode.ts and    *)
(* lib/scan.ts), the two stores (lib/storage.ts), and the route that makes *)
(* smaller copies of pictures when they are first asked for                *)
(* (app/media/[key]/route.ts).                                             *)
(*                                                                         *)
(* Every upload has a key of its own, so uploads meet only in what they    *)
(* leave behind; readers of a picture meet in its smaller copy.            *)
(***************************************************************************)
EXTENDS Naturals, FiniteSets

CONSTANTS
    Upload,         \* bound of the model: uploads
    Viewer,         \* requests for a smaller copy of a picture, at once
    ViewBound       \* bound of the model: such requests

ASSUME UploadsAssumption == ViewBound \in Nat

VARIABLES
    setup,          \* which of S3, ffmpeg and clamd this server is configured with
    upload,         \* the uploads
    quarantine,     \* objects under QUARANTINE_PREFIX
    kept,           \* objects under keys that are served
    media,          \* Media rows; every one of them says CLEAN
    copy,           \* the file of the smaller copy
    viewer,         \* the requests for it
    views,          \* counter of the bound
    spoilt          \* history: a request that wrote the copy went down

uploadVars == <<setup, upload, quarantine, kept, media, copy, viewer, views, spoilt>>

Setup == [s3 : BOOLEAN, ffmpeg : BOOLEAN, clamd : BOOLEAN]
Kind == {"image", "video or audio", "other"}
UploadPc == {"ticket", "put", "finalize", "send", "detect", "encode", "scan", "store",
             "row", "clear", "answered", "left"}
UploadRow == [pc : UploadPc, kind : Kind, direct : BOOLEAN, encoded : BOOLEAN,
              scan : {"none", "clean", "infected", "unavailable", "error"}]

UploadsInit ==
    /\ setup \in Setup
    /\ upload \in [Upload -> [pc : {"ticket"}, kind : Kind, direct : {FALSE},
                              encoded : {FALSE}, scan : {"none"}]]
    /\ quarantine = {} /\ kept = {} /\ media = {}
    /\ copy = "none" /\ viewer = [v \in Viewer |-> [pc |-> "idle", overlapped |-> FALSE]]
    /\ views = 0 /\ spoilt = FALSE

UploadAt(u, pc) == upload[u].pc = pc
Goes(u, pc) == upload' = [upload EXCEPT ![u].pc = pc]
Known(u, row) == upload' = [upload EXCEPT ![u] = row]
\* The end of a request; what came directly is cleared away first.
Ends(u) == IF upload[u].direct THEN "clear" ELSE "answered"
Copies == UNCHANGED <<copy, viewer, views>>
Stores == UNCHANGED <<quarantine, kept, media>>

---------------------------------------------------------------------------
(* The two ways in                                                         *)

\* upload-url: 501 without S3, and then through the server; or no more today.
AskForUrl(u) ==
    /\ UploadAt(u, "ticket")
    /\ \/ Known(u, [upload[u] EXCEPT !.pc = IF setup.s3 THEN "put" ELSE "send", !.direct = setup.s3])
       \/ Goes(u, "answered")
    /\ Stores /\ Copies /\ UNCHANGED <<setup, spoilt>>

\* The browser's PUT.
Put(u) ==
    /\ UploadAt(u, "put")
    /\ \/ Goes(u, "finalize") /\ quarantine' = quarantine \cup {u}
       \/ Goes(u, "left") /\ UNCHANGED quarantine
    /\ Copies /\ UNCHANGED <<setup, kept, media, spoilt>>

\* finalize: refused when the token has expired or the limit is reached,
\* and then the object stays where it is.
Finalize(u) ==
    /\ UploadAt(u, "finalize")
    /\ \E pc \in {"detect", "left"} : Goes(u, pc)
    /\ Stores /\ Copies /\ UNCHANGED <<setup, spoilt>>

SendThrough(u) ==
    /\ UploadAt(u, "send")
    /\ \E pc \in {"detect", "answered"} : Goes(u, pc)
    /\ Stores /\ Copies /\ UNCHANGED <<setup, spoilt>>

---------------------------------------------------------------------------
(* The pipeline                                                            *)

DetectType(u) ==
    /\ UploadAt(u, "detect")
    /\ \E fits \in BOOLEAN : Goes(u, IF fits /\ upload[u].kind # "other" THEN "encode" ELSE Ends(u))
    /\ Stores /\ Copies /\ UNCHANGED <<setup, spoilt>>

\* sharp, or transcode: it ends well or in an error, or there is no ffmpeg.
ReEncode(u) ==
    /\ UploadAt(u, "encode")
    /\ IF upload[u].kind = "image" \/ setup.ffmpeg
       THEN \/ Known(u, [upload[u] EXCEPT !.pc = "scan", !.encoded = TRUE])
            \/ Goes(u, Ends(u))
       ELSE Goes(u, "scan")
    /\ Stores /\ Copies /\ UNCHANGED <<setup, spoilt>>

\* scanBuffer; an answer nobody understands, a timeout and a closed line are errors.
Answers == IF setup.clamd THEN {"clean", "infected", "error"} ELSE {"unavailable"}

\* Mutant: an error of the scanner is no refusal.
RefusesInfected(row, scan) ==
    scan = "infected" \/ (~row.encoded /\ scan # "clean")

\* scannerRefusal, and the rule that nothing unconfirmed is kept.
Refuses(row, scan) ==
    \/ scan = "infected"
    \/ scan = "error" /\ setup.clamd
    \/ ~row.encoded /\ scan # "clean"

Scan(u) ==
    /\ UploadAt(u, "scan")
    /\ \E scan \in Answers :
           Known(u, [upload[u] EXCEPT !.scan = scan,
                        !.pc = IF Refuses(upload[u], scan) THEN Ends(u) ELSE "store"])
    /\ Stores /\ Copies /\ UNCHANGED <<setup, spoilt>>

StoreObject(u) ==
    /\ UploadAt(u, "store")
    /\ \/ Goes(u, "row") /\ kept' = kept \cup {u}
       \/ Goes(u, Ends(u)) /\ UNCHANGED kept
    /\ Copies /\ UNCHANGED <<setup, quarantine, media, spoilt>>

CreateRow(u) ==
    /\ UploadAt(u, "row")
    /\ media' \in {media, media \cup {u}}
    /\ Goes(u, Ends(u))
    /\ Copies /\ UNCHANGED <<setup, quarantine, kept, spoilt>>

\* finally: deleteObject, whose failure is swallowed.
ClearQuarantine(u) ==
    /\ UploadAt(u, "clear")
    /\ \/ quarantine' = quarantine \ {u} /\ Goes(u, "answered")
       \/ UNCHANGED quarantine /\ Goes(u, "left")
    /\ Copies /\ UNCHANGED <<setup, kept, media, spoilt>>

\* The tab is closed, or the server goes down.
Leave(u) ==
    /\ upload[u].pc \notin {"answered", "left"}
    /\ Goes(u, "left")
    /\ Stores /\ Copies /\ UNCHANGED <<setup, spoilt>>

---------------------------------------------------------------------------
(* Smaller copies                                                          *)

CopyOnly == UNCHANGED <<setup, upload, quarantine, kept, media>>
Writing(v) == \E w \in Viewer \ {v} : viewer[w].pc = "writing"
See(v, pc) == viewer' = [viewer EXCEPT ![v].pc = pc]

\* resizedVariant, when files are served from this disk: what is there is
\* served as it is.
AskForCopy(v) ==
    /\ ~setup.s3
    /\ viewer[v].pc = "idle" /\ views < ViewBound /\ views' = views + 1
    /\ viewer' = [viewer EXCEPT ![v] = [overlapped |-> Writing(v),
           pc |-> CASE copy = "none" -> "making" [] copy = "part" -> "got part" [] OTHER -> "got whole"]]
    /\ UNCHANGED <<copy, spoilt>> /\ CopyOnly

\* Mutant: the file is opened before there is anything to write.
OpenAndMake(v) ==
    /\ viewer[v].pc = "making"
    /\ copy' = "part" /\ \E pc \in {"writing", "refused"} : See(v, pc)
    /\ UNCHANGED <<views, spoilt>> /\ CopyOnly

\* The original is read and made smaller; the file is opened, empty.
MakeCopy(v) ==
    /\ viewer[v].pc = "making"
    /\ \/ copy' = "part" /\ See(v, "writing")
       \/ copy' = copy /\ See(v, "refused")
    /\ UNCHANGED <<views, spoilt>> /\ CopyOnly

FinishCopy(v) ==
    /\ viewer[v].pc = "writing"
    /\ copy' = "whole" /\ See(v, "got whole")
    /\ UNCHANGED <<views, spoilt>> /\ CopyOnly

WriterGoesDown(v) ==
    /\ viewer[v].pc = "writing"
    /\ See(v, "refused") /\ spoilt' = TRUE
    /\ UNCHANGED <<copy, views>> /\ CopyOnly

\* The page is shown; the place is free for the next request.
Shown(v) ==
    /\ viewer[v].pc \in {"got part", "got whole", "refused"}
    /\ See(v, "idle")
    /\ UNCHANGED <<copy, views, spoilt>> /\ CopyOnly

UploadsNext ==
    \/ \E u \in Upload :
           \/ AskForUrl(u) \/ Put(u) \/ Finalize(u) \/ SendThrough(u)
           \/ DetectType(u) \/ ReEncode(u) \/ Scan(u) \/ StoreObject(u) \/ CreateRow(u)
           \/ ClearQuarantine(u) \/ Leave(u)
    \/ \E v \in Viewer :
           AskForCopy(v) \/ MakeCopy(v) \/ FinishCopy(v) \/ WriterGoesDown(v) \/ Shown(v)

UploadsSpec == UploadsInit /\ [][UploadsNext]_uploadVars

---------------------------------------------------------------------------
UploadsTypeOK ==
    /\ setup \in Setup /\ upload \in [Upload -> UploadRow]
    /\ quarantine \cup kept \cup media \subseteq Upload
    /\ copy \in {"none", "part", "whole"} /\ views \in 0..ViewBound

\* Nothing is served that was not made safe: a kept object passed the
\* scanner when there is one and was re-encoded when there is none, every
\* Media row has its object, and a direct upload that was answered has left
\* quarantine unless the deletion failed.
ServedIsChecked ==
    /\ \A u \in kept : IF setup.clamd THEN upload[u].scan = "clean" ELSE upload[u].encoded
    /\ media \subseteq kept
    /\ \A u \in quarantine : ~UploadAt(u, "answered")

\* A reader is sent part of a picture only while another request writes the
\* copy, or after one that wrote it went down.
PicturesAreWhole ==
    \A v \in Viewer : viewer[v].pc = "got part" => viewer[v].overlapped \/ spoilt

UploadsAreSafe == ServedIsChecked /\ PicturesAreWhole
=============================================================================
