----------------------------- MODULE MC_Issues -----------------------------
(***************************************************************************)
(* Small instances of Issues for TLC.  `chief' holds every queue permission *)
(* as an administrator does; `vera' only verifies, and may file reports.   *)
(***************************************************************************)
EXTENDS Issues, TLC

CONSTANTS vera, chief, m1, d1

MCUser == {vera, chief}
MCMedia == {m1}
MCMediaOwner == (m1 :> chief)
MCReporters == {vera}
MCVerifiers == {vera, chief}
MCPublishers == {chief}
MCVolatile == {chief}

\* Requests are interchangeable.
ReqSymmetry == Permutations(Req)
============================================================================
