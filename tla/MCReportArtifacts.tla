-------------------------- MODULE MCReportArtifacts -------------------------
(* Two generation jobs of two attempts each, two requests, two persist       *)
(* transactions at a time.  Every render differs from every other: the       *)
(* renderer prints with Chromium, which writes the time into the PDF.        *)
EXTENDS ReportArtifacts, TLC

CONSTANTS j1, j2, r1, r2, p1, p2

MCBytes == [t \in Jobs \X (1..MaxAttempts) |-> t]

Symmetry == Permutations(Workers) \cup Permutations(Requests)
=============================================================================
