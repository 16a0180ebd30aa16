--------------------------- MODULE MCReportLibrary ---------------------------
(* Instances of ReportLibrary for TLC. *)
EXTENDS ReportLibrary, TLC

\* Every file has one byte, so calls and contents are alike.
OneByte == [x \in Content |-> 1]
Alike == Permutations(Call) \cup Permutations(Content)
=============================================================================
