--------------------------- MODULE MCScanRecords ---------------------------
(* The entry module of TLC.  Calls are not permuted: VerdictsArrive, which *)
(* is about each of them, would not survive it.                            *)
EXTENDS ScanRecords
=============================================================================
