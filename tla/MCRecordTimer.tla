--------------------------- MODULE MCRecordTimer ---------------------------
(***************************************************************************)
(* RecordTimer for TLC.                                                    *)
(***************************************************************************)
EXTENDS RecordTimer, TLC

Symmetric == Permutations(Timers \ Instant) \cup Permutations(Services)
=============================================================================
