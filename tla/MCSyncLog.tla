----------------------------- MODULE MCSyncLog -----------------------------
(* Instances of SyncLog for TLC. *)
EXTENDS SyncLog, TLC

\* Appenders are interchangeable.
WriterSymmetry == Permutations(Writers)
=============================================================================
