------------------------------ MODULE MCEventLog ------------------------------
(* Small instances of EventLog for TLC. *)
EXTENDS EventLog

\* Batches of one and two records, of two sizes.
MCBatches == {<<1>>, <<2>>, <<1, 2>>}
=============================================================================
