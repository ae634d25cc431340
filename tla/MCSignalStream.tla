---------------------------- MODULE MCSignalStream ----------------------------
(* Three entries, batches of two, two runs of a worker. *)
EXTENDS SignalStream

CONSTANTS c1, c2

MCConsumers == {c1, c2}
=============================================================================
