----------------------------- MODULE MCLogScanner -----------------------------
(* Model values for the runs of LogScanner. *)
EXTENDS LogScanner
CONSTANTS t1, t2
=============================================================================
