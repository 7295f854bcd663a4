---------------------------- MODULE MCLedgerStore ----------------------------
(* LedgerStore for TLC, with every kind of failure.  The threads are not    *)
(* declared interchangeable: CallsEnd is a liveness property.               *)
EXTENDS LedgerStore

AllFaults == FaultKinds
=============================================================================
