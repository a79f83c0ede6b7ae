------------------------------- MODULE MCFifo -------------------------------
(* Fifo with two producers and two pool threads, built without a limit,    *)
(* for one job, or for two.  Two jobs may be queued and two more be in the *)
(* hands of producers that wait for room.                                  *)
EXTENDS Fifo

MCLimits == {0, 1, 2}
=============================================================================
