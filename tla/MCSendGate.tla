------------------------------ MODULE MCSendGate ------------------------------
(* Three threads of one end: t1 sends messages of two lines, the others of one.  *)
(* At the worker t1 is the JobThread, t2 the Communicator's; at the server t3    *)
(* sends CANCELJOB.                                                              *)
EXTENDS SendGate

CONSTANTS t1, t2, t3

MCLength == [t \in Threads |-> IF t = t1 THEN 2 ELSE 1]
=============================================================================
