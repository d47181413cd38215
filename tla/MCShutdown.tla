----------------------------- MODULE MCShutdown -----------------------------
(* Instances of Shutdown for TLC.                                          *)
EXTENDS Shutdown

MCWorkerOf == [r \in H3Responses |-> CHOOSE w \in QuicWorkers : TRUE]

=============================================================================
