---------------------------- MODULE MCTcpWorkers ----------------------------
(* TcpWorkers for TLC.  Workers are interchangeable, and so are            *)
(* connections: the safety runs may use their permutations.                *)
EXTENDS TcpWorkers, TLC

Symmetry == Permutations(Workers) \cup Permutations(Conns)

=============================================================================
