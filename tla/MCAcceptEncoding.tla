-------------------------- MODULE MCAcceptEncoding --------------------------
(* AcceptEncoding for TLC: -1 (which parses), 0, 0.0001, 0.5 and 1.0, as   *)
(* ranks.                                                                  *)
EXTENDS AcceptEncoding

Ranks == -1 .. 3

=============================================================================
