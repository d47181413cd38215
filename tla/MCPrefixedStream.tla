-------------------------- MODULE MCPrefixedStream --------------------------
(* PrefixedStream for TLC.                                                 *)
EXTENDS PrefixedStream

BuffersUpTo4 == 0 .. 4

=============================================================================
