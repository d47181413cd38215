----------------------------- MODULE ByteStream -----------------------------
(***************************************************************************)
(* What a reader may expect of a stream: the bytes the client sends, in    *)
(* the order it sends them, none missing and none twice.  A byte is named  *)
(* by its position.                                                        *)
(***************************************************************************)
EXTENDS Naturals, Sequences

CONSTANT Length   \* bytes the client sends at most

VARIABLES
    sent,       \* bytes the client has sent
    delivered   \* what the reader has got

streamVars == <<sent, delivered>>

(* The bytes first .. last.                                                *)
Run(first, last) == [i \in 1 .. last + 1 - first |-> first + i - 1]

StreamInit == sent = 0 /\ delivered = <<>>

SendMore ==
    /\ sent' \in sent + 1 .. Length
    /\ UNCHANGED delivered

Deliver ==
    /\ \E last \in Len(delivered) + 1 .. sent :
          delivered' = delivered \o Run(Len(delivered) + 1, last)
    /\ UNCHANGED sent

StreamNext == SendMore \/ Deliver

StreamSpec == StreamInit /\ [][StreamNext]_streamVars

=============================================================================
