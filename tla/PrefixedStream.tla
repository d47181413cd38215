--------------------------- MODULE PrefixedStream ---------------------------
(***************************************************************************)
(* The byte that handle_tcp_connection reads ahead to tell TLS from plain  *)
(* HTTP (tcp_worker.rs), and PrefixedStream (tls_stream.rs), which gives   *)
(* it back to whoever reads the connection next: rustls or hyper.          *)
(*                                                                         *)
(* The reader polls with a buffer.  What a poll puts into the buffer       *)
(* counts only if the poll is ready: after Pending the reader starts over  *)
(* with its own idea of how much is filled.                                *)
(***************************************************************************)
EXTENDS Naturals, Sequences

CONSTANTS
    Length,        \* bytes the client sends at most
    FirstSegment,  \* bytes that are there, at least, when the first one is
    Buffers        \* room in the buffers the reader polls with

ASSUME StreamAssumption ==
    /\ Length \in Nat
    /\ FirstSegment \in 1 .. Length
    /\ Buffers \subseteq Nat

VARIABLES
    sent,       \* bytes in the socket so far, read or not
    client,     \* "open", "closed" after its last byte, or "reset"
    taken,      \* bytes read from the socket
    prefix,     \* the first byte while PrefixedStream holds it, or nothing
    reader,     \* "sniffing", then "reading", in the end "done"
    delivered   \* the bytes the reader has got, by position

vars == <<sent, client, taken, prefix, reader, delivered>>

Init ==
    /\ sent = 0
    /\ client = "open"
    /\ taken = 0
    /\ prefix = <<>>
    /\ reader = "sniffing"
    /\ delivered = <<>>

-----------------------------------------------------------------------------
(* The client.                                                             *)

Arrive ==
    /\ client = "open"
    /\ sent' \in (IF sent = 0 THEN FirstSegment ELSE sent + 1) .. Length
    /\ UNCHANGED <<client, taken, prefix, reader, delivered>>

Leave ==
    /\ client = "open"
    /\ client' \in {"closed", "reset"}
    /\ UNCHANGED <<sent, taken, prefix, reader, delivered>>

-----------------------------------------------------------------------------
(* handle_tcp_connection: read_exact of one byte.                          *)

Sniff ==
    /\ reader = "sniffing"
    /\ sent > 0
    /\ taken' = 1
    /\ prefix' = <<1>>
    /\ reader' = "reading"
    /\ UNCHANGED <<sent, client, delivered>>

SniffFails ==
    /\ reader = "sniffing"
    /\ client = "reset" \/ (client = "closed" /\ sent = 0)
    /\ reader' = "done"
    /\ UNCHANGED <<sent, client, taken, prefix, delivered>>

-----------------------------------------------------------------------------
(* PrefixedStream::poll_read with room for n bytes.                        *)

(* The bytes first .. last.                                                *)
Run(first, last) == [i \in 1 .. last + 1 - first |-> first + i - 1]

(* Mutants: the byte is taken even when the buffer has no room for it; it  *)
(* is copied, not taken.                                                   *)
TakePrefixUnguarded(n) == prefix' = <<>>
TakePrefixCopying(n) == UNCHANGED prefix

(* prefix.take(), if the buffer has room.                                  *)
TakePrefix(n) == prefix' = IF n > 0 THEN <<>> ELSE prefix

Front(n) == IF n > 0 THEN prefix ELSE <<>>

Room(n) == n - Len(Front(n))

(* Mutant: the whole buffer counts as filled.                              *)
GotWholeBuffer(n) == Room(n)

(* What the socket puts behind it.                                         *)
Got(n) == IF Room(n) < sent - taken THEN Room(n) ELSE sent - taken

(* The socket has something for the rest of the buffer.                    *)

(* Mutant: the byte is put behind what the socket gave.                    *)
ReadReadySwapped(n) ==
    /\ Got(n) > 0
    /\ taken' = taken + Got(n)
    /\ delivered' = delivered \o Run(taken + 1, taken + Got(n)) \o Front(n)
    /\ UNCHANGED reader

ReadReady(n) ==
    /\ Got(n) > 0
    /\ taken' = taken + Got(n)
    /\ delivered' = delivered \o Front(n) \o Run(taken + 1, taken + Got(n))
    /\ UNCHANGED reader

(* The rest of the buffer has no room, and the socket is readable, or was  *)
(* when the runtime last looked.                                           *)
ReadNothing(n) ==
    /\ Room(n) = 0
    /\ delivered' = delivered \o Front(n)
    /\ UNCHANGED <<taken, reader>>

(* The end of the stream; a reader that gets no byte knows it.             *)
ReadEnd(n) ==
    /\ client = "closed"
    /\ taken = sent
    /\ Room(n) > 0
    /\ delivered' = delivered \o Front(n)
    /\ reader' = IF Front(n) = <<>> THEN "done" ELSE reader
    /\ UNCHANGED taken

(* The socket has nothing yet: Pending, whatever is in the buffer.         *)
ReadPending(n) ==
    /\ client = "open"
    /\ taken = sent
    /\ UNCHANGED <<taken, reader, delivered>>

(* After a reset what is left in the socket may or may not be read first.  *)
ReadError(n) ==
    /\ client = "reset"
    /\ reader' = "done"
    /\ UNCHANGED <<taken, delivered>>

PollRead(n) ==
    /\ reader = "reading"
    /\ TakePrefix(n)
    /\ \/ ReadReady(n)
       \/ ReadNothing(n)
       \/ ReadEnd(n)
       \/ ReadPending(n)
       \/ ReadError(n)
    /\ UNCHANGED <<sent, client>>

-----------------------------------------------------------------------------
Next ==
    \/ Arrive
    \/ Leave
    \/ Sniff
    \/ SniffFails
    \/ \E n \in Buffers : PollRead(n)

Spec == Init /\ [][Next]_vars

(* A task whose socket becomes readable is polled again, and both readers  *)
(* poll with room until the stream ends.  Nothing makes the client send.   *)
FairSpec ==
    /\ Spec
    /\ WF_vars(Sniff)
    /\ WF_vars(SniffFails)
    /\ WF_vars(\E n \in Buffers \ {0} : PollRead(n))

-----------------------------------------------------------------------------
(* Properties.                                                             *)

(* Every variable has its type.                                            *)
TypeOK ==
    /\ sent \in 0 .. Length
    /\ client \in {"open", "closed", "reset"}
    /\ taken \in 0 .. sent
    /\ prefix \in {<<>>, <<1>>}
    /\ reader \in {"sniffing", "reading", "done"}
    /\ delivered \in Seq(1 .. Length)

(* What rustls or hyper has read is what was taken from the socket, in     *)
(* order and without repetition, but for the first byte: it is still held, *)
(* or delivered first, or lost.  No other byte is ever lost.               *)
OnlyFirstByteLost ==
    IF prefix = <<1>>
    THEN taken = 1 /\ delivered = <<>>
    ELSE delivered \in {Run(1, taken), Run(2, taken)}

(* The reader gets the client's bytes as from the socket itself.  This is  *)
(* so only if a second byte is there with the first one.                   *)
Stream == INSTANCE ByteStream

RefinesByteStream == Stream!StreamSpec

(* A client that closes in order has everything it sent read.              *)
EverythingRead == (client = "closed") ~> (delivered = Run(1, sent))

-----------------------------------------------------------------------------
(* What the documentation says and the code does not do.                   *)

(* tls_stream.rs: "a previously-read single byte is yielded first, then    *)
(* the remaining stream data follows".                                     *)
PrefixYieldedFirst == delivered # <<>> => delivered[1] = 1

=============================================================================
