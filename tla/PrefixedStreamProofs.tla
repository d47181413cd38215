------------------------ MODULE PrefixedStreamProofs ------------------------
(***************************************************************************)
(* What PrefixedStream delivers, for streams and buffers of any length.    *)
(* StreamInv is inductive: it says where the first byte is.  With a second *)
(* byte there from the start a pending read never meets a held prefix, and *)
(* WholeInv says that nothing is missing.                                  *)
(***************************************************************************)
EXTENDS PrefixedStream, TLAPS

StreamInv ==
    /\ TypeOK
    /\ OnlyFirstByteLost
    /\ reader = "sniffing" => taken = 0 /\ prefix = <<>>
    /\ reader = "reading" => taken > 0

(* A run of bytes has the length and the elements it should have.          *)
LEMMA RunType ==
    ASSUME NEW a \in Nat \ {0}, NEW b \in Nat, a <= b + 1, b <= Length, Length \in Nat
    PROVE  /\ Run(a, b) \in Seq(1 .. Length)
           /\ Len(Run(a, b)) = b + 1 - a
  BY DEF Run

(* Two runs, one behind the other, are one.                                *)
LEMMA RunJoin ==
    ASSUME NEW a \in Nat \ {0}, NEW b \in Nat, NEW c \in Nat, a <= b + 1, b <= c
    PROVE  Run(a, b) \o Run(b + 1, c) = Run(a, c)
  BY DEF Run

(* The first byte and a run behind it.                                     *)
LEMMA RunFront ==
    ASSUME NEW c \in Nat \ {0}
    PROVE  <<1>> \o Run(2, c) = Run(1, c)
  BY DEF Run

(* The empty run.                                                          *)
LEMMA RunEmpty == ASSUME NEW a \in Nat \ {0} PROVE Run(a, a - 1) = <<>>
  BY DEF Run

(* Nothing has been read at first.                                         *)
LEMMA StreamInitially == Init => StreamInv
<1> SUFFICES ASSUME Init PROVE StreamInv
    OBVIOUS
<1>1. Run(1, taken) = <<>>
    BY RunEmpty DEF Init
<1>2. TypeOK
  <2>1. <<>> \in Seq(1 .. Length)
      OBVIOUS
  <2> QED
      BY <2>1, StreamAssumption DEF Init, TypeOK
<1>3. OnlyFirstByteLost
    BY <1>1 DEF Init, OnlyFirstByteLost
<1> QED
    BY <1>2, <1>3 DEF Init, StreamInv

(* What a poll gets from the socket is there.                              *)
LEMMA GotType ==
    ASSUME TypeOK, NEW n \in Nat
    PROVE  /\ Got(n) \in Nat
           /\ taken + Got(n) <= sent
           /\ Room(n) \in Nat
           /\ Got(n) > 0 => Room(n) > 0
<1>1. sent \in Nat /\ taken \in Nat /\ taken <= sent
    BY StreamAssumption DEF TypeOK
<1>2. Room(n) \in Nat
  <2>1. CASE n > 0 /\ prefix = <<1>>
      BY <2>1 DEF Room, Front
  <2>2. CASE n > 0 /\ prefix = <<>>
      BY <2>2 DEF Room, Front
  <2>3. CASE n = 0
      BY <2>3 DEF Room, Front
  <2> QED
      BY <2>1, <2>2, <2>3 DEF TypeOK
<1> QED
    BY <1>1, <1>2 DEF Got

(* What the reader has got when nothing but a run was delivered.           *)
LEMMA ReadReadyStep ==
    ASSUME StreamInv, NEW n \in Nat,
           reader = "reading", TakePrefix(n), ReadReady(n), UNCHANGED <<sent, client>>
    PROVE  StreamInv'
<1>1. /\ taken \in Nat \ {0} /\ Got(n) \in Nat \ {0} /\ Room(n) > 0
      /\ taken + Got(n) <= sent /\ sent \in Nat /\ sent <= Length /\ Length \in Nat
  <2>1. sent \in Nat /\ sent <= Length /\ Length \in Nat /\ taken \in Nat \ {0}
      BY StreamAssumption DEF StreamInv, TypeOK
  <2>2. Got(n) > 0
      BY DEF ReadReady
  <2> QED
      BY <2>1, <2>2, GotType DEF StreamInv
<1>2. n > 0
    BY <1>1 DEF Room, Front
<1>3. prefix' = <<>> /\ taken' = taken + Got(n) /\ reader' = reader
    BY <1>2 DEF TakePrefix, ReadReady, StreamInv, TypeOK
<1>4. delivered' \in {Run(1, taken'), Run(2, taken')}
  <2>1. CASE prefix = <<1>>
    <3>1. taken = 1 /\ delivered = <<>> /\ Front(n) = <<1>>
        BY <1>2, <2>1 DEF StreamInv, OnlyFirstByteLost, Front
    <3>2. delivered' = (<<>> \o <<1>>) \o Run(2, 1 + Got(n))
        BY <3>1 DEF ReadReady
    <3>3. delivered' = <<1>> \o Run(2, 1 + Got(n))
        BY <3>2
    <3>4. 1 + Got(n) \in Nat \ {0}
        BY <1>1
    <3>5. <<1>> \o Run(2, 1 + Got(n)) = Run(1, 1 + Got(n))
        BY <3>4, RunFront
    <3> QED
        BY <1>3, <3>1, <3>3, <3>5
  <2>2. CASE prefix = <<>>
    <3>1. Front(n) = <<>>
        BY <2>2 DEF Front
    <3>2. PICK f \in {1, 2} : delivered = Run(f, taken)
        BY <2>2 DEF StreamInv, OnlyFirstByteLost
    <3>3. f \in Nat \ {0} /\ f <= taken + 1 /\ taken \in Nat /\ taken <= Length
        BY <1>1
    <3>4. Run(f, taken) \in Seq(1 .. Length)
        BY <1>1, <3>3, RunType
    <3>5. delivered' = (Run(f, taken) \o <<>>) \o Run(taken + 1, taken + Got(n))
        BY <3>1, <3>2 DEF ReadReady
    <3>6. delivered' = Run(f, taken) \o Run(taken + 1, taken + Got(n))
        BY <3>4, <3>5
    <3>7. Run(f, taken) \o Run(taken + 1, taken + Got(n)) = Run(f, taken + Got(n))
      <4>1. taken + Got(n) \in Nat /\ taken <= taken + Got(n)
          BY <1>1
      <4> QED
          BY <3>3, <4>1, RunJoin
    <3> QED
        BY <1>3, <3>6, <3>7
  <2> QED
    BY <2>1, <2>2 DEF StreamInv, TypeOK
<1>5. delivered' \in Seq(1 .. Length)
  <2>1. taken' \in Nat /\ 1 <= taken' /\ taken' <= Length
      BY <1>1, <1>3
  <2>2. Run(1, taken') \in Seq(1 .. Length)
      BY <1>1, <2>1, RunType
  <2>3. Run(2, taken') \in Seq(1 .. Length)
      BY <1>1, <2>1, RunType
  <2> QED
      BY <1>4, <2>2, <2>3
<1> QED
    BY <1>1, <1>3, <1>4, <1>5 DEF StreamInv, TypeOK, OnlyFirstByteLost

(* A poll that gets at most the held byte.                                 *)
LEMMA ReadFrontStep ==
    ASSUME StreamInv, NEW n \in Nat,
           reader = "reading", TakePrefix(n), reader' \in {"reading", "done"},
           delivered' \in {delivered, delivered \o Front(n)},
           UNCHANGED <<sent, client, taken>>
    PROVE  StreamInv'
<1>1. taken \in Nat \ {0} /\ taken <= Length /\ Length \in Nat
    BY StreamAssumption DEF StreamInv, TypeOK
<1>2. CASE prefix = <<1>> /\ n > 0
  <2>1. taken = 1 /\ delivered = <<>> /\ Front(n) = <<1>> /\ prefix' = <<>>
      BY <1>2 DEF StreamInv, OnlyFirstByteLost, Front, TakePrefix, TypeOK
  <2>2. delivered' = <<>> \/ delivered' = <<1>>
      BY <2>1
  <2>3. Run(1, 1) = <<1>> /\ Run(2, 1) = <<>>
      BY DEF Run
  <2>4. OnlyFirstByteLost'
      BY <2>1, <2>2, <2>3 DEF OnlyFirstByteLost
  <2>5. delivered' \in Seq(1 .. Length)
    <3>1. 1 \in 1 .. Length
        BY <1>1
    <3>2. <<>> \in Seq(1 .. Length) /\ <<1>> \in Seq(1 .. Length)
        BY <3>1
    <3> QED
        BY <2>2, <3>2
  <2> QED
      BY <2>1, <2>4, <2>5 DEF StreamInv, TypeOK
<1>3. CASE ~(prefix = <<1>> /\ n > 0)
  <2>1. Front(n) = <<>> /\ prefix' = prefix
      BY <1>3 DEF Front, TakePrefix, StreamInv, TypeOK
  <2>2. delivered' = delivered
      BY <2>1 DEF StreamInv, TypeOK
  <2> QED
      BY <2>1, <2>2 DEF StreamInv, TypeOK, OnlyFirstByteLost
<1> QED
    BY <1>2, <1>3

(* Every poll keeps the invariant.                                         *)
LEMMA PollReadStep ==
    ASSUME StreamInv, NEW n \in Nat, PollRead(n)
    PROVE  StreamInv'
<1>1. CASE ReadReady(n)
    BY <1>1, ReadReadyStep DEF PollRead
<1>2. CASE ~ReadReady(n)
  <2>1. /\ reader' \in {"reading", "done"} /\ UNCHANGED taken
        /\ delivered' \in {delivered, delivered \o Front(n)}
      BY <1>2 DEF PollRead, ReadNothing, ReadEnd, ReadPending, ReadError
  <2> QED
      BY <2>1, ReadFrontStep DEF PollRead
<1> QED
    BY <1>1, <1>2

(* The client's steps and the sniffing keep it.                            *)
LEMMA OtherStep ==
    ASSUME StreamInv,
           Arrive \/ Leave \/ Sniff \/ SniffFails \/ UNCHANGED vars
    PROVE  StreamInv'
<1>1. CASE Arrive
  <2>1. sent' \in Nat /\ sent' <= Length /\ sent <= sent'
      BY <1>1, StreamAssumption DEF Arrive, StreamInv, TypeOK
  <2> QED
      BY <1>1, <2>1 DEF Arrive, StreamInv, TypeOK, OnlyFirstByteLost
<1>2. CASE Leave
    BY <1>2 DEF Leave, StreamInv, TypeOK, OnlyFirstByteLost
<1>3. CASE Sniff
  <2>1. taken = 0 /\ prefix = <<>> /\ delivered \in {Run(1, 0), Run(2, 0)}
      BY <1>3 DEF Sniff, StreamInv, OnlyFirstByteLost
  <2>2. Run(1, 0) = <<>> /\ Run(2, 0) = <<>>
      BY DEF Run
  <2>3. delivered = <<>>
      BY <2>1, <2>2
  <2> QED
      BY <1>3, <2>3 DEF Sniff, StreamInv, TypeOK, OnlyFirstByteLost
<1>4. CASE SniffFails
    BY <1>4 DEF SniffFails, StreamInv, TypeOK, OnlyFirstByteLost
<1>5. CASE UNCHANGED vars
    BY <1>5 DEF vars, StreamInv, TypeOK, OnlyFirstByteLost
<1> QED
    BY <1>1, <1>2, <1>3, <1>4, <1>5

(* StreamInv holds in every reachable state.                               *)
THEOREM StreamInvariance == Spec => []StreamInv
<1>1. StreamInv /\ [Next]_vars => StreamInv'
    BY StreamAssumption, OtherStep, PollReadStep DEF Next
<1> QED
    BY StreamInitially, <1>1, PTL DEF Spec

(* Types are kept.                                                         *)
THEOREM StreamTypes == Spec => []TypeOK
<1>1. StreamInv => TypeOK
    BY DEF StreamInv
<1> QED
    BY StreamInvariance, <1>1, PTL

(* PrefixedStream loses at most the first byte, repeats none and keeps the *)
(* order, whatever the sizes of the client's segments and of the buffers.  *)
THEOREM AtMostFirstByteLost == Spec => []OnlyFirstByteLost
<1>1. StreamInv => OnlyFirstByteLost
    BY DEF StreamInv
<1> QED
    BY StreamInvariance, <1>1, PTL

-----------------------------------------------------------------------------
(* With FirstSegment >= 2 nothing is lost.                                 *)

WholeInv ==
    /\ sent = 0 \/ sent > 1
    /\ reader # "done" /\ prefix = <<>> => delivered = Run(1, taken)

(* There is a second byte from the start, and a byte is only given up with *)
(* the connection.                                                         *)
LEMMA WholeInitially == Init => WholeInv
<1>1. 0 \in Nat /\ Run(1, 0) = <<>>
    BY DEF Run
<1> QED
    BY <1>1 DEF Init, WholeInv

(* What a ready poll delivers continues what was delivered before.         *)
LEMMA DeliversMore ==
    ASSUME StreamInv, WholeInv, NEW n \in Nat,
           reader = "reading", TakePrefix(n), ReadReady(n)
    PROVE  /\ prefix' = <<>>
           /\ delivered' = delivered \o Run(Len(delivered) + 1, taken')
           /\ delivered' = Run(1, taken')
           /\ taken' \in Len(delivered) + 1 .. sent
<1>1. /\ taken \in Nat \ {0} /\ Got(n) \in Nat \ {0} /\ Room(n) > 0
      /\ taken + Got(n) <= sent /\ sent \in Nat /\ sent <= Length /\ Length \in Nat
  <2>1. sent \in Nat /\ sent <= Length /\ Length \in Nat /\ taken \in Nat \ {0}
      BY StreamAssumption DEF StreamInv, TypeOK
  <2>2. Got(n) > 0
      BY DEF ReadReady
  <2> QED
      BY <2>1, <2>2, GotType DEF StreamInv
<1>2. n > 0
    BY <1>1 DEF Room, Front
<1>3. prefix' = <<>> /\ taken' = taken + Got(n)
    BY <1>2 DEF TakePrefix, ReadReady, StreamInv, TypeOK
<1>4. CASE prefix = <<1>>
  <2>1. taken = 1 /\ delivered = <<>> /\ Front(n) = <<1>>
      BY <1>2, <1>4 DEF StreamInv, OnlyFirstByteLost, Front
  <2>2. delivered' = (<<>> \o <<1>>) \o Run(2, 1 + Got(n))
      BY <2>1 DEF ReadReady
  <2>3. delivered' = <<1>> \o Run(2, 1 + Got(n))
      BY <2>2
  <2>4. 1 + Got(n) \in Nat \ {0}
      BY <1>1
  <2>5. <<1>> \o Run(2, 1 + Got(n)) = Run(1, 1 + Got(n))
      BY <2>4, RunFront
  <2>6. delivered' = Run(1, taken')
      BY <1>3, <2>1, <2>3, <2>5
  <2>7. Run(1, taken') \in Seq(1 .. Length)
    <3>1. 1 \in Nat \ {0} /\ taken' \in Nat /\ 1 <= taken' + 1 /\ taken' <= Length
        BY <1>1, <1>3
    <3> QED
        BY <1>1, <3>1, RunType
  <2>8. <<>> \o Run(1, taken') = Run(1, taken')
      BY <2>7
  <2> QED
      BY <1>1, <1>3, <2>1, <2>6, <2>8
<1>5. CASE prefix = <<>>
  <2>1. Front(n) = <<>> /\ delivered = Run(1, taken)
      BY <1>5 DEF Front, WholeInv
  <2>2. 1 \in Nat \ {0} /\ taken \in Nat /\ 1 <= taken + 1 /\ taken <= Length
      BY <1>1
  <2>3. Run(1, taken) \in Seq(1 .. Length) /\ Len(Run(1, taken)) = taken + 1 - 1
      BY <1>1, <2>2, RunType
  <2>4. delivered' = (delivered \o <<>>) \o Run(taken + 1, taken + Got(n))
      BY <2>1 DEF ReadReady
  <2>5. delivered' = delivered \o Run(taken + 1, taken + Got(n)) /\ Len(delivered) = taken
      BY <2>1, <2>2, <2>3, <2>4
  <2>6. taken + Got(n) \in Nat /\ taken <= taken + Got(n)
      BY <1>1
  <2>7. Run(1, taken) \o Run(taken + 1, taken + Got(n)) = Run(1, taken + Got(n))
      BY <2>2, <2>6, RunJoin
  <2>8. delivered' = Run(1, taken')
      BY <1>3, <2>1, <2>5, <2>7
  <2>9. Run(Len(delivered) + 1, taken') = Run(taken + 1, taken + Got(n))
      BY <1>3, <2>5
  <2>10. taken' \in Len(delivered) + 1 .. sent
      BY <1>1, <1>3, <2>5
  <2> QED
      BY <1>3, <2>5, <2>8, <2>9, <2>10
<1> QED
    BY <1>4, <1>5 DEF StreamInv, TypeOK

(* A poll that delivers the held byte alone, or nothing.                   *)
LEMMA DeliversFront ==
    ASSUME StreamInv, WholeInv, NEW n \in Nat,
           reader = "reading", TakePrefix(n),
           ReadNothing(n) \/ ReadEnd(n) \/ ReadPending(n) \/ ReadError(n)
    PROVE  /\ reader' # "done" /\ prefix' = <<>> => delivered' = Run(1, taken')
           /\ \/ delivered' = delivered
              \/ /\ delivered' = delivered \o Run(Len(delivered) + 1, 1)
                 /\ 1 \in Len(delivered) + 1 .. sent
<1>1. sent \in Nat /\ taken \in Nat /\ taken <= sent
    BY StreamAssumption DEF StreamInv, TypeOK
<1>2. CASE prefix = <<1>> /\ n > 0
  <2>1. taken = 1 /\ taken' = 1 /\ delivered = <<>> /\ Front(n) = <<1>>
      BY <1>2 DEF StreamInv, OnlyFirstByteLost, Front, ReadNothing, ReadEnd, ReadPending, ReadError
  <2>2. sent > 1
      BY <1>1, <2>1 DEF WholeInv
  <2>3. ~ReadPending(n)
      BY <1>1, <2>1, <2>2 DEF ReadPending
  <2>4. Run(1, 1) = <<1>> /\ <<>> \o <<1>> = <<1>> /\ Len(<<>>) = 0
      BY DEF Run
  <2>5. CASE ReadNothing(n)
      BY <1>1, <2>1, <2>2, <2>4, <2>5 DEF ReadNothing
  <2>6. CASE ReadEnd(n)
      BY <1>1, <2>1, <2>2, <2>6 DEF ReadEnd
  <2>7. CASE ReadError(n)
      BY <2>7 DEF ReadError
  <2> QED
      BY <2>3, <2>5, <2>6, <2>7
<1>3. CASE ~(prefix = <<1>> /\ n > 0)
  <2>1. Front(n) = <<>> /\ prefix' = prefix
      BY <1>3 DEF Front, TakePrefix, StreamInv, TypeOK
  <2>2. delivered' = delivered /\ taken' = taken /\ (reader' = reader \/ reader' = "done")
      BY <2>1 DEF ReadNothing, ReadEnd, ReadPending, ReadError, StreamInv, TypeOK
  <2> QED
      BY <2>1, <2>2 DEF WholeInv
<1> QED
    BY <1>2, <1>3

(* Every step keeps WholeInv and is a step of a byte stream, or none.      *)
LEMMA WholeStep ==
    ASSUME FirstSegment > 1, StreamInv, WholeInv, [Next]_vars
    PROVE  WholeInv' /\ [Stream!StreamNext]_(Stream!streamVars)
<1> USE StreamAssumption
<1>1. CASE Arrive
  <2>1. sent' \in sent + 1 .. Length /\ sent' > 1 /\ sent \in Nat
      BY <1>1 DEF Arrive, StreamInv, TypeOK, WholeInv
  <2>2. UNCHANGED <<prefix, reader, taken, delivered>>
      BY <1>1 DEF Arrive
  <2> QED
      BY <2>1, <2>2 DEF WholeInv, Stream!StreamNext, Stream!SendMore
<1>2. CASE Leave
    BY <1>2 DEF Leave, WholeInv, Stream!streamVars
<1>3. CASE Sniff
    BY <1>3 DEF Sniff, WholeInv, Stream!streamVars
<1>4. CASE SniffFails
    BY <1>4 DEF SniffFails, WholeInv, Stream!streamVars
<1>5. ASSUME NEW n \in Nat, PollRead(n)
      PROVE  WholeInv' /\ [Stream!StreamNext]_(Stream!streamVars)
  <2>1. reader = "reading" /\ TakePrefix(n) /\ UNCHANGED sent
      BY <1>5 DEF PollRead
  <2>2. \A a, b : Run(a, b) = Stream!Run(a, b)
      BY DEF Run, Stream!Run
  <2>3. CASE ReadReady(n)
    <3>1. /\ delivered' = delivered \o Run(Len(delivered) + 1, taken')
          /\ delivered' = Run(1, taken')
          /\ taken' \in Len(delivered) + 1 .. sent
        BY <2>1, <2>3, DeliversMore
    <3> QED
        BY <2>1, <2>2, <3>1 DEF WholeInv, Stream!StreamNext, Stream!Deliver
  <2>4. CASE ~ReadReady(n)
    <3>1. /\ reader' # "done" /\ prefix' = <<>> => delivered' = Run(1, taken')
          /\ \/ delivered' = delivered
             \/ /\ delivered' = delivered \o Run(Len(delivered) + 1, 1)
                /\ 1 \in Len(delivered) + 1 .. sent
        BY <1>5, <2>1, <2>4, DeliversFront DEF PollRead
    <3> QED
        BY <2>1, <2>2, <3>1 DEF WholeInv, Stream!StreamNext, Stream!Deliver, Stream!streamVars
  <2> QED
      BY <2>3, <2>4
<1>6. CASE UNCHANGED vars
    BY <1>6 DEF vars, WholeInv, Stream!streamVars
<1> QED
    BY <1>1, <1>2, <1>3, <1>4, <1>5, <1>6 DEF Next

(* If the first byte never comes alone, PrefixedStream gives its reader    *)
(* the client's bytes as the socket would.                                 *)
THEOREM ImplementsByteStream ==
    ASSUME FirstSegment > 1 PROVE Spec => RefinesByteStream
<1>1. Init => Stream!StreamInit
    BY DEF Init, Stream!StreamInit
<1>2. StreamInv /\ WholeInv /\ [Next]_vars =>
          WholeInv' /\ [Stream!StreamNext]_(Stream!streamVars)
    BY WholeStep
<1> QED
    BY WholeInitially, StreamInvariance, <1>1, <1>2, PTL
    DEF Spec, RefinesByteStream, Stream!StreamSpec

-----------------------------------------------------------------------------
(* What the reader has at the end of the stream.                           *)

(* A reader is done only when the client is, and takes a closed stream for *)
(* ended only when neither the socket nor the prefix has a byte left.      *)
EndInv ==
    reader = "done" =>
        /\ client # "open"
        /\ client = "closed" => taken = sent /\ prefix = <<>>

(* The bytes a client sent before it closed have all been read.            *)
AllRead == reader = "done" /\ client = "closed" => delivered = Run(1, sent)

(* A poll that finds the end of the stream has no byte in its front, with  *)
(* room for one.                                                           *)
LEMMA PollFindsEnd ==
    ASSUME StreamInv, EndInv, NEW n \in Nat, PollRead(n) PROVE EndInv'
<1>1. CASE ReadEnd(n)
  <2>1. /\ client = "closed" /\ taken = sent
        /\ UNCHANGED <<taken, sent, client>>
      BY <1>1 DEF PollRead, ReadEnd
  <2>2. CASE reader' = "done"
    <3>1. Front(n) = <<>> /\ Room(n) > 0 /\ reader = "reading" /\ TakePrefix(n)
        BY <1>1, <2>2 DEF PollRead, ReadEnd
    <3>2. n > 0
        BY <3>1 DEF Room
    <3>3. prefix' = <<>>
        BY <3>1, <3>2 DEF TakePrefix
    <3> QED
        BY <2>1, <3>3 DEF EndInv
  <2> QED
      BY <2>2 DEF EndInv
<1>2. CASE ReadError(n)
    BY <1>2 DEF PollRead, ReadError, EndInv
<1>3. CASE ReadReady(n) \/ ReadNothing(n) \/ ReadPending(n)
    BY <1>3 DEF PollRead, ReadReady, ReadNothing, ReadPending, EndInv
<1> QED
    BY <1>1, <1>2, <1>3 DEF PollRead

(* No step but a poll, or a sniff that fails, ends the reading, and none   *)
(* takes the end back.                                                     *)
LEMMA NextFindsEnd == StreamInv /\ EndInv /\ [Next]_vars => EndInv'
<1> SUFFICES ASSUME StreamInv, EndInv, [Next]_vars PROVE EndInv'
    OBVIOUS
<1>1. CASE Arrive \/ Leave \/ Sniff \/ UNCHANGED vars
    BY <1>1 DEF Arrive, Leave, Sniff, vars, EndInv
<1>2. CASE SniffFails
    BY <1>2 DEF SniffFails, StreamInv, EndInv
<1>3. CASE \E n \in Buffers : PollRead(n)
    BY <1>3, PollFindsEnd, StreamAssumption
<1> QED
    BY <1>1, <1>2, <1>3 DEF Next

(* The end is not missed or taken for granted with bytes left, whatever    *)
(* the sizes of segments and buffers.                                      *)
THEOREM EndFound == Spec => []EndInv
<1>1. Init => EndInv
    BY DEF Init, EndInv
<1> QED
    BY <1>1, NextFindsEnd, StreamInvariance, PTL DEF Spec

(* The step that finds the end keeps what was read.                        *)
LEMMA NextAllRead ==
    ASSUME StreamInv, WholeInv, EndInv, AllRead, [Next]_vars PROVE AllRead'
<1>1. SUFFICES ASSUME reader' = "done", client' = "closed"
               PROVE  delivered' = Run(1, sent')
    BY DEF AllRead
<1>2. CASE reader = "done"
  <2>1. client = "closed"
      BY <1>1, <1>2 DEF EndInv, Next, Arrive, Leave, Sniff, SniffFails, PollRead, vars
  <2>2. UNCHANGED <<delivered, sent>>
      BY <1>2, <2>1 DEF Next, Arrive, Leave, Sniff, SniffFails, PollRead, vars
  <2> QED
      BY <1>2, <2>1, <2>2 DEF AllRead
<1>3. CASE reader # "done"
  <2>1. CASE SniffFails
    <3>1. /\ client = "closed" /\ sent = 0 /\ taken = 0 /\ prefix = <<>>
          /\ UNCHANGED <<delivered, sent>>
        BY <1>1, <2>1 DEF SniffFails, StreamInv, TypeOK
    <3> QED
        BY <1>3, <3>1 DEF WholeInv
  <2>2. CASE \E n \in Buffers : PollRead(n)
    <3>1. PICK n \in Buffers : PollRead(n)
        BY <2>2
    <3>2. ReadEnd(n) /\ Front(n) = <<>> /\ n > 0 /\ UNCHANGED sent
      <4>1. client = "closed" /\ UNCHANGED sent
          BY <1>1, <3>1 DEF PollRead
      <4>2. ReadEnd(n)
          BY <1>1, <1>3, <3>1, <4>1
          DEF PollRead, ReadReady, ReadNothing, ReadPending, ReadError
      <4>3. Front(n) = <<>> /\ Room(n) > 0
          BY <1>1, <1>3, <4>2 DEF ReadEnd
      <4>4. n \in Nat
          BY StreamAssumption
      <4> QED
          BY <4>1, <4>2, <4>3, <4>4 DEF Room
    <3>3. prefix = <<>> /\ taken = sent
        BY <3>2 DEF Front, ReadEnd
    <3>4. delivered' = delivered \o <<>> /\ delivered \in Seq(1 .. Length)
        BY <3>2 DEF ReadEnd, StreamInv, TypeOK
    <3>5. delivered' = delivered
        BY <3>4
    <3> QED
        BY <1>3, <3>2, <3>3, <3>5 DEF WholeInv
  <2>3. CASE Arrive \/ Leave \/ Sniff \/ UNCHANGED vars
      BY <1>1, <1>3, <2>3 DEF Arrive, Leave, Sniff, vars
  <2> QED
      BY <2>1, <2>2, <2>3 DEF Next
<1> QED
    BY <1>2, <1>3

(* If the first byte never comes alone, a reader that is done with a       *)
(* client that closed has read everything: the safety half of              *)
(* EverythingRead.                                                         *)
THEOREM ReadToTheEnd ==
    ASSUME FirstSegment > 1 PROVE Spec => []AllRead
<1>1. Init => AllRead
    BY DEF Init, AllRead
<1>2. StreamInv /\ WholeInv /\ [Next]_vars => WholeInv'
    BY WholeStep
<1>3. StreamInv /\ WholeInv /\ EndInv /\ AllRead /\ [Next]_vars => AllRead'
    BY NextAllRead
<1> QED
    BY <1>1, <1>2, <1>3, WholeInitially, StreamInvariance, EndFound, PTL DEF Spec

=============================================================================
