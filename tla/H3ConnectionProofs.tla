------------------------- MODULE H3ConnectionProofs -------------------------
(***************************************************************************)
(* TypeOK, KeptUntilNextRequest and KeptBound hold of every HTTP/3         *)
(* connection.                                                             *)
(*                                                                         *)
(* That a step drops no answered stream depends on where streams are: what *)
(* DropChannel loses with a channel, or LoopEnds with incoming, must not   *)
(* have been answered.  H3Inv says that the requests in incoming, in the   *)
(* channels and with the handlers have the stage of the place, that none   *)
(* is in two places, and that only a handler's own request is answered.    *)
(* CountInv adds how many streams a drain leaves behind.                   *)
(* PlacedInv is the converse of H3Inv, that a stream with the stage of a   *)
(* place is there: so a task that must go on with it will, and tasks that  *)
(* rest leave no request behind.                                           *)
(***************************************************************************)
EXTENDS H3Connection, SequenceTheorems, FiniteSetTheorems, TLAPS

Stages == {"new", "opened", "queued", "handled", "finished", "pending", "dropped"}

(* A stream waits for accept once.                                         *)
IncomingOK(in, st) ==
    /\ \A i \in 1 .. Len(in) : st[in[i]] = "opened"
    /\ \A i, j \in 1 .. Len(in) : in[i] = in[j] => i = j

(* A dispatched request is in one place of one channel.                    *)
QueueOK(qs, st) ==
    /\ \A h \in Handlers : \A i \in 1 .. Len(qs[h]) : st[qs[h][i]] = "queued"
    /\ \A h, g \in Handlers :
          \A i \in 1 .. Len(qs[h]), j \in 1 .. Len(qs[g]) :
             qs[h][i] = qs[g][j] => h = g /\ i = j

(* A busy handler has a request of its own.                                *)
CurOK(hs, cs, st) ==
    /\ \A h \in Handlers :
          hs[h] = "busy" => cs[h] \in Requests /\ st[cs[h]] = "handled"
    /\ \A h, g \in Handlers :
          hs[h] = "busy" /\ hs[g] = "busy" /\ cs[h] = cs[g] => h = g

(* Nothing is answered before a handler has it.                            *)
FinOK(f, st) ==
    \A r \in Requests : st[r] \in {"new", "opened", "queued"} => f[r] = "none"

H3Inv ==
    /\ TypeOK
    /\ IncomingOK(incoming, stage)
    /\ QueueOK(queue, stage)
    /\ CurOK(handler, cur, stage)
    /\ FinOK(fin, stage)
    /\ loop = "ended" => conn = "closed"

-----------------------------------------------------------------------------
(* Sequences.                                                              *)

(* Append adds one element behind the others.                              *)
LEMMA AppendFacts ==
    ASSUME NEW S, NEW s \in Seq(S), NEW e \in S
    PROVE  /\ Append(s, e) \in Seq(S)
           /\ Len(s) \in Nat
           /\ Len(Append(s, e)) = Len(s) + 1
           /\ \A i \in 1 .. Len(s) + 1 :
                 Append(s, e)[i] = IF i <= Len(s) THEN s[i] ELSE e
BY AppendProperties, LenProperties

(* Tail drops the first element and moves the others up.                   *)
LEMMA TailFacts ==
    ASSUME NEW S, NEW s \in Seq(S), s # <<>>
    PROVE  /\ Head(s) \in S
           /\ Head(s) = s[1]
           /\ Tail(s) \in Seq(S)
           /\ Len(s) \in Nat \ {0}
           /\ Len(Tail(s)) = Len(s) - 1
           /\ \A i \in 1 .. Len(s) - 1 : Tail(s)[i] = s[i + 1]
BY HeadTailProperties, EmptySeq, LenProperties

(* Round robin stays within the pool.                                      *)
LEMMA TargetInPool == ASSUME TypeOK PROVE Target \in Handlers
<1>1. next \in Nat /\ NumHandlers \in Nat \ {0}
    BY ConnectionAssumption DEF TypeOK
<1>2. next % NumHandlers \in 0 .. NumHandlers - 1
    BY <1>1
<1> QED
    BY <1>2 DEF Target, Handlers

(* The counter wraps within its width.                                     *)
LEMMA AdvanceType ==
    ASSUME TypeOK, Advance PROVE next' \in 0 .. CounterSpan - 1
<1>1. next \in Nat /\ CounterSpan \in Nat \ {0}
    BY ConnectionAssumption DEF TypeOK
<1>2. (next + 1) % CounterSpan \in 0 .. CounterSpan - 1
    BY <1>1
<1> QED
    BY <1>2 DEF Advance

-----------------------------------------------------------------------------
(* The steps of the client and of Quinn.                                   *)

(* A new stream is not in incoming, and has no answer.                     *)
LEMMA OpenStep ==
    ASSUME H3Inv, NEW r \in Requests, Open(r) PROVE H3Inv'
<1>1. /\ incoming \in Seq(Requests) /\ Len(incoming) \in Nat
      /\ stage[r] = "new" /\ stage' = [stage EXCEPT ![r] = "opened"]
    BY LenProperties DEF H3Inv, TypeOK, Open
<1>2. /\ incoming' \in Seq(Requests)
      /\ Len(incoming') = Len(incoming) + 1
      /\ \A i \in 1 .. Len(incoming) + 1 :
            incoming'[i] = IF i <= Len(incoming) THEN incoming[i] ELSE r
    BY <1>1, AppendFacts DEF Open
<1>3. TypeOK'
    BY <1>1, <1>2 DEF H3Inv, TypeOK, Open, poolVars
<1>4. \A i \in 1 .. Len(incoming) : incoming[i] \in Requests /\ incoming[i] # r
    BY <1>1, ElementOfSeq DEF H3Inv, IncomingOK
<1>5. stage'[r] = "opened" /\ \A q \in Requests \ {r} : stage'[q] = stage[q]
    BY <1>1 DEF H3Inv, TypeOK
<1>6. IncomingOK(incoming', stage')
  <2>1. ASSUME NEW i \in 1 .. Len(incoming')
        PROVE  \/ i \in 1 .. Len(incoming) /\ incoming'[i] = incoming[i]
               \/ i = Len(incoming) + 1 /\ incoming'[i] = r
      BY <1>1, <1>2
  <2>2. ASSUME NEW i \in 1 .. Len(incoming') PROVE stage'[incoming'[i]] = "opened"
      BY <1>4, <1>5, <2>1 DEF H3Inv, IncomingOK
  <2>3. ASSUME NEW i \in 1 .. Len(incoming'), NEW j \in 1 .. Len(incoming'),
               incoming'[i] = incoming'[j]
        PROVE  i = j
      BY <1>4, <2>1, <2>3 DEF H3Inv, IncomingOK
  <2> QED
      BY <2>2, <2>3 DEF IncomingOK
<1>7. QueueOK(queue', stage')
    BY <1>1 DEF H3Inv, QueueOK, TypeOK, Open, poolVars
<1>8. CurOK(handler', cur', stage') /\ FinOK(fin', stage')
    BY <1>1 DEF H3Inv, CurOK, FinOK, TypeOK, Open, poolVars
<1> QED
    BY <1>3, <1>6, <1>7, <1>8 DEF H3Inv, Open

(* The connection's state alone changes, and never back from closed.       *)
LEMMA ClientStep ==
    ASSUME H3Inv, Goaway \/ Close PROVE H3Inv'
BY DEF H3Inv, TypeOK, Goaway, Close, loopVars, poolVars

(* Only what is answered is transmitted.                                   *)
LEMMA TransmitStep ==
    ASSUME H3Inv, NEW r \in Requests, Transmit(r) PROVE H3Inv'
<1>1. TypeOK'
    BY DEF H3Inv, TypeOK, Transmit, loopVars, poolVars
<1>2. FinOK(fin', stage')
    BY DEF H3Inv, TypeOK, FinOK, Transmit
<1> QED
    BY <1>1, <1>2 DEF H3Inv, Transmit, loopVars, poolVars

-----------------------------------------------------------------------------
(* The steps of the accept loop.                                           *)

(* Streams that leave "finished" or "pending" are in no other place.       *)
LEMMA DrainFinishedStep == ASSUME H3Inv, DrainFinished PROVE H3Inv'
<1>1. TypeOK'
    BY DEF H3Inv, TypeOK, DrainFinished, poolVars
<1>2. IncomingOK(incoming', stage')
  <2>1. \A i \in 1 .. Len(incoming) : incoming[i] \in Requests
      BY ElementOfSeq DEF H3Inv, TypeOK
  <2> QED
      BY <2>1 DEF H3Inv, IncomingOK, DrainFinished
<1>3. QueueOK(queue', stage')
  <2>1. \A h \in Handlers : \A i \in 1 .. Len(queue[h]) : queue[h][i] \in Requests
      BY ElementOfSeq DEF H3Inv, TypeOK
  <2> QED
      BY <2>1 DEF H3Inv, QueueOK, DrainFinished, poolVars
<1>4. CurOK(handler', cur', stage') /\ FinOK(fin', stage')
    BY DEF H3Inv, TypeOK, CurOK, FinOK, DrainFinished, poolVars
<1> QED
    BY <1>1, <1>2, <1>3, <1>4 DEF H3Inv, DrainFinished

(* The end of the function drops nothing that a channel or handler has.    *)
LEMMA LoopEndsKeeps ==
    ASSUME H3Inv, NEW s \in [Requests -> Stages],
           \A r \in Requests :
              s[r] = stage[r] \/ (stage[r] = "pending" /\ s[r] = "dropped"),
           LoopEnds(s), next' \in 0 .. CounterSpan - 1, UNCHANGED <<fin, poolVars>>
    PROVE  H3Inv'
<1>1. TypeOK'
    BY DEF H3Inv, TypeOK, LoopEnds, poolVars, Stages
<1>2. incoming' = <<>> /\ Len(<<>>) = 0
    BY EmptySeq DEF LoopEnds
<1>3. IncomingOK(incoming', stage')
    BY <1>2 DEF IncomingOK
<1>4. \A r \in Requests : stage[r] \in {"queued", "handled"} => stage'[r] = stage[r]
    BY DEF LoopEnds
<1>5. QueueOK(queue', stage')
  <2>1. \A h \in Handlers : \A i \in 1 .. Len(queue[h]) : queue[h][i] \in Requests
      BY ElementOfSeq DEF H3Inv, TypeOK
  <2> QED
      BY <1>4, <2>1 DEF H3Inv, QueueOK, poolVars
<1>6. CurOK(handler', cur', stage')
    BY <1>4 DEF H3Inv, CurOK, poolVars
<1>7. FinOK(fin', stage')
    BY DEF H3Inv, FinOK, LoopEnds
<1> QED
    BY <1>1, <1>3, <1>5, <1>6, <1>7 DEF H3Inv, LoopEnds

(* clear() drops pending streams and nothing else.                         *)
LEMMA ClearedType ==
    ASSUME TypeOK
    PROVE  /\ Cleared \in [Requests -> Stages]
           /\ \A r \in Requests :
                 \/ Cleared[r] = stage[r]
                 \/ stage[r] = "pending" /\ Cleared[r] = "dropped"
<1>1. stage \in [Requests -> Stages]
    BY DEF TypeOK, Stages
<1>2. "dropped" \in Stages
    BY DEF Stages
<1>3. Cleared \in [Requests -> Stages]
    BY <1>1, <1>2 DEF Cleared
<1>4. \A r \in Requests :
         Cleared[r] = IF stage[r] = "pending" THEN "dropped" ELSE stage[r]
    BY DEF Cleared
<1> QED
    BY <1>3, <1>4

(* The first stream of incoming becomes the last one of a channel.         *)
LEMMA DispatchKeeps ==
    ASSUME H3Inv, incoming # <<>>, NEW t \in Handlers,
           queue' = [queue EXCEPT ![t] = Append(@, Head(incoming))],
           stage' = [Cleared EXCEPT ![Head(incoming)] = "queued"],
           loop' = "draining",
           incoming' = Tail(incoming),
           next' \in 0 .. CounterSpan - 1,
           UNCHANGED <<conn, fin, handler, cur>>
    PROVE  H3Inv'
<1> DEFINE r == Head(incoming)
<1>1. /\ incoming \in Seq(Requests) /\ queue \in [Handlers -> Seq(Requests)]
      /\ stage \in [Requests -> Stages]
    BY DEF H3Inv, TypeOK, Stages
<1>2. /\ r \in Requests /\ r = incoming[1]
      /\ incoming' \in Seq(Requests)
      /\ Len(incoming) \in Nat \ {0}
      /\ Len(incoming') = Len(incoming) - 1
      /\ \A i \in 1 .. Len(incoming) - 1 : incoming'[i] = incoming[i + 1]
    BY <1>1, TailFacts
<1>3. stage[r] = "opened"
    BY <1>2 DEF H3Inv, IncomingOK
<1> HIDE DEF r
<1>4. /\ queue[t] \in Seq(Requests)
      /\ queue' = [queue EXCEPT ![t] = Append(queue[t], r)]
    BY <1>1 DEF r
<1>5. /\ queue'[t] = Append(queue[t], r)
      /\ \A h \in Handlers \ {t} : queue'[h] = queue[h]
      /\ queue' \in [Handlers -> Seq(Requests)]
      /\ Len(queue[t]) \in Nat
      /\ Len(queue'[t]) = Len(queue[t]) + 1
      /\ \A i \in 1 .. Len(queue[t]) + 1 :
            queue'[t][i] = IF i <= Len(queue[t]) THEN queue[t][i] ELSE r
  <2>1. /\ Append(queue[t], r) \in Seq(Requests)
        /\ Len(queue[t]) \in Nat
        /\ Len(Append(queue[t], r)) = Len(queue[t]) + 1
        /\ \A i \in 1 .. Len(queue[t]) + 1 :
              Append(queue[t], r)[i] = IF i <= Len(queue[t]) THEN queue[t][i] ELSE r
      BY <1>2, <1>4, AppendFacts
  <2> QED
      BY <1>1, <1>4, <2>1
<1>6. /\ stage' \in [Requests -> Stages]
      /\ stage'[r] = "queued"
      /\ \A q \in Requests \ {r} :
            \/ stage'[q] = stage[q]
            \/ stage[q] = "pending" /\ stage'[q] = "dropped"
    BY <1>1, <1>2 DEF Cleared, Stages, r
<1>7. TypeOK'
    BY <1>2, <1>5, <1>6 DEF H3Inv, TypeOK, Stages
<1>8. IncomingOK(incoming', stage')
  <2>1. ASSUME NEW i \in 1 .. Len(incoming')
        PROVE  /\ i + 1 \in 1 .. Len(incoming) /\ i + 1 # 1
               /\ incoming'[i] = incoming[i + 1]
      BY <1>2, <2>1
  <2>2. ASSUME NEW i \in 1 .. Len(incoming') PROVE stage'[incoming'[i]] = "opened"
    <3>1. incoming[i + 1] \in Requests /\ incoming[i + 1] # r
        BY <1>1, <1>2, <2>1, ElementOfSeq DEF H3Inv, IncomingOK
    <3>2. stage[incoming[i + 1]] = "opened"
        BY <2>1 DEF H3Inv, IncomingOK
    <3> QED
        BY <1>6, <2>1, <3>1, <3>2
  <2>3. ASSUME NEW i \in 1 .. Len(incoming'), NEW j \in 1 .. Len(incoming'),
               incoming'[i] = incoming'[j]
        PROVE  i = j
    <3>1. i + 1 = j + 1
        BY <2>1, <2>3 DEF H3Inv, IncomingOK
    <3> QED
        BY <1>2, <3>1
  <2> QED
      BY <2>2, <2>3 DEF IncomingOK
<1>9. QueueOK(queue', stage')
  <2>1. ASSUME NEW h \in Handlers, NEW i \in 1 .. Len(queue[h])
        PROVE  /\ queue[h][i] \in Requests /\ queue[h][i] # r
               /\ stage[queue[h][i]] = "queued" /\ stage'[queue[h][i]] = "queued"
    <3>1. queue[h][i] \in Requests /\ stage[queue[h][i]] = "queued"
        BY <1>1, ElementOfSeq DEF H3Inv, QueueOK
    <3> QED
        BY <1>3, <1>6, <3>1
  <2>2. ASSUME NEW h \in Handlers, NEW i \in 1 .. Len(queue'[h])
        PROVE  \/ i \in 1 .. Len(queue[h]) /\ queue'[h][i] = queue[h][i]
               \/ h = t /\ i = Len(queue[t]) + 1 /\ queue'[h][i] = r
      BY <1>5
  <2>3. ASSUME NEW h \in Handlers, NEW i \in 1 .. Len(queue'[h])
        PROVE  stage'[queue'[h][i]] = "queued"
      BY <1>6, <2>1, <2>2
  <2>4. ASSUME NEW h \in Handlers, NEW g \in Handlers,
               NEW i \in 1 .. Len(queue'[h]), NEW j \in 1 .. Len(queue'[g]),
               queue'[h][i] = queue'[g][j]
        PROVE  h = g /\ i = j
    <3>1. CASE i \in 1 .. Len(queue[h]) /\ queue'[h][i] = queue[h][i]
      <4>1. j \in 1 .. Len(queue[g]) /\ queue'[g][j] = queue[g][j]
          BY <2>1, <2>2, <2>4, <3>1
      <4> QED
          BY <2>4, <3>1, <4>1 DEF H3Inv, QueueOK
    <3>2. CASE h = t /\ i = Len(queue[t]) + 1 /\ queue'[h][i] = r
      <4>1. g = t /\ j = Len(queue[t]) + 1
          BY <2>1, <2>2, <2>4, <3>2
      <4> QED
          BY <3>2, <4>1
    <3> QED
        BY <2>2, <3>1, <3>2
  <2> QED
      BY <2>3, <2>4 DEF QueueOK
<1>10. CurOK(handler', cur', stage')
    BY <1>3, <1>6 DEF H3Inv, CurOK
<1>11. FinOK(fin', stage')
    BY <1>3, <1>6 DEF H3Inv, FinOK
<1> QED
    BY <1>7, <1>8, <1>9, <1>10, <1>11 DEF H3Inv

(* A request is dispatched, or the loop ends at a dead handler.            *)
LEMMA AcceptRequestStep == ASSUME H3Inv, AcceptRequest PROVE H3Inv'
<1>1. Target \in Handlers /\ next' \in 0 .. CounterSpan - 1
    BY TargetInPool, AdvanceType DEF H3Inv, AcceptRequest
<1>2. CASE Reachable(Target)
    BY <1>1, <1>2, DispatchKeeps DEF AcceptRequest
<1>3. CASE ~ Reachable(Target)
    BY <1>1, <1>3, ClearedType, LoopEndsKeeps DEF AcceptRequest, H3Inv, poolVars
<1> QED
    BY <1>2, <1>3

(* accept returns None or an error.                                        *)
LEMMA AcceptEndsStep == ASSUME H3Inv, AcceptNone \/ AcceptFails PROVE H3Inv'
<1>1. LoopEnds(stage) /\ UNCHANGED <<fin, next, poolVars>>
    BY DEF AcceptNone, AcceptFails
<1>2. stage \in [Requests -> Stages] /\ next' \in 0 .. CounterSpan - 1
    BY <1>1 DEF H3Inv, TypeOK, Stages
<1> QED
    BY <1>1, <1>2, LoopEndsKeeps

-----------------------------------------------------------------------------
(* The steps of a handler.                                                 *)

(* The first request of a channel goes to its handler.                     *)
LEMMA ReceiveStep ==
    ASSUME H3Inv, NEW h \in Handlers, Receive(h) PROVE H3Inv'
<1> DEFINE r == Head(queue[h])
<1>1. /\ queue \in [Handlers -> Seq(Requests)] /\ queue[h] \in Seq(Requests)
      /\ stage \in [Requests -> Stages] /\ cur \in [Handlers -> Requests \cup {None}]
    BY DEF H3Inv, TypeOK, Stages
<1>2. /\ r \in Requests /\ r = queue[h][1]
      /\ Tail(queue[h]) \in Seq(Requests)
      /\ Len(queue[h]) \in Nat \ {0}
      /\ Len(Tail(queue[h])) = Len(queue[h]) - 1
      /\ \A i \in 1 .. Len(queue[h]) - 1 : Tail(queue[h])[i] = queue[h][i + 1]
    BY <1>1, TailFacts DEF Receive
<1>3. stage[r] = "queued"
    BY <1>2 DEF H3Inv, QueueOK
<1>4. /\ handler' = [handler EXCEPT ![h] = "busy"]
      /\ cur' = [cur EXCEPT ![h] = r]
      /\ queue' = [queue EXCEPT ![h] = Tail(queue[h])]
      /\ stage' = [stage EXCEPT ![r] = "handled"]
      /\ handler[h] = "idle"
    BY <1>1 DEF Receive
<1> HIDE DEF r
<1>5. /\ stage' \in [Requests -> Stages] /\ stage'[r] = "handled"
      /\ \A q \in Requests \ {r} : stage'[q] = stage[q]
    BY <1>1, <1>2, <1>4 DEF Stages
<1>6. TypeOK'
    BY <1>1, <1>2, <1>4, <1>5 DEF H3Inv, TypeOK, Receive, loopVars, Stages
<1>7. IncomingOK(incoming', stage')
  <2>1. \A i \in 1 .. Len(incoming) : incoming[i] \in Requests
      BY ElementOfSeq DEF H3Inv, TypeOK
  <2> QED
      BY <1>3, <1>5, <2>1 DEF H3Inv, IncomingOK, Receive, loopVars
<1>8. QueueOK(queue', stage')
  <2>1. ASSUME NEW g \in Handlers, NEW i \in 1 .. Len(queue'[g])
        PROVE  \E j \in 1 .. Len(queue[g]) :
                  /\ queue'[g][i] = queue[g][j]
                  /\ j = IF g = h THEN i + 1 ELSE i
    <3>1. CASE g = h
      <4>1. queue'[g] = Tail(queue[h])
          BY <1>1, <1>4, <3>1
      <4>2. i + 1 \in 1 .. Len(queue[h]) /\ queue'[g][i] = queue[h][i + 1]
          BY <1>2, <4>1
      <4> QED
          BY <3>1, <4>2
    <3>2. CASE g # h
        BY <1>1, <1>4, <3>2
    <3> QED
        BY <3>1, <3>2
  <2>2. ASSUME NEW g \in Handlers, NEW i \in 1 .. Len(queue'[g])
        PROVE  stage'[queue'[g][i]] = "queued"
    <3>1. PICK j \in 1 .. Len(queue[g]) : /\ queue'[g][i] = queue[g][j]
                                          /\ j = IF g = h THEN i + 1 ELSE i
        BY <2>1
    <3>2. queue[g][j] \in Requests /\ stage[queue[g][j]] = "queued"
        BY <1>1, ElementOfSeq DEF H3Inv, QueueOK
    <3>3. queue[g][j] # r
        BY <1>2, <3>1 DEF H3Inv, QueueOK
    <3> QED
        BY <1>5, <3>1, <3>2, <3>3
  <2>3. ASSUME NEW g \in Handlers, NEW k \in Handlers,
               NEW i \in 1 .. Len(queue'[g]), NEW j \in 1 .. Len(queue'[k]),
               queue'[g][i] = queue'[k][j]
        PROVE  g = k /\ i = j
    <3>1. PICK a \in 1 .. Len(queue[g]) : /\ queue'[g][i] = queue[g][a]
                                          /\ a = IF g = h THEN i + 1 ELSE i
        BY <2>1
    <3>2. PICK b \in 1 .. Len(queue[k]) : /\ queue'[k][j] = queue[k][b]
                                          /\ b = IF k = h THEN j + 1 ELSE j
        BY <2>1
    <3>3. g = k /\ a = b
      <4>1. queue[g][a] = queue[k][b]
          BY <2>3, <3>1, <3>2
      <4> QED
          BY <4>1 DEF H3Inv, QueueOK
    <3>4. i \in Int /\ j \in Int
        OBVIOUS
    <3> QED
        BY <3>1, <3>2, <3>3, <3>4
  <2> QED
      BY <2>2, <2>3 DEF QueueOK
<1>9. CurOK(handler', cur', stage')
  <2>1. \A g \in Handlers \ {h} : handler'[g] = handler[g] /\ cur'[g] = cur[g]
      BY <1>4 DEF H3Inv, TypeOK
  <2>2. \A g \in Handlers \ {h} : handler[g] = "busy" =>
           cur[g] \in Requests /\ cur[g] # r /\ stage'[cur[g]] = "handled"
      BY <1>3, <1>5 DEF H3Inv, CurOK
  <2>3. cur'[h] = r
      BY <1>1, <1>4
  <2> QED
      BY <1>2, <1>5, <2>1, <2>2, <2>3 DEF H3Inv, CurOK
<1>10. FinOK(fin', stage')
    BY <1>3, <1>5 DEF H3Inv, FinOK, Receive
<1> QED
    BY <1>6, <1>7, <1>8, <1>9, <1>10 DEF H3Inv, Receive, loopVars

(* An answer is an answer to the handler's own request.                    *)
LEMMA AnswerStep ==
    ASSUME H3Inv, NEW h \in Handlers, Answer(h) PROVE H3Inv'
<1>1. cur[h] \in Requests /\ stage[cur[h]] = "handled"
    BY DEF H3Inv, CurOK, Answer
<1>2. TypeOK'
    BY <1>1 DEF H3Inv, TypeOK, Answer, loopVars, poolVars
<1>3. FinOK(fin', stage')
    BY <1>1 DEF H3Inv, TypeOK, FinOK, Answer
<1> QED
    BY <1>2, <1>3 DEF H3Inv, Answer, loopVars, poolVars

(* The handler's request leaves it, and is in no other place.              *)
LEMMA LetGoStep ==
    ASSUME H3Inv, NEW h \in Handlers,
           NEW s \in {"finished", "dropped"}, NEW then \in {"idle", "unwinding"},
           LetGo(h, s, then)
    PROVE  H3Inv'
<1>1. cur[h] \in Requests /\ stage[cur[h]] = "handled" /\ handler[h] = "busy"
    BY DEF H3Inv, CurOK, LetGo
<1>2. /\ stage' = [stage EXCEPT ![cur[h]] = s]
      /\ \A q \in Requests \ {cur[h]} : stage'[q] = stage[q]
      /\ stage'[cur[h]] = s
    BY <1>1 DEF H3Inv, TypeOK, LetGo
<1>3. TypeOK'
    BY <1>1 DEF H3Inv, TypeOK, LetGo, loopVars
<1>4. IncomingOK(incoming', stage')
  <2>1. \A i \in 1 .. Len(incoming) : incoming[i] \in Requests
      BY ElementOfSeq DEF H3Inv, TypeOK
  <2> QED
      BY <1>1, <1>2, <2>1 DEF H3Inv, IncomingOK, LetGo, loopVars
<1>5. QueueOK(queue', stage')
  <2>1. \A g \in Handlers : \A i \in 1 .. Len(queue[g]) : queue[g][i] \in Requests
      BY ElementOfSeq DEF H3Inv, TypeOK
  <2> QED
      BY <1>1, <1>2, <2>1 DEF H3Inv, QueueOK, LetGo
<1>6. CurOK(handler', cur', stage')
  <2>1. /\ handler'[h] = then /\ then # "busy"
        /\ \A g \in Handlers \ {h} : handler'[g] = handler[g] /\ cur'[g] = cur[g]
      BY DEF H3Inv, TypeOK, LetGo
  <2>2. \A g \in Handlers \ {h} : handler[g] = "busy" =>
           /\ cur[g] \in Requests /\ cur[g] # cur[h]
           /\ stage'[cur[g]] = "handled"
      BY <1>1, <1>2 DEF H3Inv, CurOK
  <2> QED
      BY <2>1, <2>2 DEF H3Inv, CurOK
<1>7. FinOK(fin', stage')
    BY <1>1, <1>2 DEF H3Inv, FinOK, LetGo
<1> QED
    BY <1>3, <1>4, <1>5, <1>6, <1>7 DEF H3Inv, LetGo, loopVars

(* What is lost with a channel was in that channel only.                   *)
LEMMA DropChannelStep ==
    ASSUME H3Inv, NEW h \in Handlers, DropChannel(h) PROVE H3Inv'
<1>1. /\ queue[h] \in Seq(Requests) /\ DOMAIN queue[h] = 1 .. Len(queue[h])
      /\ \A i \in 1 .. Len(queue[h]) : queue[h][i] \in Requests
                                       /\ stage[queue[h][i]] = "queued"
    BY ElementOfSeq, LenProperties DEF H3Inv, TypeOK, QueueOK
<1>2. \A r \in Requests : \/ stage'[r] = stage[r]
                          \/ /\ stage[r] = "queued" /\ stage'[r] = "dropped"
                             /\ \E i \in 1 .. Len(queue[h]) : queue[h][i] = r
    BY <1>1 DEF DropChannel
<1>3. TypeOK'
    BY DEF H3Inv, TypeOK, DropChannel, loopVars
<1>4. IncomingOK(incoming', stage')
  <2>1. \A i \in 1 .. Len(incoming) : incoming[i] \in Requests
      BY ElementOfSeq DEF H3Inv, TypeOK
  <2> QED
      BY <1>2, <2>1 DEF H3Inv, IncomingOK, DropChannel, loopVars
<1>5. QueueOK(queue', stage')
  <2>1. /\ queue'[h] = <<>> /\ Len(<<>>) = 0
        /\ \A g \in Handlers \ {h} : queue'[g] = queue[g]
      BY EmptySeq DEF H3Inv, TypeOK, DropChannel
  <2>2. ASSUME NEW g \in Handlers \ {h}, NEW i \in 1 .. Len(queue[g])
        PROVE  stage'[queue[g][i]] = "queued"
    <3>1. queue[g][i] \in Requests /\ stage[queue[g][i]] = "queued"
        BY ElementOfSeq DEF H3Inv, TypeOK, QueueOK
    <3>2. ~ \E j \in 1 .. Len(queue[h]) : queue[h][j] = queue[g][i]
        BY DEF H3Inv, QueueOK
    <3> QED
        BY <1>2, <3>1, <3>2
  <2>3. ASSUME NEW g \in Handlers, NEW i \in 1 .. Len(queue'[g])
        PROVE  g # h /\ i \in 1 .. Len(queue[g]) /\ queue'[g][i] = queue[g][i]
      BY <2>1
  <2> QED
      BY <2>2, <2>3 DEF H3Inv, QueueOK
<1>6. CurOK(handler', cur', stage')
  <2>1. \A g \in Handlers : handler'[g] = "busy" => handler[g] = "busy"
      BY DEF H3Inv, TypeOK, DropChannel
  <2>2. cur' = cur
      BY DEF DropChannel
  <2>3. \A g \in Handlers : handler[g] = "busy" =>
           cur[g] \in Requests /\ stage'[cur[g]] = "handled"
      BY <1>2 DEF H3Inv, CurOK
  <2> QED
      BY <2>1, <2>2, <2>3 DEF H3Inv, CurOK
<1>7. FinOK(fin', stage')
    BY <1>2 DEF H3Inv, FinOK, DropChannel
<1> QED
    BY <1>3, <1>4, <1>5, <1>6, <1>7 DEF H3Inv, DropChannel, loopVars

(* A handler that ends has nothing.                                        *)
LEMMA ExitStep ==
    ASSUME H3Inv, NEW h \in Handlers, Exit(h) PROVE H3Inv'
<1>1. TypeOK'
    BY DEF H3Inv, TypeOK, Exit, loopVars
<1>2. CurOK(handler', cur', stage')
    BY DEF H3Inv, TypeOK, CurOK, Exit
<1> QED
    BY <1>1, <1>2 DEF H3Inv, Exit, loopVars

-----------------------------------------------------------------------------
(* The theorems.                                                           *)

(* Nothing is anywhere yet.                                                *)
LEMMA InitH3Inv == Init => H3Inv
<1> SUFFICES ASSUME Init PROVE H3Inv
    OBVIOUS
<1>1. /\ <<>> \in Seq(Requests) /\ Len(<<>>) = 0
      /\ 0 \in 0 .. CounterSpan - 1
    BY EmptySeq, ConnectionAssumption
<1>2. TypeOK
    BY <1>1 DEF Init, TypeOK
<1>3. \A h \in Handlers : Len(queue[h]) = 0
    BY <1>1 DEF Init
<1>4. IncomingOK(incoming, stage) /\ QueueOK(queue, stage)
    BY <1>1, <1>3 DEF Init, IncomingOK, QueueOK
<1>5. CurOK(handler, cur, stage) /\ FinOK(fin, stage)
    BY DEF Init, CurOK, FinOK
<1> QED
    BY <1>2, <1>4, <1>5 DEF Init, H3Inv

(* Every step of a handler keeps the invariant.                            *)
LEMMA HandlerKeeps ==
    ASSUME H3Inv, NEW h \in Handlers, HandlerStep(h) PROVE H3Inv'
<1>1. CASE Receive(h)
    BY <1>1, ReceiveStep
<1>2. CASE Answer(h)
    BY <1>2, AnswerStep
<1>3. CASE Fail(h)
    BY <1>3, LetGoStep DEF Fail
<1>4. CASE HandBack(h)
    BY <1>4, LetGoStep DEF HandBack
<1>5. CASE PanicUnwinds(h)
    BY <1>5, LetGoStep DEF PanicUnwinds
<1>6. CASE DropChannel(h)
    BY <1>6, DropChannelStep
<1>7. CASE Exit(h)
    BY <1>7, ExitStep
<1> QED
    BY <1>1, <1>2, <1>3, <1>4, <1>5, <1>6, <1>7 DEF HandlerStep

(* Every step of the connection keeps the invariant.                       *)
LEMMA NextKeeps == H3Inv /\ [Next]_vars => H3Inv'
<1> SUFFICES ASSUME H3Inv, [Next]_vars PROVE H3Inv'
    OBVIOUS
<1>1. CASE \E r \in Requests : Open(r) \/ Transmit(r)
    BY <1>1, OpenStep, TransmitStep
<1>2. CASE Goaway \/ Close
    BY <1>2, ClientStep
<1>3. CASE LoopStep
    BY <1>3, DrainFinishedStep, AcceptRequestStep, AcceptEndsStep DEF LoopStep
<1>4. CASE \E h \in Handlers : HandlerStep(h)
    BY <1>4, HandlerKeeps
<1>5. CASE UNCHANGED vars
  <2>1. UNCHANGED <<conn, stage, fin, incoming, loop, next, queue, handler, cur>>
      BY <1>5 DEF vars
  <2> QED
      BY <2>1 DEF H3Inv, TypeOK, IncomingOK, QueueOK, CurOK, FinOK
<1> QED
    BY <1>1, <1>2, <1>3, <1>4, <1>5 DEF Next

(* H3Inv holds in every reachable state.                                   *)
THEOREM H3Invariance == Spec => []H3Inv
    BY InitH3Inv, NextKeeps, PTL DEF Spec

(* Every variable keeps its type.                                          *)
THEOREM H3Types == Spec => []TypeOK
<1>1. H3Inv => TypeOK
    BY DEF H3Inv
<1> QED
    BY H3Invariance, <1>1, PTL

(* A loop step drops an answered stream with the connection, or after the  *)
(* next request has been dispatched.                                       *)
LEMMA LoopDropsInTime ==
    ASSUME H3Inv, LoopStep, NEW r \in Requests PROVE DroppedInTime(r)
<1>1. CASE DrainFinished
    BY <1>1 DEF DrainFinished, DroppedInTime
<1>2. CASE AcceptRequest /\ Reachable(Target)
  <2> DEFINE q == Head(incoming)
  <2>1. incoming \in Seq(Requests) /\ stage \in [Requests -> Stages]
      BY DEF H3Inv, TypeOK, Stages
  <2>2. /\ incoming # <<>>
        /\ stage' = [Cleared EXCEPT ![q] = "queued"]
      BY <1>2 DEF AcceptRequest
  <2>3. q \in Requests /\ q = incoming[1] /\ Len(incoming) \in Nat \ {0}
      BY <2>1, <2>2, TailFacts
  <2>4. stage[q] = "opened"
      BY <2>3 DEF H3Inv, IncomingOK
  <2> HIDE DEF q
  <2>5. /\ stage'[q] = "queued"
        /\ r # q => stage'[r] = Cleared[r]
        /\ Cleared[r] = stage[r] \/ stage[r] = "pending"
      BY <2>2, <2>3 DEF Cleared
  <2> QED
      BY <2>3, <2>4, <2>5 DEF DroppedInTime
<1>3. CASE AcceptRequest /\ ~ Reachable(Target)
    BY <1>3 DEF AcceptRequest, LoopEnds, DroppedInTime
<1>4. CASE AcceptNone \/ AcceptFails
    BY <1>4 DEF AcceptNone, AcceptFails, LoopEnds, DroppedInTime
<1> QED
    BY <1>1, <1>2, <1>3, <1>4 DEF LoopStep

(* A handler drops an answered stream only by a panic, or after the loop.  *)
LEMMA HandlerDropsInTime ==
    ASSUME H3Inv, NEW h \in Handlers, HandlerStep(h), NEW r \in Requests
    PROVE  DroppedInTime(r)
<1>0. /\ stage \in [Requests -> Stages]
      /\ handler[h] = "busy" => cur[h] \in Requests
    BY DEF H3Inv, TypeOK, CurOK, Stages
<1>1. CASE Receive(h)
    BY <1>0, <1>1 DEF Receive, DroppedInTime
<1>2. CASE Answer(h) \/ Exit(h)
    BY <1>2 DEF Answer, Exit, DroppedInTime
<1>3. CASE Fail(h)
    BY <1>0, <1>3 DEF Fail, LetGo, DroppedInTime
<1>4. CASE HandBack(h)
    BY <1>0, <1>4 DEF HandBack, LetGo, DroppedInTime, H3Inv
<1>5. CASE PanicUnwinds(h)
  <2>1. handler'[h] = "unwinding"
      BY <1>5 DEF PanicUnwinds, LetGo, H3Inv, TypeOK
  <2> QED
      BY <1>0, <1>5, <2>1 DEF PanicUnwinds, LetGo, DroppedInTime
<1>6. CASE DropChannel(h)
  <2>1. \A i \in DOMAIN queue[h] : stage[queue[h][i]] = "queued"
      BY LenProperties DEF H3Inv, TypeOK, QueueOK
  <2>2. stage'[r] # stage[r] => stage[r] = "queued"
      BY <1>6, <2>1 DEF DropChannel
  <2> QED
      BY <2>2 DEF H3Inv, FinOK, DroppedInTime
<1> QED
    BY <1>1, <1>2, <1>3, <1>4, <1>5, <1>6 DEF HandlerStep

(* Answered streams are kept until a further request arrives, for every    *)
(* pool, stream limit and client.                                          *)
THEOREM StreamsKept == Spec => KeptUntilNextRequest
<1>1. H3Inv /\ [Next]_vars => [\A r \in Requests : DroppedInTime(r)]_vars
  <2> SUFFICES ASSUME H3Inv, Next, NEW r \in Requests PROVE DroppedInTime(r)
      OBVIOUS
  <2>1. stage \in [Requests -> Stages]
      BY DEF H3Inv, TypeOK, Stages
  <2>2. CASE \E q \in Requests : Open(q) \/ Transmit(q)
      BY <2>1, <2>2 DEF Open, Transmit, DroppedInTime
  <2>3. CASE Goaway \/ Close
      BY <2>3 DEF Goaway, Close, DroppedInTime
  <2>4. CASE LoopStep
      BY <2>4, LoopDropsInTime
  <2>5. CASE \E h \in Handlers : HandlerStep(h)
      BY <2>5, HandlerDropsInTime
  <2> QED
      BY <2>2, <2>3, <2>4, <2>5 DEF Next
<1> QED
    BY H3Invariance, <1>1, PTL DEF Spec, KeptUntilNextRequest

-----------------------------------------------------------------------------
(* How many streams are held.                                              *)

(* Streams that have been accepted and not come back to pending_streams.   *)
InService == {r \in Requests : stage[r] \in {"queued", "handled", "finished"}}

(* Streams that have been accepted and not dropped.                        *)
Kept == {r \in Requests : stage[r] \in {"queued", "handled", "finished", "pending"}}

(* A request that is handled is some busy handler's.                       *)
HandledOK ==
    \A r \in Requests : stage[r] = "handled" =>
        \E h \in Handlers : handler[h] = "busy" /\ cur[h] = r

(* A drain leaves in service what the client waits for and one stream per  *)
(* handler; until the next drain one more is accepted.                     *)
CountOK ==
    /\ Cardinality(UnderWay) <= Burst
    /\ loop = "accepting" => Cardinality(InService) <= Burst + NumHandlers
    /\ Cardinality(Kept) <= Burst + NumHandlers + 1

CountInv == H3Inv /\ HandledOK /\ CountOK

(* The sets counted are finite.                                            *)
LEMMA CountsFinite ==
    /\ IsFiniteSet(UnderWay) /\ Cardinality(UnderWay) \in Nat
    /\ IsFiniteSet(InService) /\ Cardinality(InService) \in Nat
    /\ IsFiniteSet(Kept) /\ Cardinality(Kept) \in Nat
    /\ Burst \in Nat /\ NumHandlers \in Nat
<1>1. /\ UnderWay \in SUBSET Requests /\ InService \in SUBSET Requests
      /\ Kept \in SUBSET Requests
    BY DEF UnderWay, InService, Kept
<1>2. IsFiniteSet(Requests) /\ Burst \in Nat /\ NumHandlers \in Nat
    BY ConnectionAssumption
<1>3. IsFiniteSet(UnderWay) /\ IsFiniteSet(InService) /\ IsFiniteSet(Kept)
    BY <1>1, <1>2, FS_Subset
<1> QED
    BY <1>2, <1>3, FS_CardinalityType

(* A part of a finite set is no larger.                                    *)
LEMMA PartCount ==
    ASSUME NEW S, IsFiniteSet(S), NEW T, T \subseteq S, NEW n \in Nat,
           Cardinality(S) <= n
    PROVE  Cardinality(T) <= n
<1>1. IsFiniteSet(T) /\ Cardinality(T) <= Cardinality(S)
    BY FS_Subset
<1>2. Cardinality(T) \in Nat /\ Cardinality(S) \in Nat
    BY <1>1, FS_CardinalityType
<1> QED
    BY <1>1, <1>2

(* One more element makes a finite set larger by one at most.              *)
LEMMA AddCount ==
    ASSUME NEW S, IsFiniteSet(S), NEW x
    PROVE  /\ IsFiniteSet(S \cup {x})
           /\ Cardinality(S \cup {x}) <= Cardinality(S) + 1
<1>1. /\ IsFiniteSet(S \cup {x})
      /\ Cardinality(S \cup {x}) =
           IF x \in S THEN Cardinality(S) ELSE Cardinality(S) + 1
    BY FS_AddElement
<1>2. Cardinality(S) \in Nat
    BY FS_CardinalityType
<1> QED
    BY <1>1, <1>2

(* Streams only move on: to a handler, back to the loop, or out.           *)
MovesOn(r) ==
    \/ stage'[r] = stage[r]
    \/ stage'[r] = "dropped"
    \/ stage[r] = "queued" /\ stage'[r] = "handled"
    \/ stage[r] = "handled" /\ stage'[r] = "finished"

(* Answers are given to handled requests, and transmitted once given.      *)
AnswerMovesOn(r) ==
    \/ fin'[r] = fin[r]
    \/ fin[r] = "buffered" /\ fin'[r] = "sent"
    \/ fin[r] = "none" /\ stage[r] = "handled" /\ fin'[r] = "buffered"

(* A step that only moves streams on makes no set larger.                  *)
LEMMA MovingOnKeeps ==
    ASSUME CountOK,
           \A r \in Requests : MovesOn(r) /\ AnswerMovesOn(r),
           loop' = "accepting" => loop = "accepting"
    PROVE  CountOK'
<1>1. UnderWay' \subseteq UnderWay
  <2>1. SUFFICES ASSUME NEW r \in Requests, r \in UnderWay' PROVE r \in UnderWay
      BY DEF UnderWay
  <2>2. MovesOn(r) /\ AnswerMovesOn(r)
      OBVIOUS
  <2> QED
      BY <2>1, <2>2 DEF UnderWay, Held, MovesOn, AnswerMovesOn
<1>2. InService' \subseteq InService
    BY DEF InService, MovesOn
<1>3. Kept' \subseteq Kept
    BY DEF Kept, MovesOn
<1>4. /\ Burst \in Nat /\ Burst + NumHandlers \in Nat
      /\ Burst + NumHandlers + 1 \in Nat
    BY CountsFinite
<1>5. Cardinality(UnderWay') <= Burst
    BY <1>1, <1>4, CountsFinite, PartCount DEF CountOK
<1>6. Cardinality(Kept') <= Burst + NumHandlers + 1
    BY <1>3, <1>4, CountsFinite, PartCount DEF CountOK
<1>7. loop' = "accepting" => Cardinality(InService') <= Burst + NumHandlers
    BY <1>2, <1>4, CountsFinite, PartCount DEF CountOK
<1> QED
    BY <1>5, <1>6, <1>7 DEF CountOK

(* Only Receive makes a request handled; a busy handler stays with its     *)
(* request otherwise.                                                      *)
LEMMA HandledKeeps ==
    ASSUME HandledOK,
           \A r \in Requests : stage'[r] = "handled" => stage[r] = "handled",
           \A h \in Handlers : \A r \in Requests :
              handler[h] = "busy" /\ cur[h] = r /\ stage'[r] = "handled" =>
              handler'[h] = "busy" /\ cur'[h] = r
    PROVE  HandledOK'
BY DEF HandledOK

-----------------------------------------------------------------------------
(* The counts over each step.                                              *)

(* Open is the only step that adds to what the client waits for.           *)
LEMMA OpenCounts ==
    ASSUME CountInv, NEW r \in Requests, Open(r) PROVE HandledOK' /\ CountOK'
<1>1. /\ stage[r] = "new" /\ stage'[r] = "opened"
      /\ \A q \in Requests \ {r} : stage'[q] = stage[q]
      /\ fin' = fin /\ handler' = handler /\ cur' = cur /\ loop' = loop
    BY DEF CountInv, H3Inv, TypeOK, Open, poolVars
<1>2. HandledOK'
    BY <1>1, HandledKeeps DEF CountInv
<1>3. InService' = InService /\ Kept' = Kept
    BY <1>1 DEF InService, Kept
<1>4. UnderWay' \subseteq UnderWay \cup {r}
  <2>1. SUFFICES ASSUME NEW q \in Requests \ {r}, q \in UnderWay'
                 PROVE  q \in UnderWay
      BY DEF UnderWay
  <2> QED
      BY <1>1, <2>1 DEF UnderWay, Held
<1>5. /\ IsFiniteSet(UnderWay \cup {r})
      /\ Cardinality(UnderWay \cup {r}) <= Cardinality(UnderWay) + 1
    BY CountsFinite, AddCount
<1>6. Cardinality(UnderWay) < Burst
    BY DEF Open
<1>7. Cardinality(UnderWay \cup {r}) \in Nat
    BY <1>5, FS_CardinalityType
<1>8. Cardinality(UnderWay \cup {r}) <= Burst
    BY <1>5, <1>6, <1>7, CountsFinite
<1>9. Cardinality(UnderWay') <= Burst
    BY <1>4, <1>5, <1>8, CountsFinite, PartCount
<1> QED
    BY <1>1, <1>2, <1>3, <1>9 DEF CountInv, CountOK

(* No stream moves.                                                        *)
LEMMA ClientCounts ==
    ASSUME CountInv,
           \/ Goaway \/ Close \/ (\E r \in Requests : Transmit(r))
           \/ UNCHANGED vars
    PROVE  HandledOK' /\ CountOK'
<1>1. /\ stage' = stage /\ loop' = loop /\ handler' = handler /\ cur' = cur
      /\ \A r \in Requests : AnswerMovesOn(r)
    BY DEF CountInv, H3Inv, TypeOK, Goaway, Close, Transmit, vars, loopVars,
           poolVars, AnswerMovesOn
<1>2. \A r \in Requests : MovesOn(r)
    BY <1>1 DEF MovesOn
<1> QED
    BY <1>1, <1>2, HandledKeeps, MovingOnKeeps DEF CountInv

(* There are not more handled requests than handlers.                      *)
LEMMA HandledCount ==
    ASSUME HandledOK, NEW D \in SUBSET {r \in Requests : stage[r] = "handled"}
    PROVE  IsFiniteSet(D) /\ Cardinality(D) <= NumHandlers
<1> DEFINE Of(r) == CHOOSE h \in Handlers : handler[h] = "busy" /\ cur[h] = r
           f == [r \in D |-> Of(r)]
<1>1. \A r \in D : Of(r) \in Handlers /\ cur[Of(r)] = r
    BY DEF HandledOK
<1>2. /\ \A r \in D : f[r] \in Handlers /\ cur[f[r]] = r
      /\ f \in [D -> Handlers]
    BY <1>1
<1> HIDE DEF f
<1>3. \A r, q \in D : f[r] = f[q] => r = q
    BY <1>2
<1>4. f \in Injection(D, Handlers)
    BY <1>2, <1>3 DEF Injection, IsInjective
<1>5. NumHandlers \in Nat
    BY CountsFinite
<1>6. IsFiniteSet(Handlers) /\ Cardinality(Handlers) = NumHandlers
  <2>1. /\ IsFiniteSet(0 .. NumHandlers - 1)
        /\ Cardinality(0 .. NumHandlers - 1) =
              IF 0 > NumHandlers - 1 THEN 0 ELSE (NumHandlers - 1) - 0 + 1
      BY <1>5, FS_Interval
  <2> QED
      BY <1>5, <2>1 DEF Handlers
<1> QED
    BY <1>4, <1>6, FS_Injection

(* The drain leaves in service only what is queued or handled: the client  *)
(* waits for it, or its end is sent and a handler is about to let it go.   *)
LEMMA DrainCounts ==
    ASSUME CountInv, DrainFinished PROVE HandledOK' /\ CountOK'
<1>1. /\ fin' = fin /\ handler' = handler /\ cur' = cur
      /\ \A r \in Requests :
            stage'[r] = IF stage[r] = "finished" THEN "pending" ELSE stage[r]
    BY DEF DrainFinished, poolVars
<1>2. HandledOK'
    BY <1>1, HandledKeeps DEF CountInv
<1>3. Kept' = Kept
    BY <1>1 DEF Kept
<1>4. UnderWay' = UnderWay
    BY <1>1 DEF UnderWay, Held
<1> DEFINE D == {r \in Requests : stage[r] = "handled" /\ fin[r] = "sent"}
<1>5. InService' \subseteq UnderWay \cup D
  <2>1. SUFFICES ASSUME NEW r \in Requests, r \in InService'
                 PROVE  r \in UnderWay \cup D
      BY DEF InService
  <2>2. stage[r] \in {"queued", "handled"}
      BY <1>1, <2>1 DEF InService
  <2>3. fin[r] \in {"none", "buffered", "sent"}
      BY DEF CountInv, H3Inv, TypeOK
  <2>4. stage[r] = "queued" => fin[r] = "none"
      BY DEF CountInv, H3Inv, FinOK
  <2> QED
      BY <2>2, <2>3, <2>4 DEF UnderWay, Held
<1>6. IsFiniteSet(D) /\ Cardinality(D) <= NumHandlers
    BY HandledCount DEF CountInv
<1> HIDE DEF D
<1>7. /\ IsFiniteSet(UnderWay \cup D)
      /\ Cardinality(UnderWay \cup D) =
           Cardinality(UnderWay) + Cardinality(D) - Cardinality(UnderWay \cap D)
    BY <1>6, CountsFinite, FS_Union
<1>8. /\ Cardinality(D) \in Nat /\ Cardinality(UnderWay \cap D) \in Nat
      /\ Cardinality(UnderWay \cup D) \in Nat
    BY <1>6, <1>7, CountsFinite, FS_Intersection, FS_CardinalityType
<1>9. /\ Cardinality(UnderWay \cup D) <= Burst + NumHandlers
      /\ Burst + NumHandlers \in Nat
    BY <1>6, <1>7, <1>8, CountsFinite DEF CountInv, CountOK
<1>10. Cardinality(InService') <= Burst + NumHandlers
    BY <1>5, <1>7, <1>9, PartCount
<1> QED
    BY <1>2, <1>3, <1>4, <1>10 DEF CountInv, CountOK

(* A dispatch adds one stream to those in service and drops the pending.   *)
LEMMA DispatchCounts ==
    ASSUME CountInv, AcceptRequest, Reachable(Target)
    PROVE  HandledOK' /\ CountOK'
<1> DEFINE r == Head(incoming)
<1>1. /\ incoming \in Seq(Requests) /\ incoming # <<>>
      /\ stage' = [Cleared EXCEPT ![r] = "queued"]
      /\ loop = "accepting" /\ loop' = "draining"
      /\ fin' = fin /\ handler' = handler /\ cur' = cur
    BY DEF CountInv, H3Inv, TypeOK, AcceptRequest
<1>2. r \in Requests /\ stage[r] = "opened"
    BY <1>1, TailFacts DEF CountInv, H3Inv, IncomingOK
<1> HIDE DEF r
<1>3. /\ stage'[r] = "queued"
      /\ \A q \in Requests \ {r} :
            stage'[q] = IF stage[q] = "pending" THEN "dropped" ELSE stage[q]
    BY <1>1, <1>2 DEF Cleared
<1>4. HandledOK'
    BY <1>1, <1>3, HandledKeeps DEF CountInv
<1>5. UnderWay' \subseteq UnderWay
  <2>1. SUFFICES ASSUME NEW q \in Requests, q \in UnderWay' PROVE q \in UnderWay
      BY DEF UnderWay
  <2> QED
      BY <1>1, <1>2, <1>3, <2>1 DEF UnderWay, Held
<1>6. Cardinality(UnderWay') <= Burst
    BY <1>5, CountsFinite, PartCount DEF CountInv, CountOK
<1>7. Kept' \subseteq InService \cup {r}
  <2>1. SUFFICES ASSUME NEW q \in Requests \ {r}, q \in Kept' PROVE q \in InService
      BY DEF Kept
  <2> QED
      BY <1>3, <2>1 DEF Kept, InService
<1>8. /\ IsFiniteSet(InService \cup {r})
      /\ Cardinality(InService \cup {r}) <= Cardinality(InService) + 1
    BY CountsFinite, AddCount
<1>9. Cardinality(InService \cup {r}) \in Nat
    BY <1>8, FS_CardinalityType
<1>10. Cardinality(InService) <= Burst + NumHandlers
    BY <1>1 DEF CountInv, CountOK
<1>11. /\ Cardinality(InService \cup {r}) <= Burst + NumHandlers + 1
       /\ Burst + NumHandlers + 1 \in Nat
    BY <1>8, <1>9, <1>10, CountsFinite
<1>12. Cardinality(Kept') <= Burst + NumHandlers + 1
    BY <1>7, <1>8, <1>11, PartCount
<1> QED
    BY <1>1, <1>4, <1>6, <1>12 DEF CountOK

(* The end of the loop drops streams and nothing else.                     *)
LEMMA EndCounts ==
    ASSUME CountInv,
           \/ AcceptNone \/ AcceptFails
           \/ AcceptRequest /\ ~ Reachable(Target)
    PROVE  HandledOK' /\ CountOK'
<1>1. /\ fin' = fin /\ handler' = handler /\ cur' = cur /\ loop' = "ended"
      /\ LoopEnds(stage) \/ LoopEnds(Cleared)
    BY DEF AcceptNone, AcceptFails, AcceptRequest, LoopEnds, poolVars
<1>2. \A q \in Requests : stage'[q] = "dropped" \/ stage'[q] = stage[q]
    BY <1>1 DEF LoopEnds, Cleared
<1>3. \A q \in Requests : MovesOn(q) /\ AnswerMovesOn(q)
    BY <1>1, <1>2 DEF MovesOn, AnswerMovesOn
<1> QED
    BY <1>1, <1>2, <1>3, HandledKeeps, MovingOnKeeps DEF CountInv

(* A request that is received becomes its handler's.                       *)
LEMMA ReceiveCounts ==
    ASSUME CountInv, NEW h \in Handlers, Receive(h)
    PROVE  HandledOK' /\ CountOK'
<1> DEFINE r == Head(queue[h])
<1>1. r \in Requests /\ stage[r] = "queued"
    BY TailFacts DEF CountInv, H3Inv, TypeOK, QueueOK, Receive
<1>2. /\ handler[h] = "idle" /\ handler' = [handler EXCEPT ![h] = "busy"]
      /\ cur' = [cur EXCEPT ![h] = r] /\ stage' = [stage EXCEPT ![r] = "handled"]
      /\ fin' = fin /\ loop' = loop
    BY DEF Receive, loopVars
<1> HIDE DEF r
<1>3. /\ stage'[r] = "handled"
      /\ \A q \in Requests \ {r} : stage'[q] = stage[q]
      /\ handler'[h] = "busy" /\ cur'[h] = r
      /\ \A g \in Handlers \ {h} : handler'[g] = handler[g] /\ cur'[g] = cur[g]
    BY <1>1, <1>2 DEF CountInv, H3Inv, TypeOK
<1>4. ASSUME NEW q \in Requests \ {r}, stage'[q] = "handled"
      PROVE  \E g \in Handlers : handler'[g] = "busy" /\ cur'[g] = q
  <2>1. PICK g \in Handlers : handler[g] = "busy" /\ cur[g] = q
      BY <1>3, <1>4 DEF CountInv, HandledOK
  <2>2. g # h
      BY <1>2, <2>1
  <2> QED
      BY <1>3, <2>1, <2>2
<1>5. HandledOK'
    BY <1>3, <1>4 DEF HandledOK
<1>6. \A q \in Requests : MovesOn(q) /\ AnswerMovesOn(q)
    BY <1>1, <1>2, <1>3 DEF MovesOn, AnswerMovesOn
<1> QED
    BY <1>2, <1>5, <1>6, MovingOnKeeps DEF CountInv

(* What a handler lets go is finished or dropped.                          *)
LEMMA LetGoCounts ==
    ASSUME CountInv, NEW h \in Handlers,
           NEW s \in {"finished", "dropped"}, NEW then, LetGo(h, s, then)
    PROVE  HandledOK' /\ CountOK'
<1>1. cur[h] \in Requests /\ stage[cur[h]] = "handled"
    BY DEF CountInv, H3Inv, CurOK, LetGo
<1>2. /\ stage'[cur[h]] = s
      /\ \A q \in Requests \ {cur[h]} : stage'[q] = stage[q]
      /\ \A g \in Handlers \ {h} : handler'[g] = handler[g] /\ cur'[g] = cur[g]
      /\ fin' = fin /\ loop' = loop
    BY <1>1 DEF CountInv, H3Inv, TypeOK, LetGo, loopVars
<1>3. HandledOK'
    BY <1>1, <1>2, HandledKeeps DEF CountInv
<1>4. \A q \in Requests : MovesOn(q) /\ AnswerMovesOn(q)
    BY <1>1, <1>2 DEF MovesOn, AnswerMovesOn
<1> QED
    BY <1>2, <1>3, <1>4, MovingOnKeeps DEF CountInv

(* The other steps of a handler.                                           *)
LEMMA HandlerCounts ==
    ASSUME CountInv, NEW h \in Handlers, HandlerStep(h)
    PROVE  HandledOK' /\ CountOK'
<1>1. CASE Receive(h)
    BY <1>1, ReceiveCounts
<1>2. CASE Answer(h)
  <2>1. cur[h] \in Requests /\ stage[cur[h]] = "handled"
      BY <1>2 DEF CountInv, H3Inv, CurOK, Answer
  <2>2. /\ stage' = stage /\ handler' = handler /\ cur' = cur /\ loop' = loop
        /\ \A q \in Requests : AnswerMovesOn(q)
      BY <1>2, <2>1 DEF CountInv, H3Inv, TypeOK, Answer, loopVars, poolVars,
                       AnswerMovesOn
  <2> QED
      BY <2>2, HandledKeeps, MovingOnKeeps DEF MovesOn, CountInv
<1>3. CASE Fail(h) \/ HandBack(h) \/ PanicUnwinds(h)
    BY <1>3, LetGoCounts DEF Fail, HandBack, PanicUnwinds
<1>4. CASE DropChannel(h)
  <2>1. /\ fin' = fin /\ cur' = cur /\ loop' = loop
        /\ \A q \in Requests : stage'[q] = "dropped" \/ stage'[q] = stage[q]
        /\ \A g \in Handlers : handler[g] = "busy" => handler'[g] = "busy"
      BY <1>4 DEF CountInv, H3Inv, TypeOK, DropChannel, loopVars
  <2> QED
      BY <2>1, HandledKeeps, MovingOnKeeps DEF MovesOn, AnswerMovesOn, CountInv
<1>5. CASE Exit(h)
  <2>1. /\ stage' = stage /\ fin' = fin /\ cur' = cur /\ loop' = loop
        /\ \A g \in Handlers : handler[g] = "busy" => handler'[g] = "busy"
      BY <1>5 DEF CountInv, H3Inv, TypeOK, Exit, loopVars
  <2> QED
      BY <2>1, HandledKeeps, MovingOnKeeps DEF MovesOn, AnswerMovesOn, CountInv
<1> QED
    BY <1>1, <1>2, <1>3, <1>4, <1>5 DEF HandlerStep

(* Every step of the connection keeps the counts.                          *)
LEMMA NextCounts == CountInv /\ [Next]_vars => CountInv'
<1> SUFFICES ASSUME CountInv, [Next]_vars PROVE CountInv'
    OBVIOUS
<1>1. H3Inv'
    BY NextKeeps DEF CountInv
<1>2. CASE \E r \in Requests : Open(r)
    BY <1>1, <1>2, OpenCounts DEF CountInv
<1>3. CASE \/ Goaway \/ Close \/ (\E r \in Requests : Transmit(r))
           \/ UNCHANGED vars
    BY <1>1, <1>3, ClientCounts DEF CountInv
<1>4. CASE LoopStep
    BY <1>1, <1>4, DrainCounts, DispatchCounts, EndCounts DEF LoopStep, CountInv
<1>5. CASE \E h \in Handlers : HandlerStep(h)
    BY <1>1, <1>5, HandlerCounts DEF CountInv
<1> QED
    BY <1>2, <1>3, <1>4, <1>5 DEF Next

(* Nothing is open yet.                                                    *)
LEMMA InitCounts == Init => CountInv
<1> SUFFICES ASSUME Init PROVE CountInv
    OBVIOUS
<1>1. HandledOK /\ UnderWay = {} /\ InService = {} /\ Kept = {}
    BY DEF Init, HandledOK, UnderWay, Held, InService, Kept
<1>2. CountOK
    BY <1>1, FS_EmptySet, CountsFinite DEF CountOK
<1> QED
    BY <1>1, <1>2, InitH3Inv DEF CountInv

(* Streams the client has opened wait for an answer, so those that are     *)
(* held are under way or kept.                                             *)
LEMMA HeldCount == CountInv => KeptBound
<1> SUFFICES ASSUME CountInv PROVE KeptBound
    OBVIOUS
<1>1. Held \subseteq UnderWay \cup Kept
  <2>1. SUFFICES ASSUME NEW r \in Requests, r \in Held PROVE r \in UnderWay \cup Kept
      BY DEF Held
  <2>2. stage[r] \in Stages
      BY DEF CountInv, H3Inv, TypeOK, Stages
  <2>3. stage[r] = "opened" => fin[r] = "none"
      BY DEF CountInv, H3Inv, FinOK
  <2> QED
      BY <2>1, <2>2, <2>3 DEF Held, UnderWay, Kept, Stages
<1>2. /\ IsFiniteSet(UnderWay \cup Kept)
      /\ Cardinality(UnderWay \cup Kept) =
           Cardinality(UnderWay) + Cardinality(Kept) - Cardinality(UnderWay \cap Kept)
    BY CountsFinite, FS_Union
<1>3. /\ Cardinality(UnderWay \cap Kept) \in Nat
      /\ Cardinality(UnderWay \cup Kept) \in Nat
    BY <1>2, CountsFinite, FS_Intersection, FS_CardinalityType
<1>4. /\ Cardinality(UnderWay \cup Kept) <= 2 * Burst + NumHandlers + 1
      /\ 2 * Burst + NumHandlers + 1 \in Nat
    BY <1>2, <1>3, CountsFinite DEF CountInv, CountOK
<1> QED
    BY <1>1, <1>2, <1>4, PartCount DEF KeptBound

(* However long a connection lives, the streams it holds are bounded by    *)
(* what the client has under way and the size of the pool.                 *)
THEOREM KeptBounded == Spec => []KeptBound
<1>1. Spec => []CountInv
    BY InitCounts, NextCounts, PTL DEF Spec
<1> QED
    BY <1>1, HeldCount, PTL

(* With a limit above that, the client never runs out of streams: keeping  *)
(* finished ones does not cost it a request.                               *)
THEOREM StreamsNeverRunOut ==
    ASSUME 2 * Burst + NumHandlers + 1 < MaxStreams
    PROVE  Spec => [](Cardinality(Held) < MaxStreams)
<1>1. KeptBound => Cardinality(Held) < MaxStreams
  <2>1. Held \in SUBSET Requests
      BY DEF Held
  <2>2. Cardinality(Held) \in Nat
      BY <2>1, ConnectionAssumption, FS_Subset, FS_CardinalityType
  <2>3. MaxStreams \in Nat
      BY ConnectionAssumption
  <2> QED
      BY <2>2, <2>3, CountsFinite DEF KeptBound
<1> QED
    BY <1>1, KeptBounded, PTL

-----------------------------------------------------------------------------
(* Nothing is lost on the way: a stream that waits for accept, or for a    *)
(* handler, is where the one it waits for will find it.  H3Inv says what   *)
(* the places hold; PlacedInv says that each stream has its place.         *)

(* An opened stream is still to be accepted.                               *)
WaitingPlaced ==
    \A r \in Requests : stage[r] = "opened" =>
        \E i \in 1 .. Len(incoming) : incoming[i] = r

(* A dispatched stream is in the channel of a handler.                     *)
QueuedPlaced ==
    \A r \in Requests : stage[r] = "queued" =>
        \E h \in Handlers : \E i \in 1 .. Len(queue[h]) : queue[h][i] = r

(* The loop that ends drops the streams it keeps.                          *)
KeptByLoop ==
    \A r \in Requests : stage[r] \in {"finished", "pending"} => loop # "ended"

(* A task that has ended left nothing in its channel.                      *)
EndedEmpty ==
    /\ \A h \in Handlers : handler[h] \in {"dead", "done"} => queue[h] = <<>>
    /\ \A h \in Handlers : handler[h] = "done" => loop = "ended"
    /\ loop = "ended" => incoming = <<>>

PlacedInv == WaitingPlaced /\ QueuedPlaced /\ KeptByLoop /\ EndedEmpty

(* Streams that only leave a place that stays as it is.                    *)
LEMMA WaitingKeeps ==
    ASSUME WaitingPlaced, incoming' = incoming,
           \A r \in Requests : stage'[r] = "opened" => stage[r] = "opened"
    PROVE  WaitingPlaced'
BY DEF WaitingPlaced

LEMMA QueuedKeeps ==
    ASSUME QueuedPlaced, queue' = queue,
           \A r \in Requests : stage'[r] = "queued" => stage[r] = "queued"
    PROVE  QueuedPlaced'
BY DEF QueuedPlaced

LEMMA KeptKeeps ==
    ASSUME KeptByLoop, loop' = loop,
           \A r \in Requests : stage'[r] \in {"finished", "pending"} =>
              stage[r] \in {"finished", "pending"} \/ loop # "ended"
    PROVE  KeptByLoop'
BY DEF KeptByLoop

(* The client's stream goes behind those that wait.                        *)
LEMMA OpenPlaces ==
    ASSUME H3Inv, PlacedInv, NEW r \in Requests, Open(r) PROVE PlacedInv'
<1>1. /\ incoming \in Seq(Requests) /\ conn = "open"
      /\ incoming' = Append(incoming, r) /\ stage' = [stage EXCEPT ![r] = "opened"]
      /\ loop' = loop /\ queue' = queue /\ handler' = handler
    BY DEF H3Inv, TypeOK, Open, poolVars
<1>2. /\ Len(incoming) \in Nat /\ Len(incoming') = Len(incoming) + 1
      /\ \A i \in 1 .. Len(incoming) + 1 :
            incoming'[i] = IF i <= Len(incoming) THEN incoming[i] ELSE r
    BY <1>1, AppendFacts
<1>3. \A q \in Requests \ {r} : stage'[q] = stage[q]
    BY <1>1
<1>4. stage'[r] = "opened"
    BY <1>1 DEF H3Inv, TypeOK
<1>5. WaitingPlaced'
  <2>1. SUFFICES ASSUME NEW q \in Requests, stage'[q] = "opened"
                 PROVE  \E i \in 1 .. Len(incoming') : incoming'[i] = q
      BY DEF WaitingPlaced
  <2>2. CASE q = r
    <3>1. Len(incoming) + 1 \in 1 .. Len(incoming')
        BY <1>2
    <3>2. incoming'[Len(incoming) + 1] = r
        BY <1>2
    <3> QED
        BY <2>2, <3>1, <3>2
  <2>3. CASE q # r
    <3>1. PICK i \in 1 .. Len(incoming) : incoming[i] = q
        BY <1>3, <2>1, <2>3 DEF PlacedInv, WaitingPlaced
    <3>2. i \in 1 .. Len(incoming') /\ incoming'[i] = q
        BY <1>2, <3>1
    <3> QED
        BY <3>2
  <2> QED
      BY <2>2, <2>3
<1>6. QueuedPlaced'
    BY <1>1, <1>3, <1>4, QueuedKeeps DEF PlacedInv
<1>7. KeptByLoop'
    BY <1>1, <1>3, <1>4, KeptKeeps DEF PlacedInv
<1>8. loop # "ended"
    BY <1>1 DEF H3Inv
<1>9. EndedEmpty'
    BY <1>1, <1>8 DEF PlacedInv, EndedEmpty
<1> QED
    BY <1>5, <1>6, <1>7, <1>9 DEF PlacedInv

(* The connection's state and the answers are no places.                   *)
LEMMA NoPlaceChanges ==
    ASSUME PlacedInv, UNCHANGED <<stage, incoming, loop, queue, handler>>
    PROVE  PlacedInv'
BY DEF PlacedInv, WaitingPlaced, QueuedPlaced, KeptByLoop, EndedEmpty

(* A drain moves streams within the loop.                                  *)
LEMMA DrainPlaces == ASSUME PlacedInv, DrainFinished PROVE PlacedInv'
<1>1. /\ incoming' = incoming /\ queue' = queue /\ handler' = handler
      /\ loop = "draining" /\ loop' = "accepting"
      /\ \A r \in Requests :
            stage'[r] = IF stage[r] = "finished" THEN "pending" ELSE stage[r]
    BY DEF DrainFinished, poolVars
<1>2. WaitingPlaced' /\ QueuedPlaced'
    BY <1>1, WaitingKeeps, QueuedKeeps DEF PlacedInv
<1>3. KeptByLoop' /\ EndedEmpty'
    BY <1>1 DEF PlacedInv, KeptByLoop, EndedEmpty
<1> QED
    BY <1>2, <1>3 DEF PlacedInv

(* The end of the function drops what waits, and what the loop keeps.      *)
LEMMA EndPlaces ==
    ASSUME PlacedInv, LoopEnds(stage) \/ LoopEnds(Cleared), UNCHANGED poolVars
    PROVE  PlacedInv'
<1>1. /\ loop' = "ended" /\ incoming' = <<>>
      /\ queue' = queue /\ handler' = handler
      /\ \A r \in Requests :
            IF stage[r] \in {"opened", "finished", "pending"}
            THEN stage'[r] = "dropped" ELSE stage'[r] = stage[r]
    BY DEF LoopEnds, Cleared, poolVars
<1>2. \A r \in Requests : /\ stage'[r] \notin {"opened", "finished", "pending"}
                          /\ stage'[r] = "queued" => stage[r] = "queued"
    BY <1>1
<1>3. WaitingPlaced' /\ KeptByLoop'
    BY <1>2 DEF WaitingPlaced, KeptByLoop
<1>4. QueuedPlaced'
    BY <1>1, <1>2, QueuedKeeps DEF PlacedInv
<1>5. EndedEmpty'
    BY <1>1 DEF PlacedInv, EndedEmpty
<1> QED
    BY <1>3, <1>4, <1>5 DEF PlacedInv

(* A dispatch takes the first stream that waits to the end of a channel.   *)
LEMMA DispatchPlaces ==
    ASSUME H3Inv, PlacedInv, AcceptRequest, Reachable(Target) PROVE PlacedInv'
<1> DEFINE r == Head(incoming)
           t == Target
<1>1. /\ incoming \in Seq(Requests) /\ incoming # <<>>
      /\ queue \in [Handlers -> Seq(Requests)] /\ t \in Handlers
      /\ loop = "accepting" /\ loop' = "draining"
      /\ handler' = handler /\ handler[t] # "dead"
      /\ incoming' = Tail(incoming)
      /\ queue' = [queue EXCEPT ![t] = Append(queue[t], r)]
      /\ stage' = [Cleared EXCEPT ![r] = "queued"]
    BY TargetInPool DEF H3Inv, TypeOK, AcceptRequest, Reachable
<1>2. /\ r \in Requests /\ r = incoming[1] /\ Len(incoming) \in Nat \ {0}
      /\ Len(incoming') = Len(incoming) - 1
      /\ \A i \in 1 .. Len(incoming) - 1 : incoming'[i] = incoming[i + 1]
    BY <1>1, TailFacts
<1> HIDE DEF r, t
<1>3. /\ Len(queue[t]) \in Nat
      /\ Len(Append(queue[t], r)) = Len(queue[t]) + 1
      /\ \A i \in 1 .. Len(queue[t]) + 1 :
            Append(queue[t], r)[i] = IF i <= Len(queue[t]) THEN queue[t][i] ELSE r
    BY <1>1, <1>2, AppendFacts
<1>4. /\ queue'[t] = Append(queue[t], r)
      /\ \A h \in Handlers \ {t} : queue'[h] = queue[h]
    BY <1>1
<1>5. /\ stage'[r] = "queued"
      /\ \A q \in Requests \ {r} :
            stage'[q] = IF stage[q] = "pending" THEN "dropped" ELSE stage[q]
    BY <1>1, <1>2 DEF Cleared
<1>6. WaitingPlaced'
  <2>1. SUFFICES ASSUME NEW q \in Requests, stage'[q] = "opened"
                 PROVE  \E i \in 1 .. Len(incoming') : incoming'[i] = q
      BY DEF WaitingPlaced
  <2>2. q # r /\ stage[q] = "opened"
      BY <1>5, <2>1
  <2>3. PICK i \in 1 .. Len(incoming) : incoming[i] = q
      BY <2>2 DEF PlacedInv, WaitingPlaced
  <2>4. i # 1
      BY <1>2, <2>2, <2>3
  <2>5. i - 1 \in 1 .. Len(incoming') /\ i - 1 \in 1 .. Len(incoming) - 1
      BY <1>2, <2>4
  <2>6. incoming'[i - 1] = q
      BY <1>2, <2>3, <2>5
  <2> QED
      BY <2>5, <2>6
<1>7. QueuedPlaced'
  <2>1. SUFFICES ASSUME NEW q \in Requests, stage'[q] = "queued"
                 PROVE  \E h \in Handlers : \E i \in 1 .. Len(queue'[h]) :
                           queue'[h][i] = q
      BY DEF QueuedPlaced
  <2>2. CASE q = r
    <3>1. Len(queue[t]) + 1 \in 1 .. Len(queue'[t])
        BY <1>3, <1>4
    <3>2. queue'[t][Len(queue[t]) + 1] = q
        BY <1>3, <1>4, <2>2
    <3> QED
        BY <1>1, <3>1, <3>2
  <2>3. CASE q # r
    <3>1. PICK h \in Handlers : \E i \in 1 .. Len(queue[h]) : queue[h][i] = q
        BY <1>5, <2>1, <2>3 DEF PlacedInv, QueuedPlaced
    <3>2. PICK i \in 1 .. Len(queue[h]) : queue[h][i] = q
        BY <3>1
    <3>3. i \in 1 .. Len(queue'[h]) /\ queue'[h][i] = q
      <4>1. CASE h = t
          BY <1>3, <1>4, <3>2, <4>1
      <4>2. CASE h # t
          BY <1>4, <3>2, <4>2
      <4> QED
          BY <4>1, <4>2
    <3> QED
        BY <3>3
  <2> QED
      BY <2>2, <2>3
<1>8. KeptByLoop'
    BY <1>1 DEF KeptByLoop
<1>9. EndedEmpty'
    BY <1>1, <1>4 DEF PlacedInv, EndedEmpty
<1> QED
    BY <1>6, <1>7, <1>8, <1>9 DEF PlacedInv

(* A handler takes the first request of its channel.                       *)
LEMMA ReceivePlaces ==
    ASSUME H3Inv, PlacedInv, NEW h \in Handlers, Receive(h) PROVE PlacedInv'
<1> DEFINE r == Head(queue[h])
<1>1. /\ queue \in [Handlers -> Seq(Requests)] /\ queue[h] # <<>>
      /\ handler' = [handler EXCEPT ![h] = "busy"]
      /\ incoming' = incoming /\ loop' = loop
      /\ queue' = [queue EXCEPT ![h] = Tail(queue[h])]
      /\ stage' = [stage EXCEPT ![r] = "handled"]
    BY DEF H3Inv, TypeOK, Receive, loopVars
<1>2. /\ r \in Requests /\ r = queue[h][1] /\ Len(queue[h]) \in Nat \ {0}
      /\ Len(Tail(queue[h])) = Len(queue[h]) - 1
      /\ \A i \in 1 .. Len(queue[h]) - 1 : Tail(queue[h])[i] = queue[h][i + 1]
    BY <1>1, TailFacts
<1> HIDE DEF r
<1>3. /\ queue'[h] = Tail(queue[h])
      /\ \A g \in Handlers \ {h} : queue'[g] = queue[g]
    BY <1>1
<1>4. /\ stage'[r] = "handled"
      /\ \A q \in Requests \ {r} : stage'[q] = stage[q]
    BY <1>1, <1>2 DEF H3Inv, TypeOK
<1>5. WaitingPlaced' /\ KeptByLoop'
    BY <1>1, <1>4, WaitingKeeps, KeptKeeps DEF PlacedInv
<1>6. QueuedPlaced'
  <2>1. SUFFICES ASSUME NEW q \in Requests, stage'[q] = "queued"
                 PROVE  \E g \in Handlers : \E i \in 1 .. Len(queue'[g]) :
                           queue'[g][i] = q
      BY DEF QueuedPlaced
  <2>2. q # r /\ stage[q] = "queued"
      BY <1>4, <2>1
  <2>3. PICK g \in Handlers : \E i \in 1 .. Len(queue[g]) : queue[g][i] = q
      BY <2>2 DEF PlacedInv, QueuedPlaced
  <2>4. PICK i \in 1 .. Len(queue[g]) : queue[g][i] = q
      BY <2>3
  <2>5. CASE g # h
      BY <1>3, <2>4, <2>5
  <2>6. CASE g = h
    <3>1. i # 1
        BY <1>2, <2>2, <2>4, <2>6
    <3>2. i - 1 \in 1 .. Len(queue'[h]) /\ i - 1 \in 1 .. Len(queue[h]) - 1
        BY <1>2, <1>3, <2>6, <3>1
    <3>3. queue'[h][i - 1] = q
        BY <1>2, <1>3, <2>4, <2>6, <3>2
    <3> QED
        BY <3>2, <3>3
  <2> QED
      BY <2>5, <2>6
<1>7. \A g \in Handlers : handler'[g] \in {"dead", "done"} =>
         g # h /\ handler'[g] = handler[g]
    BY <1>1 DEF H3Inv, TypeOK
<1>8. EndedEmpty'
    BY <1>1, <1>3, <1>7 DEF PlacedInv, EndedEmpty
<1> QED
    BY <1>5, <1>6, <1>8 DEF PlacedInv

(* What a handler lets go is sent back only while the loop is there.       *)
LEMMA LetGoPlaces ==
    ASSUME H3Inv, PlacedInv, NEW h \in Handlers,
           NEW s \in {"finished", "dropped"}, NEW then \in {"idle", "unwinding"},
           LetGo(h, s, then), s = "finished" => loop # "ended"
    PROVE  PlacedInv'
<1>1. cur[h] \in Requests
    BY DEF H3Inv, CurOK, LetGo
<1>2. /\ incoming' = incoming /\ loop' = loop /\ queue' = queue
      /\ handler' = [handler EXCEPT ![h] = then]
      /\ stage'[cur[h]] = s
      /\ \A q \in Requests \ {cur[h]} : stage'[q] = stage[q]
    BY <1>1 DEF H3Inv, TypeOK, LetGo, loopVars
<1>3. WaitingPlaced' /\ QueuedPlaced'
  <2>1. \A q \in Requests : stage'[q] \in {"opened", "queued"} => stage'[q] = stage[q]
      BY <1>2
  <2> QED
      BY <1>2, <2>1, WaitingKeeps, QueuedKeeps DEF PlacedInv
<1>4. KeptByLoop'
    BY <1>2, KeptKeeps DEF PlacedInv
<1>5. \A g \in Handlers : handler'[g] \in {"dead", "done"} => handler'[g] = handler[g]
    BY <1>2 DEF H3Inv, TypeOK
<1>6. EndedEmpty'
    BY <1>2, <1>5 DEF PlacedInv, EndedEmpty
<1> QED
    BY <1>3, <1>4, <1>6 DEF PlacedInv

(* With its channel, a task loses the streams that are in it, and only     *)
(* those.                                                                  *)
LEMMA DropChannelPlaces ==
    ASSUME H3Inv, PlacedInv, NEW h \in Handlers, DropChannel(h) PROVE PlacedInv'
<1>1. /\ incoming' = incoming /\ loop' = loop
      /\ handler' = [handler EXCEPT ![h] = "dead"]
      /\ queue' = [queue EXCEPT ![h] = <<>>]
      /\ queue \in [Handlers -> Seq(Requests)]
      /\ handler \in [Handlers -> {"idle", "busy", "unwinding", "dead", "done"}]
    BY DEF H3Inv, TypeOK, DropChannel, loopVars
<1>2. /\ queue'[h] = <<>> /\ handler'[h] = "dead"
      /\ \A g \in Handlers \ {h} : queue'[g] = queue[g] /\ handler'[g] = handler[g]
    BY <1>1
<1>3. \A r \in Requests :
         stage'[r] = IF \E i \in DOMAIN queue[h] : queue[h][i] = r
                     THEN "dropped" ELSE stage[r]
    BY DEF DropChannel
<1>4. WaitingPlaced' /\ KeptByLoop'
    BY <1>1, <1>3, WaitingKeeps, KeptKeeps DEF PlacedInv
<1>5. QueuedPlaced'
  <2>1. SUFFICES ASSUME NEW q \in Requests, stage'[q] = "queued"
                 PROVE  \E g \in Handlers : \E i \in 1 .. Len(queue'[g]) :
                           queue'[g][i] = q
      BY DEF QueuedPlaced
  <2>2. stage[q] = "queued" /\ ~ \E i \in DOMAIN queue[h] : queue[h][i] = q
      BY <1>3, <2>1
  <2>3. PICK g \in Handlers : \E i \in 1 .. Len(queue[g]) : queue[g][i] = q
      BY <2>2 DEF PlacedInv, QueuedPlaced
  <2>4. DOMAIN queue[h] = 1 .. Len(queue[h])
      BY <1>1, LenProperties
  <2>5. g # h
      BY <2>2, <2>3, <2>4
  <2> QED
      BY <1>2, <2>3, <2>5
<1>6. EndedEmpty'
    BY <1>1, <1>2 DEF PlacedInv, EndedEmpty
<1> QED
    BY <1>4, <1>5, <1>6 DEF PlacedInv

(* A handler exits at the end of its channel.                              *)
LEMMA ExitPlaces ==
    ASSUME H3Inv, PlacedInv, NEW h \in Handlers, Exit(h) PROVE PlacedInv'
<1>1. /\ stage' = stage /\ incoming' = incoming /\ loop' = loop /\ queue' = queue
      /\ loop = "ended" /\ queue[h] = <<>>
      /\ handler' = [handler EXCEPT ![h] = "done"]
    BY DEF Exit, loopVars
<1>2. \A g \in Handlers \ {h} : handler'[g] = handler[g]
    BY <1>1 DEF H3Inv, TypeOK
<1>3. WaitingPlaced' /\ QueuedPlaced' /\ KeptByLoop'
    BY <1>1, WaitingKeeps, QueuedKeeps, KeptKeeps DEF PlacedInv
<1>4. EndedEmpty'
    BY <1>1, <1>2 DEF PlacedInv, EndedEmpty
<1> QED
    BY <1>3, <1>4 DEF PlacedInv

(* No step of a handler loses a stream that waits.                         *)
LEMMA HandlerPlaces ==
    ASSUME H3Inv, PlacedInv, NEW h \in Handlers, HandlerStep(h) PROVE PlacedInv'
<1>1. CASE Receive(h)
    BY <1>1, ReceivePlaces
<1>2. CASE Answer(h)
    BY <1>2, NoPlaceChanges DEF Answer, loopVars, poolVars
<1>3. CASE Fail(h) \/ PanicUnwinds(h)
    BY <1>3, LetGoPlaces DEF Fail, PanicUnwinds
<1>4. CASE HandBack(h)
  <2>1. CASE loop = "ended"
      BY <1>4, <2>1, LetGoPlaces DEF HandBack
  <2>2. CASE loop # "ended"
      BY <1>4, <2>2, LetGoPlaces DEF HandBack
  <2> QED
      BY <2>1, <2>2
<1>5. CASE DropChannel(h)
    BY <1>5, DropChannelPlaces
<1>6. CASE Exit(h)
    BY <1>6, ExitPlaces
<1> QED
    BY <1>1, <1>2, <1>3, <1>4, <1>5, <1>6 DEF HandlerStep

(* Every step of the connection leaves each stream its place.              *)
LEMMA NextPlaces ==
    ASSUME H3Inv, PlacedInv, [Next]_vars PROVE PlacedInv'
<1>1. CASE \E r \in Requests : Open(r)
    BY <1>1, OpenPlaces
<1>2. CASE \/ Goaway \/ Close \/ (\E r \in Requests : Transmit(r))
           \/ UNCHANGED vars
    BY <1>2, NoPlaceChanges DEF Goaway, Close, Transmit, vars, loopVars, poolVars
<1>3. CASE DrainFinished
    BY <1>3, DrainPlaces
<1>4. CASE AcceptRequest
  <2>1. CASE Reachable(Target)
      BY <1>4, <2>1, DispatchPlaces
  <2>2. CASE ~ Reachable(Target)
      BY <1>4, <2>2, EndPlaces DEF AcceptRequest, poolVars
  <2> QED
      BY <2>1, <2>2
<1>5. CASE AcceptNone \/ AcceptFails
    BY <1>5, EndPlaces DEF AcceptNone, AcceptFails
<1>6. CASE \E h \in Handlers : HandlerStep(h)
    BY <1>6, HandlerPlaces
<1> QED
    BY <1>1, <1>2, <1>3, <1>4, <1>5, <1>6 DEF Next, LoopStep

(* No stream is open yet.                                                  *)
LEMMA InitPlaces == Init => PlacedInv
BY DEF Init, PlacedInv, WaitingPlaced, QueuedPlaced, KeptByLoop, EndedEmpty

(* In every state of the connection each stream is in its place.           *)
LEMMA PlacedInvariance == Spec => [](CountInv /\ PlacedInv)
<1>1. Init => CountInv /\ PlacedInv
    BY InitCounts, InitPlaces
<1>2. (CountInv /\ PlacedInv) /\ [Next]_vars => (CountInv /\ PlacedInv)'
  <2>1. SUFFICES ASSUME CountInv, PlacedInv, [Next]_vars
                 PROVE  CountInv' /\ PlacedInv'
      OBVIOUS
  <2> QED
      BY <2>1, NextCounts, NextPlaces DEF CountInv
<1> QED
    BY <1>1, <1>2, PTL DEF Spec

-----------------------------------------------------------------------------
(* When the tasks rest.                                                    *)

(* handle_h3_connection has returned, or is in accept, which pends: no     *)
(* stream waits, and neither an error nor the end is there to return.      *)
LoopRests ==
    \/ loop = "ended"
    \/ /\ loop = "accepting"
       /\ incoming = <<>>
       /\ conn # "closed"
       /\ ~ (conn = "goaway" /\ Held = {})

(* A handler that waits for its client: for the request, or for room to    *)
(* send.                                                                   *)
AwaitsClient(h) ==
    handler[h] = "busy" /\ fin[cur[h]] = "none" /\ conn # "closed"

(* The task has ended, or recv pends, or it waits for its client.          *)
HandlerRests(h) ==
    \/ handler[h] \in {"dead", "done"}
    \/ handler[h] = "idle" /\ queue[h] = <<>> /\ loop # "ended"
    \/ AwaitsClient(h)

AllRest == LoopRests /\ \A h \in Handlers : HandlerRests(h)

TasksOver == loop = "ended" /\ \A h \in Handlers : handler[h] \in {"dead", "done"}

(* If no task can go on, then no stream waits to be accepted, a dispatched *)
(* one waits behind a request whose client is awaited, and a connection    *)
(* that is closed has ended.                                               *)
OnlyClientsAwaited ==
    AllRest =>
        /\ \A r \in Requests : stage[r] # "opened"
        /\ \A r \in Requests : stage[r] = "queued" =>
              \E h \in Handlers :
                 AwaitsClient(h) /\ \E i \in 1 .. Len(queue[h]) : queue[h][i] = r
        /\ conn = "closed" => TasksOver

(* When the tasks are over the server holds no stream.                     *)
NothingHeld == TasksOver => Held = {}

(* No request of a connection is stuck.                                    *)
THEOREM NothingStuck == Spec => []OnlyClientsAwaited
<1>1. H3Inv /\ PlacedInv => OnlyClientsAwaited
  <2>1. SUFFICES ASSUME H3Inv, PlacedInv, AllRest
                 PROVE  /\ \A r \in Requests : stage[r] # "opened"
                        /\ \A r \in Requests : stage[r] = "queued" =>
                              \E h \in Handlers :
                                 /\ AwaitsClient(h)
                                 /\ \E i \in 1 .. Len(queue[h]) : queue[h][i] = r
                        /\ conn = "closed" => TasksOver
      BY DEF OnlyClientsAwaited
  <2>2. incoming = <<>>
      BY <2>1 DEF PlacedInv, EndedEmpty, AllRest, LoopRests
  <2>3. \A r \in Requests : stage[r] # "opened"
      BY <2>1, <2>2, EmptySeq DEF PlacedInv, WaitingPlaced
  <2>4. ASSUME NEW r \in Requests, stage[r] = "queued"
        PROVE  \E h \in Handlers :
                  AwaitsClient(h) /\ \E i \in 1 .. Len(queue[h]) : queue[h][i] = r
    <3>1. PICK h \in Handlers : \E i \in 1 .. Len(queue[h]) : queue[h][i] = r
        BY <2>1, <2>4 DEF PlacedInv, QueuedPlaced
    <3>2. queue[h] # <<>>
        BY <3>1, EmptySeq
    <3>3. AwaitsClient(h)
        BY <2>1, <3>2 DEF AllRest, HandlerRests, PlacedInv, EndedEmpty
    <3> QED
        BY <3>1, <3>3
  <2>5. conn = "closed" => TasksOver
      BY <2>1 DEF AllRest, LoopRests, HandlerRests, AwaitsClient, TasksOver
  <2> QED
      BY <2>3, <2>4, <2>5
<1> QED
    BY <1>1, PlacedInvariance, PTL DEF CountInv

(* The end of the connection's tasks releases every stream, though none of *)
(* them looks after the streams of another.                                *)
THEOREM StreamsReleased == Spec => []NothingHeld
<1>1. CountInv /\ PlacedInv => NothingHeld
  <2>1. SUFFICES ASSUME CountInv, PlacedInv, TasksOver,
                        NEW r \in Requests, r \in Held
                 PROVE  FALSE
      BY DEF NothingHeld, Held
  <2>2. stage[r] \in {"opened", "queued", "handled", "finished", "pending"}
      BY <2>1 DEF CountInv, H3Inv, TypeOK, Held
  <2>3. stage[r] # "opened"
      BY <2>1, EmptySeq DEF PlacedInv, WaitingPlaced, EndedEmpty, TasksOver
  <2>4. stage[r] # "queued"
      BY <2>1, EmptySeq DEF PlacedInv, QueuedPlaced, EndedEmpty, TasksOver
  <2>5. stage[r] # "handled"
      BY <2>1 DEF CountInv, HandledOK, TasksOver
  <2>6. stage[r] \notin {"finished", "pending"}
      BY <2>1 DEF PlacedInv, KeptByLoop, TasksOver
  <2> QED
      BY <2>2, <2>3, <2>4, <2>5, <2>6
<1> QED
    BY <1>1, PlacedInvariance, PTL

=============================================================================
