--------------------------- MODULE ShutdownProofs ---------------------------
(***************************************************************************)
(* The request log is complete, keeps its types and implements AccessLog,  *)
(* by itself (LogSpec) and as a part of the server that shuts down.        *)
(*                                                                         *)
(* TaskComplete speaks of a running task.  LogInv adds where it is in      *)
(* which mode, what is left of a batch there, that lines stay a prefix of  *)
(* the entries when the task has ended, and that a response that has been  *)
(* logged has no TimingInfo any more.                                      *)
(***************************************************************************)
EXTENDS Shutdown, FiniteSetTheorems, SequenceTheorems, TLAPS

(* What LogComplete says of the task.                                      *)
TaskComplete == EntriesInOrder /\ CountsComplete

PrefixOK ==
    /\ Len(printed) <= Len(flushed)
    /\ printed = SubSeq(flushed, 1, Len(printed))
    /\ reported <= Len(flushed)

OnceOK ==
    \A i \in 1 .. Len(flushed) :
        ~info[flushed[i]] /\ body[flushed[i]] # "none"

TaskOK ==
    /\ task \in {"collecting", "printing"} => mode = "detailed"
    /\ task = "reporting" => mode = "summary"
    /\ mode = "disabled" => ~Logging
    /\ task = "waiting" /\ mode = "detailed" => at = Len(batch)
    /\ task = "collecting" => at = 0
    /\ task = "waiting" /\ mode = "summary" => count = 0

LogInv ==
    /\ LogTypeOK
    /\ TaskComplete
    /\ PrefixOK
    /\ OnceOK
    /\ TaskOK

(* A step of the access log, or none.                                      *)
AccessStep == [Access!AccessNext]_(Access!accessVars)

-----------------------------------------------------------------------------
(* Sequences.                                                              *)

(* What is appended to a concatenation is appended to its second part.     *)
LEMMA AppendConcat ==
    ASSUME NEW S, NEW s \in Seq(S), NEW t \in Seq(S), NEW u \in Seq(S), NEW e \in S,
           u = s \o t
    PROVE  Append(u, e) = s \o Append(t, e)
<1>1. Append(t, e) \in Seq(S) /\ Append(u, e) \in Seq(S) /\ s \o Append(t, e) \in Seq(S)
    BY ConcatProperties, AppendProperties
<1>2. Len(s) \in Nat /\ Len(t) \in Nat /\ Len(u) = Len(s) + Len(t)
    BY LenProperties, ConcatProperties
<1>3. Len(Append(u, e)) = Len(s) + Len(t) + 1 /\ Len(s \o Append(t, e)) = Len(s) + Len(t) + 1
    BY <1>1, <1>2, ConcatProperties, AppendProperties
<1>4. ASSUME NEW i \in 1 .. Len(s) + Len(t) + 1
      PROVE  Append(u, e)[i] = (s \o Append(t, e))[i]
  <2>1. (s \o Append(t, e))[i] = IF i <= Len(s) THEN s[i] ELSE Append(t, e)[i - Len(s)]
      BY <1>1, <1>2, ConcatProperties, AppendProperties
  <2>2. i <= Len(u) => u[i] = IF i <= Len(s) THEN s[i] ELSE t[i - Len(s)]
      BY <1>2, ConcatProperties
  <2>3. Append(u, e)[i] = IF i <= Len(u) THEN u[i] ELSE e
      BY <1>2, AppendProperties
  <2>4. i > Len(s) => Append(t, e)[i - Len(s)] = IF i <= Len(u) THEN t[i - Len(s)] ELSE e
      BY <1>2, AppendProperties
  <2> QED
      BY <1>2, <2>1, <2>2, <2>3, <2>4
<1> QED
    BY <1>1, <1>3, <1>4, SeqEqual

(* The same, for log entries.                                              *)
LEMMA AppendConcatEntry ==
    ASSUME NEW x, x \in Seq(Responses), NEW c \in Seq(Responses),
           NEW f \in Seq(Responses), f = x \o c, NEW e \in Responses
    PROVE  Append(f, e) = x \o Append(c, e)
BY AppendConcat

(* Append adds one element to the set of a list's elements.                *)
LEMMA AppendedSet ==
    ASSUME NEW S, NEW s \in Seq(S), NEW e \in S
    PROVE  ToSet(Append(s, e)) = ToSet(s) \cup {e}
<1>1. /\ DOMAIN s = 1 .. Len(s) /\ Len(s) \in Nat
      /\ DOMAIN Append(s, e) = 1 .. Len(s) + 1
      /\ \A i \in 1 .. Len(s) : Append(s, e)[i] = s[i]
      /\ Append(s, e)[Len(s) + 1] = e
    BY AppendProperties, LenProperties
<1>2. 1 .. Len(s) + 1 = 1 .. Len(s) \cup {Len(s) + 1}
    BY <1>1
<1> QED
    BY <1>1, <1>2 DEF ToSet

(* The head of the second part is the element after the first part.        *)
LEMMA MoveHead ==
    ASSUME NEW S, NEW s \in Seq(S), NEW t \in Seq(S), t # <<>>
    PROVE  s \o t = Append(s, Head(t)) \o Tail(t)
<1>1. /\ Head(t) \in S /\ Tail(t) \in Seq(S) /\ Head(t) = t[1]
      /\ Len(t) \in Nat \ {0} /\ Len(s) \in Nat
      /\ Len(Tail(t)) = Len(t) - 1
      /\ \A i \in 1 .. Len(t) - 1 : Tail(t)[i] = t[i + 1]
    BY HeadTailProperties, EmptySeq, LenProperties
<1>2. Append(s, Head(t)) \in Seq(S) /\ Len(Append(s, Head(t))) = Len(s) + 1
    BY <1>1, AppendProperties
<1>3. /\ s \o t \in Seq(S) /\ Len(s \o t) = Len(s) + Len(t)
      /\ Append(s, Head(t)) \o Tail(t) \in Seq(S)
      /\ Len(Append(s, Head(t)) \o Tail(t)) = Len(s) + Len(t)
    BY <1>1, <1>2, ConcatProperties
<1>4. ASSUME NEW i \in 1 .. Len(s) + Len(t)
      PROVE  (s \o t)[i] = (Append(s, Head(t)) \o Tail(t))[i]
  <2>1. (s \o t)[i] = IF i <= Len(s) THEN s[i] ELSE t[i - Len(s)]
      BY <1>1, ConcatProperties
  <2>2. (Append(s, Head(t)) \o Tail(t))[i] =
            IF i <= Len(s) + 1 THEN Append(s, Head(t))[i] ELSE Tail(t)[i - (Len(s) + 1)]
      BY <1>1, <1>2, ConcatProperties
  <2>3. CASE i <= Len(s)
      BY <1>1, <2>1, <2>2, <2>3, AppendProperties
  <2>4. CASE i = Len(s) + 1
      BY <1>1, <2>1, <2>2, <2>4, AppendProperties
  <2>5. CASE i > Len(s) + 1
    <3>1. i - (Len(s) + 1) \in 1 .. Len(t) - 1
        BY <1>1, <2>5
    <3>2. Tail(t)[i - (Len(s) + 1)] = t[i - (Len(s) + 1) + 1]
        BY <1>1, <3>1
    <3>3. i - (Len(s) + 1) + 1 = i - Len(s)
        BY <1>1
    <3> QED
        BY <1>1, <2>1, <2>2, <2>5, <3>2, <3>3
  <2> QED
      BY <1>1, <2>3, <2>4, <2>5
<1> QED
    BY <1>3, <1>4, SeqEqual

(* The first part of a concatenation is its prefix.                        *)
LEMMA PrefixOfConcat ==
    ASSUME NEW S, NEW s \in Seq(S), NEW t \in Seq(S)
    PROVE  /\ Len(s) <= Len(s \o t)
           /\ s = SubSeq(s \o t, 1, Len(s))
<1>1. /\ Len(s) \in Nat /\ Len(t) \in Nat
      /\ s \o t \in Seq(S) /\ Len(s \o t) = Len(s) + Len(t)
      /\ \A i \in 1 .. Len(s) : (s \o t)[i] = s[i]
    BY LenProperties, ConcatProperties
<1>2. \A i \in 1 .. Len(s) : (s \o t)[i] \in S
    BY <1>1, ElementOfSeq
<1>3. /\ SubSeq(s \o t, 1, Len(s)) \in Seq(S)
      /\ Len(SubSeq(s \o t, 1, Len(s))) = Len(s)
      /\ \A i \in 1 .. Len(s) : SubSeq(s \o t, 1, Len(s))[i] = (s \o t)[i]
    BY <1>1, <1>2, SubSeqProperties
<1> QED
    BY <1>1, <1>3, SeqEqual

(* What is appended is behind every prefix.                                *)
LEMMA PrefixOfAppend ==
    ASSUME NEW S, NEW s \in Seq(S), NEW e \in S, NEW n \in 0 .. Len(s)
    PROVE  SubSeq(Append(s, e), 1, n) = SubSeq(s, 1, n)
<1>1. Len(s) \in Nat /\ \A i \in 1 .. n : Append(s, e)[i] = s[i] /\ s[i] \in S
    BY LenProperties, AppendProperties, ElementOfSeq
<1>2. /\ SubSeq(s, 1, n) \in Seq(S) /\ Len(SubSeq(s, 1, n)) = n
      /\ \A i \in 1 .. n : SubSeq(s, 1, n)[i] = s[i]
    BY <1>1, SubSeqProperties
<1>3. /\ SubSeq(Append(s, e), 1, n) \in Seq(S) /\ Len(SubSeq(Append(s, e), 1, n)) = n
      /\ \A i \in 1 .. n : SubSeq(Append(s, e), 1, n)[i] = Append(s, e)[i]
    BY <1>1, SubSeqProperties
<1> QED
    BY <1>1, <1>2, <1>3, SeqEqual

(* What is behind position n of a sequence.                                *)
LEMMA RestOfSeq ==
    ASSUME NEW S, NEW s \in Seq(S), NEW n \in 0 .. Len(s)
    PROVE  /\ SubSeq(s, n + 1, Len(s)) \in Seq(S)
           /\ n = Len(s) => SubSeq(s, n + 1, Len(s)) = <<>>
           /\ n < Len(s) => /\ SubSeq(s, n + 1, Len(s)) # <<>>
                            /\ Head(SubSeq(s, n + 1, Len(s))) = s[n + 1]
                            /\ Tail(SubSeq(s, n + 1, Len(s))) = SubSeq(s, n + 2, Len(s))
<1>1. Len(s) \in Nat /\ \A i \in n + 1 .. Len(s) : s[i] \in S
    BY LenProperties, ElementOfSeq
<1>2. SubSeq(s, n + 1, Len(s)) \in Seq(S)
    BY <1>1, SubSeqProperties
<1>3. n = Len(s) => SubSeq(s, n + 1, Len(s)) = <<>>
    BY <1>1, SubSeqEmpty
<1>4. ASSUME n < Len(s)
      PROVE  /\ SubSeq(s, n + 1, Len(s)) # <<>>
             /\ Head(SubSeq(s, n + 1, Len(s))) = s[n + 1]
             /\ Tail(SubSeq(s, n + 1, Len(s))) = SubSeq(s, n + 2, Len(s))
  <2>1. n + 1 \in 1 .. Len(s) /\ Len(s) \in n + 1 .. Len(s) /\ n + 1 + 1 = n + 2
      BY <1>1, <1>4
  <2>2. Len(SubSeq(s, n + 1, Len(s))) = Len(s) - (n + 1) + 1
      BY <1>1, <2>1, SubSeqProperties
  <2>3. Len(SubSeq(s, n + 1, Len(s))) # 0
      BY <1>1, <1>4, <2>2
  <2> QED
      BY <2>1, <2>3, HeadTailOfSubSeq, EmptySeq
<1> QED
    BY <1>2, <1>3, <1>4

-----------------------------------------------------------------------------
(* One lemma per action: the invariant is kept, and the step is one of the *)
(* access log or none.                                                     *)

(* Responses move on without the log.                                      *)
LEMMA BodyStep ==
    ASSUME LogInv, NEW r \in Responses,
           Respond(r) \/ PollData(r) \/ H3Fail(r)
    PROVE  LogInv' /\ AccessStep
<1>1. /\ UNCHANGED <<mode, counter, channel, stderr, stop, flushed, taskVars>>
      /\ \E b \in {"data", "end", "failed"} : body' = [body EXCEPT ![r] = b]
      /\ \/ info' = [info EXCEPT ![r] = TRUE] /\ body[r] = "none"
         \/ UNCHANGED info
         \/ info' = [info EXCEPT ![r] = FALSE]
    BY DEF Respond, PollData, H3Fail
<1>2. LogTypeOK'
    BY <1>1 DEF LogInv, LogTypeOK, taskVars
<1>3. TaskComplete' /\ PrefixOK' /\ TaskOK' /\ AccessStep
    BY <1>1 DEF LogInv, TaskComplete, EntriesInOrder, CountsComplete, Rest, Logging,
                PrefixOK, TaskOK, AccessStep, Access!accessVars, taskVars
<1>4. OnceOK'
  <2>1. \A i \in 1 .. Len(flushed) : flushed[i] \in Responses
      BY ElementOfSeq DEF LogInv, LogTypeOK
  <2>2. \A i \in 1 .. Len(flushed) : ~info'[flushed[i]] /\ body'[flushed[i]] # "none"
      BY <1>1, <2>1 DEF LogInv, LogTypeOK, OnceOK
  <2> QED
      BY <1>1, <2>2 DEF OnceOK
<1> QED
    BY <1>2, <1>3, <1>4 DEF LogInv

(* A response is over: it is logged, if it has not been.                   *)
LEMMA FlushStep ==
    ASSUME LogInv, NEW r \in Responses,
           FlushLog(r), UNCHANGED <<mode, stderr, stop, taskVars>>,
           \E b \in {"polled", "dropped"} : body' = [body EXCEPT ![r] = b]
    PROVE  LogInv' /\ AccessStep
<1> USE DEF taskVars
<1>0. \A i \in 1 .. Len(flushed) : flushed[i] \in Responses
    BY ElementOfSeq DEF LogInv, LogTypeOK
<1>1. CASE ~info[r]
  <2>1. UNCHANGED <<info, counter, channel, flushed>>
      BY <1>1 DEF FlushLog
  <2>2. LogTypeOK'
      BY <2>1 DEF LogInv, LogTypeOK
  <2>3. TaskComplete' /\ PrefixOK' /\ TaskOK' /\ AccessStep
      BY <2>1 DEF LogInv, TaskComplete, EntriesInOrder, CountsComplete, Rest, Logging,
                  PrefixOK, TaskOK, AccessStep, Access!accessVars
  <2>4. \A i \in 1 .. Len(flushed) : ~info'[flushed[i]] /\ body'[flushed[i]] # "none"
      BY <1>0, <2>1 DEF LogInv, LogTypeOK, OnceOK
  <2> QED
      BY <2>1, <2>2, <2>3, <2>4 DEF LogInv, OnceOK
<1>2. CASE info[r]
  <2>1. /\ info' = [info EXCEPT ![r] = FALSE]
        /\ Count /\ SendEntry(r)
        /\ flushed' = Append(flushed, r)
      BY <1>2 DEF FlushLog
  <2>2. /\ flushed \in Seq(Responses) /\ channel \in Seq(Responses)
        /\ printed \in Seq(Responses) /\ Len(flushed) \in Nat /\ Len(printed) \in Nat
        /\ reported \in Nat /\ counter \in Nat /\ count \in Nat
        /\ batch \in Seq(Responses) /\ at \in 0 .. Len(batch)
      BY LenProperties DEF LogInv, LogTypeOK
  <2>3. /\ flushed' \in Seq(Responses) /\ Len(flushed') = Len(flushed) + 1
        /\ \A i \in 1 .. Len(flushed) : flushed'[i] = flushed[i]
        /\ flushed'[Len(flushed) + 1] = r
        /\ Append(channel, r) \in Seq(Responses)
      BY <2>1, <2>2, AppendProperties
  <2>4. LogTypeOK'
    <3>1. channel' \in Seq(Responses) /\ counter' \in Nat
        BY <2>1, <2>2, <2>3 DEF Count, SendEntry
    <3> QED
        BY <2>1, <2>3, <3>1 DEF LogInv, LogTypeOK
  <2>5. EntriesInOrder'
    <3> SUFFICES ASSUME mode = "detailed", Logging
                 PROVE  flushed' = printed \o Rest \o Append(channel, r)
        BY <2>1 DEF EntriesInOrder, Rest, Logging, SendEntry
    <3>1. flushed = printed \o Rest \o channel
        BY DEF LogInv, TaskComplete, EntriesInOrder
    <3>2. Rest \in Seq(Responses)
        BY <2>2, RestOfSeq DEF Rest
    <3>3. printed \o Rest \in Seq(Responses)
        BY <2>2, <3>2, ConcatProperties
    <3>4. flushed \in Seq(Responses) /\ channel \in Seq(Responses)
        BY <2>2
    <3>5. Append(flushed, r) = (printed \o Rest) \o Append(channel, r)
        BY <3>1, <3>3, <3>4, AppendConcatEntry
    <3> QED
        BY <2>1, <3>5
  <2>6. CountsComplete'
      BY <2>1, <2>2, <2>3 DEF LogInv, TaskComplete, CountsComplete, Logging, Count
  <2>7. \A n \in 0 .. Len(flushed) : SubSeq(flushed', 1, n) = SubSeq(flushed, 1, n)
      BY <2>1, <2>2, PrefixOfAppend
  <2>8. PrefixOK'
      BY <2>2, <2>3, <2>7 DEF LogInv, PrefixOK
  <2>9. OnceOK'
    <3>1. ASSUME NEW i \in 1 .. Len(flushed)
          PROVE  ~info'[flushed[i]] /\ body'[flushed[i]] # "none"
        BY <1>0, <2>1 DEF LogInv, LogTypeOK, OnceOK
    <3>2. ~info'[r] /\ body'[r] # "none"
        BY <2>1 DEF LogInv, LogTypeOK
    <3>3. \A i \in 1 .. Len(flushed) + 1 : i \in 1 .. Len(flushed) \/ i = Len(flushed) + 1
        BY <2>2
    <3>4. \A i \in 1 .. Len(flushed) + 1 : ~info'[flushed'[i]] /\ body'[flushed'[i]] # "none"
        BY <2>3, <3>1, <3>2, <3>3
    <3> QED
        BY <2>3, <3>4 DEF OnceOK
  <2>10. TaskOK'
      BY DEF LogInv, TaskOK, Logging
  <2>11. Access!Enter(r)
    <3>1. r \notin ToSet(flushed)
        BY <1>2, <2>2, LenProperties DEF LogInv, OnceOK, ToSet
    <3>2. SubSeq(flushed', 1, reported) = SubSeq(flushed, 1, reported)
        BY <2>2, <2>7 DEF LogInv, PrefixOK
    <3>3. (IF mode = "summary" THEN SubSeq(flushed, 1, reported) ELSE printed)'
            = IF mode = "summary" THEN SubSeq(flushed, 1, reported) ELSE printed
        BY <3>2
    <3>4. Logging' = Logging
        BY DEF Logging
    <3> QED
        BY <2>1, <3>1, <3>3, <3>4 DEF Access!Enter, ToSet, Access!ToSet
  <2> QED
      BY <2>4, <2>5, <2>6, <2>8, <2>9, <2>10, <2>11
      DEF LogInv, TaskComplete, AccessStep, Access!AccessNext
<1> QED
    BY <1>1, <1>2 DEF LogInv, LogTypeOK

(* The types of what the sequence lemmas are applied to.                   *)
LEMMA SeqTypes ==
    ASSUME LogInv
    PROVE  /\ flushed \in Seq(Responses) /\ printed \in Seq(Responses)
           /\ batch \in Seq(Responses) /\ channel \in Seq(Responses)
           /\ Len(flushed) \in Nat /\ Len(printed) \in Nat /\ Len(batch) \in Nat
           /\ at \in 0 .. Len(batch)
           /\ Rest \in Seq(Responses)
           /\ printed \o Rest \in Seq(Responses)
<1>1. /\ flushed \in Seq(Responses) /\ printed \in Seq(Responses)
      /\ batch \in Seq(Responses) /\ channel \in Seq(Responses)
      /\ at \in 0 .. Len(batch)
    BY DEF LogInv, LogTypeOK
<1>2. Len(flushed) \in Nat /\ Len(printed) \in Nat /\ Len(batch) \in Nat
    BY <1>1, LenProperties
<1>3. Rest \in Seq(Responses)
    BY <1>1, RestOfSeq DEF Rest
<1> QED
    BY <1>1, <1>2, <1>3, ConcatProperties

(* A tick starts on an empty batch: the last one has been printed.         *)
LEMMA TickDetailedStep ==
    ASSUME LogInv, TickDetailed PROVE LogInv' /\ AccessStep
<1>1. /\ mode = "detailed" /\ task = "waiting" /\ task' = "collecting"
      /\ at' = 0 /\ batch' = <<>>
      /\ UNCHANGED <<mode, body, info, counter, channel, flushed, count, stderr,
                     stop, printed, reported>>
    BY DEF TickDetailed, ClearBatch, bodyVars
<1>2. <<>> \in Seq(Responses) /\ Len(<<>>) = 0
    BY EmptySeq
<1>3. LogTypeOK' /\ PrefixOK' /\ OnceOK' /\ TaskOK'
    BY <1>1, <1>2 DEF LogInv, LogTypeOK, PrefixOK, OnceOK, TaskOK, Logging
<1>4. Rest = <<>> /\ Rest' = <<>>
  <2>1. at = Len(batch)
      BY <1>1 DEF LogInv, TaskOK
  <2>2. SubSeq(batch, at + 1, Len(batch)) = <<>>
      BY <2>1, SeqTypes, RestOfSeq
  <2>3. SubSeq(<<>>, 0 + 1, 0) = <<>>
      BY SubSeqEmpty
  <2> QED
      BY <1>1, <1>2, <2>2, <2>3 DEF Rest
<1>5. TaskComplete'
    BY <1>1, <1>4 DEF LogInv, TaskComplete, EntriesInOrder, CountsComplete, Logging
<1>6. AccessStep
    BY <1>1 DEF AccessStep, Access!accessVars, Logging
<1> QED
    BY <1>3, <1>5, <1>6 DEF LogInv

(* An entry moves from the channel to the end of the batch.                *)
LEMMA CollectStep ==
    ASSUME LogInv, Collect PROVE LogInv' /\ AccessStep
<1>1. /\ task = "collecting" /\ channel # <<>>
      /\ batch' = Append(batch, Head(channel)) /\ channel' = Tail(channel)
      /\ UNCHANGED <<mode, body, info, counter, task, at, count, stderr, stop,
                     flushed, printed, reported>>
    BY DEF Collect
<1>2. mode = "detailed" /\ at = 0 /\ Logging
    BY <1>1 DEF LogInv, TaskOK, Logging
<1>3. /\ Head(channel) \in Responses /\ channel' \in Seq(Responses)
      /\ batch' \in Seq(Responses) /\ Len(batch') = Len(batch) + 1
    BY <1>1, SeqTypes, HeadTailProperties, AppendProperties
<1>4. LogTypeOK' /\ PrefixOK' /\ OnceOK' /\ TaskOK'
    BY <1>1, <1>2, <1>3, SeqTypes
    DEF LogInv, LogTypeOK, PrefixOK, OnceOK, TaskOK, Logging
<1>5. Rest = batch /\ Rest' = Append(batch, Head(channel))
  <2>1. SubSeq(batch, 1, Len(batch)) = batch /\ SubSeq(batch', 1, Len(batch')) = batch'
      BY <1>3, SeqTypes, SubSeqFull
  <2> QED
      BY <1>1, <1>2, <2>1 DEF Rest
<1>6. EntriesInOrder'
  <2>1. flushed = printed \o batch \o channel
      BY <1>2, <1>5 DEF LogInv, TaskComplete, EntriesInOrder
  <2>2. printed \o batch \in Seq(Responses)
      BY <1>5, SeqTypes
  <2>3. \A s \in Seq(Responses), t \in Seq(Responses) :
           t # <<>> => s \o t = Append(s, Head(t)) \o Tail(t)
      BY MoveHead
  <2>4. (printed \o batch) \o channel = Append(printed \o batch, Head(channel)) \o Tail(channel)
      BY <1>1, <2>2, <2>3, SeqTypes
  <2>5. ASSUME NEW u, NEW e \in Responses, u = printed \o batch
        PROVE  Append(u, e) = printed \o Append(batch, e)
    <3>1. printed \in Seq(Responses) /\ batch \in Seq(Responses) /\ u \in Seq(Responses)
        BY <2>2, <2>5, SeqTypes
    <3> QED
        BY <2>5, <3>1, AppendConcat
  <2>6. Append(printed \o batch, Head(channel)) = printed \o Append(batch, Head(channel))
      BY <1>3, <2>5
  <2>7. flushed' = (printed' \o Rest') \o channel'
      BY <1>1, <1>5, <2>1, <2>4, <2>6
  <2> QED
      BY <2>7 DEF EntriesInOrder
<1>7. CountsComplete' /\ AccessStep
    BY <1>1, <1>2 DEF CountsComplete, AccessStep, Access!accessVars, Logging
<1> QED
    BY <1>4, <1>6, <1>7 DEF LogInv, TaskComplete

(* The line printed is the next entry.                                     *)
LEMMA PrintEntryStep ==
    ASSUME LogInv, PrintEntry PROVE LogInv' /\ AccessStep
<1>1. /\ task = "printing" /\ at < Len(batch)
      /\ printed' = Append(printed, batch[at + 1]) /\ at' = at + 1
      /\ UNCHANGED <<mode, body, info, counter, channel, flushed, task, batch, count,
                     stderr, stop, reported>>
    BY DEF PrintEntry, bodyVars
<1>2. mode = "detailed" /\ Logging
    BY <1>1 DEF LogInv, TaskOK, Logging
<1>3. /\ Rest # <<>> /\ Head(Rest) = batch[at + 1] /\ Tail(Rest) = Rest'
      /\ batch[at + 1] \in Responses
  <2>1. at' + 1 = at + 2 /\ at + 1 \in 1 .. Len(batch)
      BY <1>1, SeqTypes
  <2>2. /\ SubSeq(batch, at + 1, Len(batch)) # <<>>
        /\ Head(SubSeq(batch, at + 1, Len(batch))) = batch[at + 1]
        /\ Tail(SubSeq(batch, at + 1, Len(batch))) = SubSeq(batch, at + 2, Len(batch))
      BY <1>1, SeqTypes, RestOfSeq
  <2> QED
      BY <1>1, <2>1, <2>2, SeqTypes, ElementOfSeq DEF Rest
<1>4. /\ printed' \in Seq(Responses) /\ Len(printed') = Len(printed) + 1
      /\ Rest' \in Seq(Responses)
    BY <1>1, <1>3, SeqTypes, AppendProperties, HeadTailProperties
<1>5. flushed = (printed' \o Rest') \o channel
  <2>1. flushed = (printed \o Rest) \o channel
      BY <1>2 DEF LogInv, TaskComplete, EntriesInOrder
  <2>2. printed \o Rest = printed' \o Rest'
      BY <1>1, <1>3, SeqTypes, MoveHead
  <2> QED
      BY <2>1, <2>2
<1>6. TaskComplete'
    BY <1>1, <1>2, <1>5
    DEF LogInv, TaskComplete, EntriesInOrder, CountsComplete
<1>7. Len(printed') <= Len(flushed) /\ printed' = SubSeq(flushed, 1, Len(printed'))
  <2>0. \A s \in Seq(Responses), t \in Seq(Responses), u \in Seq(Responses) :
           (s \o t) \o u = s \o (t \o u)
      BY ConcatAssociative
  <2>1. (printed' \o Rest') \o channel = printed' \o (Rest' \o channel)
    <3>1. channel \in Seq(Responses)
        BY SeqTypes
    <3> QED
        BY <1>4, <2>0, <3>1
  <2>2. Rest' \o channel \in Seq(Responses)
      BY <1>4, SeqTypes, ConcatProperties
  <2> QED
      BY <1>4, <1>5, <2>1, <2>2, PrefixOfConcat
<1>8. LogTypeOK' /\ PrefixOK' /\ OnceOK' /\ TaskOK'
    BY <1>1, <1>2, <1>4, <1>7, SeqTypes
    DEF LogInv, LogTypeOK, PrefixOK, OnceOK, TaskOK, Logging
<1>9. Access!Show
  <2>1. Len(printed') \in Len(printed) + 1 .. Len(flushed)
      BY <1>4, <1>7, SeqTypes
  <2> QED
      BY <1>1, <1>2, <1>7, <2>1 DEF Access!Show, Logging
<1> QED
    BY <1>6, <1>8, <1>9 DEF LogInv, AccessStep, Access!AccessNext

(* The loops over the channel and over the batch end.                      *)
LEMMA LoopEndStep ==
    ASSUME LogInv, CollectEnd \/ PrintEnd PROVE LogInv' /\ AccessStep
<1>1. /\ \/ task = "collecting" /\ task' = "printing"
         \/ task = "printing" /\ task' = "waiting" /\ at = Len(batch)
      /\ UNCHANGED <<mode, body, info, counter, channel, flushed, batch, at, count,
                     stderr, stop, printed, reported>>
    BY DEF CollectEnd, PrintEnd, bodyVars
<1>2. mode = "detailed"
    BY <1>1 DEF LogInv, TaskOK
<1>3. LogTypeOK' /\ PrefixOK' /\ OnceOK' /\ TaskOK'
    BY <1>1, <1>2 DEF LogInv, LogTypeOK, PrefixOK, OnceOK, TaskOK, Logging
<1>4. TaskComplete' /\ AccessStep
    BY <1>1, <1>2 DEF LogInv, TaskComplete, EntriesInOrder, CountsComplete, Rest,
                      Logging, AccessStep, Access!accessVars
<1> QED
    BY <1>3, <1>4 DEF LogInv

(* swap takes the counter as it resets it.                                 *)
LEMMA TickSummaryStep ==
    ASSUME LogInv, TickSummary PROVE LogInv' /\ AccessStep
<1>1. /\ mode = "summary" /\ task = "waiting" /\ task' = "reporting"
      /\ count' = counter /\ counter' = 0
      /\ UNCHANGED <<mode, body, info, channel, flushed, batch, at, stderr, stop,
                     printed, reported>>
    BY DEF TickSummary
<1>2. count = 0 /\ counter \in Nat /\ reported \in Nat
    BY <1>1 DEF LogInv, TaskOK, LogTypeOK
<1>3. LogTypeOK' /\ PrefixOK' /\ OnceOK' /\ TaskOK'
    BY <1>1, <1>2 DEF LogInv, LogTypeOK, PrefixOK, OnceOK, TaskOK, Logging
<1>4. TaskComplete' /\ AccessStep
    BY <1>1, <1>2 DEF LogInv, TaskComplete, EntriesInOrder, CountsComplete,
                      Logging, AccessStep, Access!accessVars
<1> QED
    BY <1>3, <1>4 DEF LogInv

(* A count of n stands for the next n entries.                             *)
LEMMA ReportCountStep ==
    ASSUME LogInv, ReportCount PROVE LogInv' /\ AccessStep
<1>1. /\ task = "reporting" /\ task' = "waiting"
      /\ reported' = reported + count /\ count' = 0
      /\ UNCHANGED <<mode, body, info, counter, channel, flushed, batch, at,
                     stderr, stop, printed>>
    BY DEF ReportCount, bodyVars
<1>2. /\ mode = "summary" /\ Logging
      /\ count \in Nat /\ counter \in Nat /\ reported \in Nat
      /\ Len(flushed) = reported + count + counter
    BY <1>1 DEF LogInv, TaskOK, LogTypeOK, TaskComplete, CountsComplete, Logging
<1>3. LogTypeOK' /\ PrefixOK' /\ OnceOK' /\ TaskOK'
    BY <1>1, <1>2 DEF LogInv, LogTypeOK, PrefixOK, OnceOK, TaskOK, Logging
<1>4. TaskComplete'
    BY <1>1, <1>2 DEF TaskComplete, EntriesInOrder, CountsComplete
<1>5. AccessStep
  <2>1. CASE count = 0
      BY <1>1, <1>2, <2>1 DEF AccessStep, Access!accessVars, Logging
  <2>2. CASE count # 0
    <3>1. \A i \in 1 .. reported : flushed[i] \in Responses
        BY <1>2, SeqTypes, ElementOfSeq
    <3>2. Len(SubSeq(flushed, 1, reported)) = reported
        BY <1>2, <3>1, SubSeqProperties
    <3>3. reported' \in Len(SubSeq(flushed, 1, reported)) + 1 .. Len(flushed)
        BY <1>1, <1>2, <2>2, <3>2
    <3> QED
        BY <1>1, <1>2, <3>3 DEF AccessStep, Access!AccessNext, Access!Show, Logging
  <2> QED
      BY <2>1, <2>2
<1> QED
    BY <1>3, <1>4, <1>5 DEF LogInv

(* The task ends, by the signal or by a panic.                             *)
LEMMA TaskEndStep ==
    ASSUME LogInv, PrintFails \/ StopTask PROVE LogInv' /\ AccessStep
<1>1. /\ Logging /\ task' \in {"ended", "aborted"}
      /\ channel' = <<>> \/ channel' = channel
      /\ UNCHANGED <<mode, body, info, counter, flushed, batch, at, count,
                     stderr, stop, printed, reported>>
    BY DEF PrintFails, StopTask, Logging
<1>2. ~Logging'
    BY <1>1 DEF Logging
<1>3. channel' \in Seq(Responses)
    BY <1>1, SeqTypes, EmptySeq
<1>4. LogTypeOK' /\ PrefixOK' /\ OnceOK' /\ TaskOK'
    BY <1>1, <1>2, <1>3 DEF LogInv, LogTypeOK, PrefixOK, OnceOK, TaskOK
<1>5. TaskComplete'
    BY <1>2 DEF TaskComplete, EntriesInOrder, CountsComplete
<1>6. AccessStep
    BY <1>1, <1>2 DEF AccessStep, Access!AccessNext, Access!Close
<1> QED
    BY <1>4, <1>5, <1>6 DEF LogInv

(* Signal, reader and rest are none of the log's.                          *)
LEMMA OtherStep ==
    ASSUME LogInv, StderrChanges \/ StderrResumes \/ SendStop \/ UNCHANGED logVars
    PROVE  LogInv' /\ AccessStep
<1>1. /\ stderr' \in {"open", "stalled", "closed"} /\ stop' \in BOOLEAN
      /\ UNCHANGED <<mode, body, info, counter, channel, flushed, task, batch, at,
                     count, printed, reported>>
    BY DEF LogInv, LogTypeOK, StderrChanges, StderrResumes, SendStop, logVars, bodyVars,
           taskVars
<1>2. LogTypeOK' /\ PrefixOK' /\ OnceOK' /\ TaskOK'
    BY <1>1 DEF LogInv, LogTypeOK, PrefixOK, OnceOK, TaskOK, Logging
<1>3. TaskComplete' /\ AccessStep
    BY <1>1 DEF LogInv, TaskComplete, EntriesInOrder, CountsComplete, Rest, Logging,
                AccessStep, Access!accessVars
<1> QED
    BY <1>2, <1>3 DEF LogInv

-----------------------------------------------------------------------------
(* The theorems about the log.                                             *)

(* Every step of the log keeps the invariant and is one of the access log. *)
LEMMA LogStep ==
    ASSUME LogInv, [LogNext]_logVars PROVE LogInv' /\ AccessStep
<1>1. ASSUME NEW r \in Responses, Respond(r) \/ PollData(r) \/ H3Fail(r)
      PROVE  LogInv' /\ AccessStep
    BY <1>1, BodyStep
<1>2. ASSUME NEW r \in Responses, PollEnd(r) \/ DropBody(r) \/ H3Finish(r)
      PROVE  LogInv' /\ AccessStep
  <2>1. /\ FlushLog(r) /\ UNCHANGED <<mode, stderr, stop, taskVars>>
        /\ \E b \in {"polled", "dropped"} : body' = [body EXCEPT ![r] = b]
      BY <1>2 DEF PollEnd, DropBody, H3Finish
  <2> QED
      BY <2>1, FlushStep
<1>3. CASE TaskStep
    BY <1>3, TickDetailedStep, CollectStep, PrintEntryStep, LoopEndStep,
       TickSummaryStep, ReportCountStep, TaskEndStep DEF TaskStep
<1>4. CASE StderrChanges \/ StderrResumes \/ SendStop \/ UNCHANGED logVars
    BY <1>4, OtherStep
<1> QED
    BY <1>1, <1>2, <1>3, <1>4 DEF LogNext, TcpStep

(* The log starts empty.                                                   *)
LEMMA LogInitially == LogInit => LogInv /\ Access!AccessInit
<1> SUFFICES ASSUME LogInit PROVE LogInv /\ Access!AccessInit
    OBVIOUS
<1>1. <<>> \in Seq(Responses) /\ Len(<<>>) = 0 /\ <<>> \o <<>> = <<>>
    BY EmptySeq, ConcatEmptySeq
<1>2. SubSeq(<<>>, 1, 0) = <<>> /\ SubSeq(<<>>, 0 + 1, 0) = <<>>
    BY SubSeqEmpty
<1>3. LogTypeOK
  <2>1. task \in {"waiting", "ended"} /\ at \in 0 .. Len(batch)
      BY <1>1 DEF LogInit
  <2> QED
      BY <1>1, <2>1 DEF LogInit, LogTypeOK
<1>4. TaskComplete
    BY <1>1, <1>2 DEF LogInit, TaskComplete, EntriesInOrder, CountsComplete, Rest
<1>5. PrefixOK /\ OnceOK /\ TaskOK
    BY <1>1, <1>2 DEF LogInit, PrefixOK, OnceOK, TaskOK, Logging
<1>6. Access!AccessInit
    BY <1>2 DEF LogInit, Access!AccessInit, Logging
<1> QED
    BY <1>3, <1>4, <1>5, <1>6 DEF LogInv

(* LogInv is invariant.                                                    *)
LEMMA LogInvariance == LogSpec => []LogInv
<1>1. LogInv /\ [LogNext]_logVars => LogInv'
    BY LogStep
<1> QED
    BY LogInitially, <1>1, PTL DEF LogSpec

(* The log by itself implements the access log.                            *)
LEMMA LogRefines == LogSpec => RefinesAccessLog
<1>1. LogInv /\ [LogNext]_logVars => AccessStep
    BY LogStep
<1>2. LogInv /\ [LogNext]_logVars => [Access!AccessNext]_(Access!accessVars)
    BY <1>1 DEF AccessStep
<1> QED
    BY LogInitially, LogInvariance, <1>2, PTL DEF LogSpec, RefinesAccessLog, Access!AccessSpec

-----------------------------------------------------------------------------
(* The server.                                                             *)

(* What the server does to its log is what the log may do.                 *)
LEMMA ServerLogs == Spec => LogSpec
<1>1. Init => LogInit
    BY DEF Init
<1>2. ASSUME [Next]_vars PROVE [LogNext]_logVars
  <2>1. CASE MainStep \/ Interrupt \/ Terminate \/ StartForcer \/ ForceQuit
      BY <2>1 DEF MainStep, Listen, Announce, PrintCrashes, DrainDone, GiveUp, Exit,
                  Interrupt, Terminate, StartForcer, ForceQuit, LogNext
  <2>2. ASSUME NEW r \in TcpResponses,
               Connect(r) \/ CloseConn(r) \/ RespondTcp(r) \/ SendTcp(r)
        PROVE  [LogNext]_logVars
      BY <2>2 DEF TcpResponses, Connect, CloseConn, RespondTcp, SendTcp, LogNext, TcpStep
  <2>3. ASSUME NEW r \in H3Responses, RespondH3(r) \/ FinishH3(r) \/ FailH3(r)
        PROVE  [LogNext]_logVars
      BY <2>3, LogAssumption DEF RespondH3, FinishH3, FailH3, LogNext
  <2>4. CASE StopAccepting \/ \E w \in QuicWorkers : StopEndpoint(w) \/ LoseEndpoint(w)
      BY <2>4 DEF StopAccepting, StopEndpoint, LoseEndpoint
  <2>5. CASE LogTask \/ Reader \/ UNCHANGED vars
      BY <2>5 DEF LogTask, Reader, LogNext, vars
  <2> QED
      BY <1>2, <2>1, <2>2, <2>3, <2>4, <2>5 DEF Next
<1> QED
    BY <1>1, <1>2, PTL DEF Spec, LogSpec

(* Main, connections and endpoints keep their types.                       *)
MainTypes ==
    /\ phase \in {"starting", "waiting", "announcing", "draining", "drained",
                  "giving up"} \cup Over
    /\ accepting \in BOOLEAN
    /\ conn \in [TcpResponses -> {"none", "open", "closed", "left"}]
    /\ endpoint \in [QuicWorkers -> {"open", "closed"}]
    /\ forcer \in {"none", "spawned", "listening", "exiting", "gone"}

(* Every step of the server keeps them.                                    *)
LEMMA MainTypesStep == MainTypes /\ [Next]_vars => MainTypes'
<1> SUFFICES ASSUME MainTypes, [Next]_vars PROVE MainTypes'
    OBVIOUS
<1> USE DEF MainTypes, Over
<1>1. CASE MainStep \/ Interrupt \/ Terminate
    BY <1>1 DEF MainStep, Listen, Announce, PrintCrashes, DrainDone, GiveUp, Exit,
                Interrupt, Terminate
<1>2. CASE StartForcer \/ ForceQuit
    BY <1>2 DEF StartForcer, ForceQuit
<1>3. ASSUME NEW r \in TcpResponses,
             Connect(r) \/ CloseConn(r) \/ RespondTcp(r) \/ SendTcp(r)
      PROVE  MainTypes'
    BY <1>3 DEF Connect, CloseConn, RespondTcp, SendTcp, mainVars
<1>4. ASSUME NEW r \in H3Responses, RespondH3(r) \/ FinishH3(r) \/ FailH3(r)
      PROVE  MainTypes'
    BY <1>4 DEF RespondH3, FinishH3, FailH3, mainVars
<1>5. CASE StopAccepting \/ \E w \in QuicWorkers : StopEndpoint(w) \/ LoseEndpoint(w)
    BY <1>5 DEF StopAccepting, StopEndpoint, LoseEndpoint
<1>6. CASE LogTask \/ Reader \/ UNCHANGED vars
    BY <1>6 DEF LogTask, Reader, vars, mainVars
<1> QED
    BY <1>1, <1>2, <1>3, <1>4, <1>5, <1>6 DEF Next

(* Every variable of the server that shuts down keeps its type, for any    *)
(* number of responses and QUIC workers, in every mode and profile.        *)
THEOREM ShutdownTypes == Spec => []TypeOK
<1>1. Init => MainTypes
    BY DEF Init, MainTypes
<1>2. LogInv /\ MainTypes => TypeOK
    BY DEF LogInv, MainTypes, TypeOK
<1> QED
    BY <1>1, <1>2, MainTypesStep, ServerLogs, LogInvariance, PTL DEF Spec

-----------------------------------------------------------------------------
(* Bodies, and the end of the process.                                     *)

(* A body has its TimingInfo as long as it can be polled to its end.       *)
BodyInv ==
    /\ \A r \in Responses : info[r] <=> body[r] \in {"data", "end"}
    /\ OverIsLogged

(* At first there is no body.                                              *)
LEMMA InitBodyInv == LogInit => BodyInv
BY DEF LogInit, BodyInv, OverIsLogged, ToSet

(* The end of a body takes its TimingInfo and logs it, once.               *)
LEMMA EndKeepsBodies ==
    ASSUME LogTypeOK, BodyInv, NEW r \in Responses, FlushLog(r),
           \/ body[r] \in {"data", "end"} /\ body' = [body EXCEPT ![r] = "polled"]
           \/ body[r] \in {"data", "end", "polled"} /\ body' = [body EXCEPT ![r] = "dropped"]
    PROVE  BodyInv'
<1>1. /\ body'[r] \in {"polled", "dropped"}
      /\ \A q \in Responses \ {r} : body'[q] = body[q]
    BY DEF LogTypeOK
<1>2. CASE ~info[r]
  <2>1. UNCHANGED <<info, flushed>> /\ r \in ToSet(flushed)
      BY <1>2 DEF FlushLog, BodyInv, OverIsLogged
  <2> QED
      BY <1>1, <1>2, <2>1 DEF BodyInv, OverIsLogged
<1>3. CASE info[r]
  <2>1. info' = [info EXCEPT ![r] = FALSE] /\ flushed' = Append(flushed, r)
      BY <1>3 DEF FlushLog
  <2>2. ToSet(flushed') = ToSet(flushed) \cup {r}
      BY <2>1, AppendedSet DEF LogTypeOK
  <2> QED
      BY <1>1, <2>1, <2>2 DEF BodyInv, OverIsLogged, LogTypeOK
<1> QED
    BY <1>2, <1>3

(* Every step of the log keeps the bodies and their entries in step.       *)
LEMMA BodyInvStep == LogTypeOK /\ BodyInv /\ [LogNext]_logVars => BodyInv'
<1> SUFFICES ASSUME LogTypeOK, BodyInv, [LogNext]_logVars PROVE BodyInv'
    OBVIOUS
<1>1. ASSUME NEW r \in Responses, PollEnd(r) \/ DropBody(r) \/ H3Finish(r)
      PROVE  BodyInv'
    BY <1>1, EndKeepsBodies DEF PollEnd, DropBody, H3Finish
<1>2. ASSUME NEW r \in Responses, Respond(r) \/ PollData(r) \/ H3Fail(r)
      PROVE  BodyInv'
    BY <1>2 DEF Respond, PollData, H3Fail, BodyInv, OverIsLogged, LogTypeOK
<1>3. CASE TaskStep \/ StderrChanges \/ StderrResumes \/ SendStop \/ UNCHANGED logVars
  <2>1. UNCHANGED <<body, info, flushed>>
      BY <1>3 DEF TaskStep, TickDetailed, Collect, CollectEnd, PrintEntry, PrintEnd,
         TickSummary, ReportCount, PrintFails, StopTask, StderrChanges, StderrResumes,
         SendStop, bodyVars, logVars
  <2> QED
      BY <2>1 DEF BodyInv, OverIsLogged
<1> QED
    BY <1>1, <1>2, <1>3 DEF LogNext, TcpStep

(* Bodies and entries stay in step.                                        *)
LEMMA BodyInvariance == LogSpec => []BodyInv
<1>1. LogInv => LogTypeOK
    BY DEF LogInv
<1> QED
    BY <1>1, InitBodyInv, BodyInvStep, LogInvariance, PTL DEF LogSpec

(* A response is logged when it is over, whichever way its body ends, and  *)
(* while the log task is there it is neither lost nor logged twice after   *)
(* that, whenever the task's ticks come.                                   *)
THEOREM NothingUnlogged == Spec => []LogComplete
<1>1. LogInv /\ BodyInv => LogComplete
    BY DEF LogInv, TaskComplete, BodyInv, LogComplete
<1> QED
    BY <1>1, ServerLogs, LogInvariance, BodyInvariance, PTL

(* The server's log is an access log, up to its end and beyond.            *)
THEOREM ImplementsAccessLog == Spec => RefinesAccessLog
BY ServerLogs, LogRefines, PTL

-----------------------------------------------------------------------------
(* Connections, and what the end of the process means.                     *)

(* A response is on an open connection until its body is dropped, with the *)
(* connection at the latest, unless a stream's task has it.                *)
ConnBodies ==
    \A r \in TcpResponses :
        /\ conn[r] = "none" => body[r] = "none"
        /\ conn[r] = "closed" => body[r] \in {"none", "dropped"}

(* Main is past Ctrl+C only after it has sent the signal, past the drain   *)
(* only with everything ended, and crashes only with stderr.               *)
PhaseOK ==
    /\ phase \in {"draining", "drained", "giving up", "clean", "timedout"} => stop
    /\ forcer \in {"spawned", "listening", "exiting"} => stop
    /\ phase = "forced" => stop
    /\ phase \in {"drained", "clean"} =>
          /\ ~accepting
          /\ HandlersDone
          /\ \A w \in QuicWorkers : endpoint[w] = "closed"
          /\ ~Logging
    /\ phase = "crashed" => stderr = "closed" /\ mode # "disabled"

EndInv == MainTypes /\ ConnBodies /\ PhaseOK

(* A response of a task main has no handle of: an HTTP/3 connection's, or  *)
(* that of an HTTP/2 stream whose connection is over.                      *)
Detached(r) == r \in H3Responses \/ conn[r] = "left"

(* What the ways to end mean: "All workers exited cleanly" that no joined  *)
(* task is left to accept, serve or log, and that a response begun and not *)
(* logged is that of a task nobody joins; a timeout or a forced exit, that *)
(* the workers were told before; and a crash, that stderr was closed.      *)
EndMeans ==
    /\ phase = "clean" =>
          /\ ~accepting
          /\ HandlersDone
          /\ \A w \in QuicWorkers : endpoint[w] = "closed"
          /\ ~Logging
          /\ \A r \in Responses :
                body[r] # "none" => r \in ToSet(flushed) \/ Detached(r)
    /\ phase \in {"timedout", "forced"} => stop
    /\ phase = "crashed" => stderr = "closed" /\ mode # "disabled"

(* Without a signal, a connection or a print nothing can end.              *)
LEMMA InitEndInv == Init => EndInv
BY LogAssumption DEF Init, LogInit, EndInv, MainTypes, ConnBodies, PhaseOK, TcpResponses

(* The log task that has ended does not start again.                       *)
LEMMA TaskKeeps ==
    ASSUME TaskOK, TaskStep
    PROVE  /\ UNCHANGED <<mode, body, stderr, stop>>
           /\ Logging
           /\ task' = "aborted" => stderr = "closed" /\ mode # "disabled"
BY DEF TaskOK, TaskStep, TickDetailed, Collect, CollectEnd, PrintEntry, PrintEnd, TickSummary,
   ReportCount, PrintFails, StopTask, bodyVars, Logging

(* Main and the signals.                                                   *)
LEMMA MainKeepsEnd ==
    ASSUME EndInv,
           MainStep \/ Interrupt \/ Terminate \/ StartForcer \/ ForceQuit
    PROVE  (ConnBodies /\ PhaseOK)'
<1>1. /\ UNCHANGED <<mode, body, task, stderr, conn, accepting, endpoint>>
      /\ stop => stop'
  <2>1. CASE Announce
      BY <2>1 DEF Announce, SendStop, bodyVars, taskVars
  <2>2. CASE ~ Announce
    <3>1. UNCHANGED <<mode, body, task, stderr, stop, conn, accepting, endpoint>>
        BY <2>2 DEF MainStep, Listen, PrintCrashes, DrainDone, GiveUp, Exit,
           Interrupt, Terminate, StartForcer, ForceQuit, logVars
    <3> QED
        BY <3>1
  <2> QED
      BY <2>1, <2>2
<1>2. ConnBodies'
    BY <1>1 DEF EndInv, ConnBodies
<1> DEFINE Ended == /\ ~accepting
                    /\ HandlersDone
                    /\ \A w \in QuicWorkers : endpoint[w] = "closed"
                    /\ ~Logging
           Crash == stderr = "closed" /\ mode # "disabled"
<1>3. (Ended => Ended') /\ (Crash => Crash')
    BY <1>1 DEF HandlersDone, Logging
<1>4. /\ phase \in {"draining", "drained", "giving up", "clean", "timedout"} => stop
      /\ forcer \in {"spawned", "listening", "exiting"} => stop
      /\ phase = "forced" => stop
      /\ phase \in {"drained", "clean"} => Ended
      /\ phase = "crashed" => Crash
    BY DEF EndInv, PhaseOK
<1>5. PrintPanics => Crash
    BY DEF PrintPanics
<1>6. DrainDone => Ended
    BY DEF DrainDone
<1>7. Announce => stop'
    BY DEF Announce, SendStop
<1> HIDE DEF Ended, Crash
<1>8. /\ phase' \in {"draining", "drained", "giving up", "clean", "timedout"} => stop'
      /\ forcer' \in {"spawned", "listening", "exiting"} => stop'
      /\ phase' = "forced" => stop'
      /\ phase' \in {"drained", "clean"} => Ended'
      /\ phase' = "crashed" => Crash'
  <2>1. CASE MainStep
    <3>1. CASE Listen \/ PrintCrashes
        BY <3>1, <1>1, <1>3, <1>4, <1>5 DEF Listen, PrintCrashes
    <3>2. CASE Announce
        BY <3>2, <1>7 DEF Announce
    <3>3. CASE DrainDone
        BY <3>3, <1>1, <1>3, <1>4, <1>6 DEF DrainDone
    <3>4. CASE GiveUp
        BY <3>4, <1>1, <1>4 DEF GiveUp
    <3>5. CASE Exit
        BY <3>5, <1>1, <1>3, <1>4 DEF Exit
    <3> QED
        BY <2>1, <3>1, <3>2, <3>3, <3>4, <3>5 DEF MainStep
  <2>2. CASE Interrupt \/ Terminate
      BY <2>2, <1>1, <1>3, <1>4 DEF Interrupt, Terminate
  <2>3. CASE StartForcer \/ ForceQuit
      BY <2>3, <1>1, <1>3, <1>4, <1>5 DEF StartForcer, ForceQuit
  <2> QED
      BY <2>1, <2>2, <2>3
<1> QED
    BY <1>2, <1>8 DEF PhaseOK, Ended, Crash

(* A process that runs goes on: what has ended stays ended.                *)
LEMMA GoingOn ==
    ASSUME PhaseOK, Alive, UNCHANGED <<mode, phase, stop, forcer>>,
           phase = "drained" =>
              /\ ~accepting'
              /\ HandlersDone'
              /\ \A w \in QuicWorkers : endpoint'[w] = "closed"
              /\ ~Logging'
    PROVE  PhaseOK'
<1>1. phase' = phase /\ phase \notin {"clean", "timedout", "forced", "killed", "crashed"}
    BY DEF Alive, Over
<1> QED
    BY <1>1 DEF PhaseOK

(* The TCP workers: nothing is opened once they have stopped, and streams  *)
(* that go on after their connection change no connection.                 *)
LEMMA TcpKeepsEnd ==
    ASSUME LogTypeOK, EndInv, NEW r \in TcpResponses,
           Connect(r) \/ CloseConn(r) \/ RespondTcp(r) \/ SendTcp(r)
    PROVE  (ConnBodies /\ PhaseOK)'
<1> USE DEF EndInv
<1>1. /\ Alive
      /\ UNCHANGED <<mode, phase, stop, forcer, accepting, endpoint, task>>
      /\ r \in Responses
    BY DEF Connect, CloseConn, RespondTcp, SendTcp, Respond, TcpStep, PollData, PollEnd,
       DropBody, logVars, mainVars, taskVars, TcpResponses
<1>2. \/ Connect(r) /\ UNCHANGED body
      \/ /\ conn[r] = "open"
         /\ \/ conn' = [conn EXCEPT ![r] = "closed"] /\ UNCHANGED body
                                                      /\ body[r] \in {"none", "dropped"}
            \/ conn' = [conn EXCEPT ![r] = "closed"] /\ body' = [body EXCEPT ![r] = "dropped"]
            \/ conn' = [conn EXCEPT ![r] = "left"] /\ UNCHANGED body
      \/ /\ conn[r] \in {"open", "left"} \/ body[r] \in {"data", "end", "polled"}
         /\ \E b \in {"data", "end", "polled", "dropped"} : body' = [body EXCEPT ![r] = b]
         /\ UNCHANGED conn
    BY DEF Connect, CloseConn, RespondTcp, SendTcp, Respond, TcpStep, PollData, PollEnd,
       DropBody, logVars, mainVars
<1>3. conn[r] \in {"open", "left"} \/ (Connect(r) /\ conn[r] = "none")
    BY <1>2 DEF ConnBodies, MainTypes, Connect
<1>4. ConnBodies'
  <2> SUFFICES ASSUME NEW q \in TcpResponses
               PROVE  /\ conn'[q] = "none" => body'[q] = "none"
                      /\ conn'[q] = "closed" => body'[q] \in {"none", "dropped"}
      BY DEF ConnBodies
  <2>1. q \in Responses
      BY DEF TcpResponses
  <2>2. CASE q # r
    <3>1. conn'[q] = conn[q] /\ body'[q] = body[q]
        BY <1>1, <1>2, <2>1, <2>2 DEF MainTypes, LogTypeOK, Connect
    <3> QED
        BY <3>1 DEF ConnBodies
  <2>3. CASE q = r
      BY <1>1, <1>2, <1>3, <2>3 DEF MainTypes, LogTypeOK, Connect
  <2> QED
      BY <2>2, <2>3
<1>5. phase = "drained" => /\ ~accepting /\ UNCHANGED <<accepting, conn, endpoint, task>>
                           /\ HandlersDone /\ ~Logging
                           /\ \A w \in QuicWorkers : endpoint[w] = "closed"
    BY <1>1, <1>2 DEF PhaseOK, HandlersDone, Connect
<1> QED
    BY <1>1, <1>4, <1>5, GoingOn DEF HandlersDone, Logging

(* QUIC workers, the log task and the reader of stderr.                    *)
LEMMA OthersKeepEnd ==
    ASSUME LogTypeOK, TaskOK, EndInv,
           \/ StopAccepting
           \/ \E w \in QuicWorkers : StopEndpoint(w) \/ LoseEndpoint(w)
           \/ \E r \in H3Responses : RespondH3(r) \/ FinishH3(r) \/ FailH3(r)
           \/ LogTask
           \/ Reader
           \/ UNCHANGED vars
    PROVE  (ConnBodies /\ PhaseOK)'
<1> USE DEF EndInv
<1>1. CASE StopAccepting
  <2>1. UNCHANGED <<mode, phase, stop, forcer, conn, body, endpoint, task, stderr>> /\ ~accepting'
      BY <1>1 DEF StopAccepting, logVars
  <2> QED
      BY <2>1 DEF ConnBodies, PhaseOK, HandlersDone, Logging
<1>2. ASSUME NEW w \in QuicWorkers, StopEndpoint(w) \/ LoseEndpoint(w)
      PROVE  (ConnBodies /\ PhaseOK)'
  <2>1. /\ UNCHANGED <<mode, stop, forcer, conn, body, accepting, task, stderr>>
        /\ Alive /\ endpoint[w] = "open"
        /\ phase' = phase \/ (phase' = "crashed" /\ PrintPanics)
      BY <1>2 DEF StopEndpoint, LoseEndpoint, logVars
  <2>2. phase \notin {"drained", "clean"}
      BY <2>1 DEF PhaseOK
  <2> QED
      BY <2>1, <2>2 DEF ConnBodies, PhaseOK, PrintPanics, Alive, Over
<1>3. ASSUME NEW r \in H3Responses, RespondH3(r) \/ FinishH3(r) \/ FailH3(r)
      PROVE  (ConnBodies /\ PhaseOK)'
  <2>1. /\ UNCHANGED <<mode, phase, stop, forcer, conn, accepting, endpoint, task, stderr>>
        /\ \A q \in TcpResponses : body'[q] = body[q]
      BY <1>3 DEF RespondH3, FinishH3, FailH3, Respond, H3Finish, H3Fail, LogTypeOK,
         logVars, mainVars, taskVars, TcpResponses
  <2> QED
      BY <2>1 DEF ConnBodies, PhaseOK, HandlersDone, Logging
<1>4. CASE LogTask
  <2>1. /\ UNCHANGED <<mode, stop, forcer, conn, body, accepting, endpoint, stderr>>
        /\ Logging
        /\ phase' = phase \/ (phase' = "crashed" /\ stderr = "closed" /\ mode # "disabled")
      BY <1>4, TaskKeeps DEF LogTask
  <2> QED
      BY <2>1 DEF ConnBodies, PhaseOK, HandlersDone
<1>5. CASE Reader \/ UNCHANGED vars
  <2>1. /\ UNCHANGED <<mode, phase, stop, forcer, conn, body, accepting, endpoint, task>>
        /\ phase = "crashed" => UNCHANGED stderr
      BY <1>5 DEF Reader, StderrChanges, StderrResumes, Alive, Over, vars, logVars, mainVars,
         bodyVars, taskVars
  <2> QED
      BY <2>1 DEF ConnBodies, PhaseOK, HandlersDone, Logging
<1> QED
    BY <1>1, <1>2, <1>3, <1>4, <1>5

(* EndInv is invariant.                                                    *)
LEMMA EndInvariance == Spec => [](LogInv /\ BodyInv /\ EndInv)
<1>1. LogInv /\ EndInv /\ [Next]_vars => EndInv'
    BY MainTypesStep, MainKeepsEnd, TcpKeepsEnd, OthersKeepEnd DEF LogInv, EndInv, Next
<1> QED
    BY <1>1, InitEndInv, ServerLogs, LogInvariance, BodyInvariance, PTL DEF Spec

(* However the process ends, its end means what main's last line says.     *)
THEOREM EndsAsReported == Spec => []EndMeans
<1>1. BodyInv /\ EndInv => EndMeans
  <2> SUFFICES ASSUME BodyInv, EndInv PROVE EndMeans
      OBVIOUS
  <2>1. ASSUME phase = "clean", NEW r \in Responses, body[r] # "none", ~Detached(r)
        PROVE  r \in ToSet(flushed)
    <3>1. r \in TcpResponses /\ conn[r] = "closed"
        BY <2>1 DEF Detached, TcpResponses, EndInv, MainTypes, ConnBodies, PhaseOK, HandlersDone
    <3> QED
        BY <2>1, <3>1 DEF EndInv, ConnBodies, BodyInv, OverIsLogged
  <2> QED
      BY <2>1 DEF EndInv, PhaseOK, EndMeans
<1> QED
    BY <1>1, EndInvariance, PTL

-----------------------------------------------------------------------------
(* The part of TcpWorkers in Shutdown.                                     *)

(* Shutdown takes a response for a connection that is in service while it  *)
(* is open, and needs no permits: it has one for each.                     *)
Gate == INSTANCE ConnectionLimiter WITH
    Conns <- TcpResponses,
    MaxConnections <- Cardinality(TcpResponses),
    inService <- {r \in TcpResponses : conn[r] = "open"},
    gone <- {r \in TcpResponses : conn[r] \in {"closed", "left"}},
    open <- accepting

(* Whoever is to be admitted has a place.                                  *)
LEMMA RoomForAll ==
    ASSUME IsFiniteSet(TcpResponses), NEW r \in TcpResponses, conn[r] # "open"
    PROVE  Cardinality({q \in TcpResponses : conn[q] = "open"}) < Cardinality(TcpResponses)
<1> DEFINE O == {q \in TcpResponses : conn[q] = "open"}
<1>1. O \subseteq TcpResponses /\ O # TcpResponses
    OBVIOUS
<1> HIDE DEF O
<1>2. /\ Cardinality(O) \in Nat /\ Cardinality(TcpResponses) \in Nat
      /\ Cardinality(O) <= Cardinality(TcpResponses)
      /\ Cardinality(O) = Cardinality(TcpResponses) => O = TcpResponses
    BY <1>1, FS_Subset, FS_CardinalityType
<1>3. Cardinality(O) < Cardinality(TcpResponses)
    BY <1>1, <1>2
<1> QED
    BY <1>3 DEF O

(* The TCP side of Shutdown keeps what TcpWorkers is shown to keep         *)
(* (ImplementsLimiter): a connection is admitted once, while the loops     *)
(* accept, and leaves for good.                                            *)
THEOREM ImplementsGate == IsFiniteSet(Responses) => (Spec => Gate!LimiterSpec)
<1> SUFFICES ASSUME IsFiniteSet(Responses) PROVE Spec => Gate!LimiterSpec
    OBVIOUS
<1>1. IsFiniteSet(TcpResponses)
    BY FS_Subset DEF TcpResponses
<1>2. Init => Gate!LimiterInit
    BY DEF Init, Gate!LimiterInit
<1>3. ASSUME MainTypes, [Next]_vars
      PROVE  [Gate!LimiterNext]_(Gate!limiterVars)
  <2>1. ASSUME NEW r \in TcpResponses, Connect(r)
        PROVE  Gate!Admit(r)
    <3> DEFINE O == {q \in TcpResponses : conn[q] = "open"}
               C == {q \in TcpResponses : conn[q] \in {"closed", "left"}}
    <3>1. /\ accepting /\ UNCHANGED accepting
          /\ conn[r] = "none" /\ conn'[r] = "open"
          /\ \A q \in TcpResponses \ {r} : conn'[q] = conn[q]
        BY <1>3, <2>1 DEF Connect, MainTypes
    <3>2. O' = O \cup {r} /\ C' = C /\ r \notin O \cup C
        BY <3>1
    <3>3. Cardinality(O) < Cardinality(TcpResponses)
        BY <1>1, <3>1, RoomForAll
    <3>4. accepting' = accepting
        BY <3>1
    <3> HIDE DEF O, C
    <3>5. /\ accepting /\ r \notin O \cup C /\ Cardinality(O) < Cardinality(TcpResponses)
          /\ O' = O \cup {r} /\ C' = C /\ accepting' = accepting
        BY <3>1, <3>2, <3>3, <3>4
    <3> QED
        BY <3>5 DEF Gate!Admit, Gate!Cardinality, Cardinality, O, C
  <2>2. ASSUME NEW r \in TcpResponses, CloseConn(r)
        PROVE  Gate!Leave(r)
      BY <1>3, <2>2 DEF CloseConn, Gate!Leave, MainTypes
  <2>3. CASE StopAccepting
    <3>1. Gate!TurnAway({})
        BY <2>3 DEF StopAccepting, Gate!TurnAway
    <3> QED
        BY <3>1 DEF Gate!LimiterNext
  <2>4. CASE UNCHANGED <<conn, accepting>>
      BY <2>4 DEF Gate!limiterVars
  <2>5. \/ \E r \in TcpResponses : Connect(r) \/ CloseConn(r)
        \/ StopAccepting
        \/ UNCHANGED <<conn, accepting>>
      BY <1>3 DEF Next, MainStep, Listen, Announce, PrintCrashes, DrainDone, GiveUp, Exit,
         Interrupt, Terminate, StartForcer, ForceQuit, RespondTcp, SendTcp, RespondH3,
         FinishH3, FailH3, StopEndpoint, LoseEndpoint, LogTask, Reader, vars, mainVars
  <2> QED
      BY <2>1, <2>2, <2>3, <2>4, <2>5 DEF Gate!LimiterNext
<1>4. Init => MainTypes
    BY DEF Init, MainTypes
<1> QED
    BY <1>2, <1>3, <1>4, MainTypesStep, PTL DEF Spec, Gate!LimiterSpec

=============================================================================
