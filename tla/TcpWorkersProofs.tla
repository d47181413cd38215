-------------------------- MODULE TcpWorkersProofs --------------------------
(***************************************************************************)
(* The inductive invariant of TcpWorkers and the proof that every step     *)
(* keeps it.  The properties themselves follow in TcpWorkersTheorems.      *)
(*                                                                         *)
(* PermitConservation counts permits, so a step that moves a permit must   *)
(* be known to move exactly one connection into or out of service.  That   *)
(* is what OwnInv is for: the connection at the head of a channel, in the  *)
(* hands of a handler or held by an accept loop has the stage that goes    *)
(* with the place, and is in no other place.  WaitInv does the same for    *)
(* the semaphore's queue: the worker a release wakes really waits.         *)
(***************************************************************************)
EXTENDS TcpWorkers, FiniteSetTheorems, SequenceTheorems, TLAPS

(***************************************************************************)
(* The inductive invariant.                                                *)
(***************************************************************************)

Waiting == {"acquiring", "waiting", "granted"}

(* A connection is in the listen queue of one listener iff its stage says  *)
(* so, and a closed listener has none.                                     *)
BacklogInv ==
    /\ \A w \in Workers : \A c \in backlog[w] : stage[c] = "backlog"
    /\ \A w, v \in Workers : \A c \in backlog[w] : c \in backlog[v] => w = v
    /\ \A c \in Conns : stage[c] = "backlog" => \E w \in Workers : c \in backlog[w]
    /\ \A w \in Workers : loop[w] = "stopped" => backlog[w] = {}

(* An accept loop has an accepted connection iff it is after a permit.     *)
HeldInv ==
    /\ \A w \in Workers : held[w] \in Conns <=> loop[w] \in Waiting
    /\ \A w \in Workers : held[w] \in Conns => stage[held[w]] = "accepted"
    /\ \A w, v \in Workers : held[w] = held[v] /\ held[w] \in Conns => w = v
    /\ \A c \in Conns : stage[c] = "accepted" => \E w \in Workers : held[w] = c

(* A dispatched connection is in one place of one channel.                 *)
QueueInv ==
    /\ \A p \in Handlers : \A i \in 1 .. Len(queue[p]) : stage[queue[p][i]] = "queued"
    /\ \A p, r \in Handlers :
          \A i \in 1 .. Len(queue[p]), j \in 1 .. Len(queue[r]) :
             queue[p][i] = queue[r][j] => p = r /\ i = j
    /\ \A c \in Conns : stage[c] = "queued" =>
          \E p \in Handlers : \E i \in 1 .. Len(queue[p]) : queue[p][i] = c

(* A handler has a connection iff it is busy.                              *)
CurInv ==
    /\ \A p \in Handlers : cur[p] \in Conns <=> handler[p] = "busy"
    /\ \A p \in Handlers : cur[p] \in Conns => stage[cur[p]] \in Active
    /\ \A p, r \in Handlers : cur[p] = cur[r] /\ cur[p] \in Conns => p = r
    /\ \A c \in Conns : stage[c] \in Active => \E p \in Handlers : cur[p] = c

(* A handler ends only when its channel is empty and has no sender left.   *)
ExitInv ==
    \A p \in Handlers : handler[p] = "exited" =>
        queue[p] = <<>> /\ loop[p[1]] = "stopped"

(* The semaphore's queue q holds exactly the waiting workers, each once,   *)
(* and nobody waits while one of its n permits is free.                    *)
WaitOK(n, ls, q) ==
    /\ n > 0 => q = <<>>
    /\ \A i \in 1 .. Len(q) : ls[q[i]] = "waiting"
    /\ \A i, j \in 1 .. Len(q) : q[i] = q[j] => i = j
    /\ \A w \in Workers : ls[w] = "waiting" => \E i \in 1 .. Len(q) : q[i] = w

WaitInv == WaitOK(permits, loop, waiters)

(* Permits that no connection holds.                                       *)
Unused(n, ls) == n + Cardinality({w \in Workers : ls[w] = "granted"})

(* main reports a clean end only with every task joined.                   *)
CleanInv ==
    phase = "clean" =>
        /\ \A w \in Workers : loop[w] = "stopped"
        /\ \A p \in Handlers : TaskDone(p)

(* Every connection is where its stage says, and nowhere else.             *)
OwnInv == BacklogInv /\ HeldInv /\ QueueInv /\ CurInv /\ ExitInv

IInv ==
    /\ TypeOK
    /\ OwnInv
    /\ WaitInv
    /\ CleanInv
    /\ PermitConservation

-----------------------------------------------------------------------------
(* Facts about the helpers.                                                *)

(* Round robin stays within the worker's pool.                             *)
LEMMA TargetType ==
  ASSUME TypeOK, NEW w \in Workers
  PROVE  Target(w) \in Handlers
<1>1. next[w] \in Nat
  BY ParametersAssumption DEF TypeOK
<1>2. next[w] % HandlersPerWorker \in 0 .. HandlersPerWorker - 1
  BY <1>1, ParametersAssumption
<1> QED  BY <1>2 DEF Target, Handlers

(* Removing one element of a sequence shifts the ones after it.            *)
LEMMA RemoveAtType ==
  ASSUME NEW S, NEW s \in Seq(S), NEW i \in 1 .. Len(s)
  PROVE  /\ RemoveAt(s, i) \in Seq(S)
         /\ Len(RemoveAt(s, i)) = Len(s) - 1
         /\ \A j \in 1 .. Len(s) - 1 :
               RemoveAt(s, i)[j] = IF j < i THEN s[j] ELSE s[j + 1]
<1> DEFINE a == SubSeq(s, 1, i - 1)
           b == SubSeq(s, i + 1, Len(s))
<1>1. /\ a \in Seq(S)
      /\ Len(a) = i - 1
      /\ \A j \in 1 .. i - 1 : a[j] = s[j]
  <2>1. \A j \in 1 .. i - 1 : s[j] \in S
    BY ElementOfSeq, LenProperties
  <2> QED  BY <2>1, SubSeqProperties, LenProperties
<1>2. /\ b \in Seq(S)
      /\ Len(b) = Len(s) - i
      /\ \A j \in 1 .. Len(s) - i : b[j] = s[i + j]
  <2>1. \A j \in i + 1 .. Len(s) : s[j] \in S
    BY ElementOfSeq, LenProperties
  <2>2. i + 1 \in Int /\ Len(s) \in Int
    BY LenProperties
  <2> QED  BY <2>1, <2>2, SubSeqProperties
<1>3. RemoveAt(s, i) = a \o b
  BY DEF RemoveAt
<1> HIDE DEF a, b
<1>4. Len(s) \in Nat /\ i \in Nat
  BY LenProperties
<1>5. /\ a \o b \in Seq(S)
      /\ Len(a \o b) = Len(s) - 1
      /\ \A j \in 1 .. Len(s) - 1 : (a \o b)[j] = IF j <= i - 1 THEN a[j] ELSE b[j - (i - 1)]
  <2>1. Len(a) + Len(b) = Len(s) - 1
    BY <1>1, <1>2, <1>4
  <2>2. /\ a \o b \in Seq(S)
        /\ Len(a \o b) = Len(a) + Len(b)
        /\ \A j \in 1 .. Len(a) + Len(b) :
              (a \o b)[j] = IF j <= Len(a) THEN a[j] ELSE b[j - Len(a)]
    BY <1>1, <1>2, ConcatProperties
  <2> HIDE DEF a, b
  <2>3. Len(a) = i - 1
    BY <1>1
  <2> QED  BY <2>1, <2>2, <2>3
<1>6. ASSUME NEW j \in 1 .. Len(s) - 1
      PROVE  (a \o b)[j] = IF j < i THEN s[j] ELSE s[j + 1]
  <2>1. CASE j < i
    BY <1>1, <1>4, <1>5, <2>1
  <2>2. CASE ~(j < i)
    <3>1. j - (i - 1) \in 1 .. Len(s) - i /\ i + (j - (i - 1)) = j + 1
      BY <1>4, <2>2
    <3> QED  BY <1>2, <1>4, <1>5, <2>2, <3>1
  <2> QED  BY <2>1, <2>2
<1> QED  BY <1>3, <1>5, <1>6

(* Where an accept loop can be.                                            *)
LoopStates == {"accepting", "acquiring", "waiting", "granted", "stopped"}

(* A released permit goes to a worker of the queue or to the free ones.    *)
LEMMA ReleaseType ==
  ASSUME permits \in Nat, NEW ls \in [Workers -> LoopStates],
         NEW q \in Seq(Workers), Release(ls, q)
  PROVE  /\ permits' \in Nat
         /\ loop' \in [Workers -> LoopStates]
         /\ waiters' \in Seq(Workers)
<1>1. CASE q = <<>>
  BY <1>1 DEF Release
<1>2. CASE q # <<>>
  <2>1. Head(q) \in Workers /\ Tail(q) \in Seq(Workers)
    BY <1>2, HeadTailProperties
  <2> QED  BY <1>2, <2>1 DEF Release, LoopStates
<1> QED  BY <1>1, <1>2

(* A loop that ends leaves connections and listeners with their types.     *)
LEMMA LoopEndsType ==
  ASSUME TypeOK, NEW w \in Workers, LoopEnds(w)
  PROVE  /\ stage' \in [Conns -> {"new", "backlog", "accepted", "queued"}
                                    \cup Active \cup Ended]
         /\ backlog' \in [Workers -> SUBSET Conns]
         /\ held' \in [Workers -> Conns \cup {None}]
BY DEF TypeOK, LoopEnds, Dropped, Ended

(* A send leaves connections, channels and loops with their types.         *)
LEMMA SendType ==
  ASSUME TypeOK, NEW w \in Workers, held[w] \in Conns, Send(w)
  PROVE  /\ stage' \in [Conns -> {"new", "backlog", "accepted", "queued"}
                                    \cup Active \cup Ended]
         /\ held' \in [Workers -> Conns \cup {None}]
         /\ queue' \in [Handlers -> Seq(Conns)]
         /\ loop' \in [Workers -> LoopStates]
<1>1. Target(w) \in Handlers
  BY TargetType
<1>2. Append(queue[Target(w)], held[w]) \in Seq(Conns)
  BY <1>1, AppendProperties DEF TypeOK
<1> QED  BY <1>1, <1>2 DEF TypeOK, Send, LoopStates

(* The loops are in service, waiting or stopped as in ls.                  *)
SameLoops(ls) ==
    /\ loop' \in [Workers -> LoopStates]
    /\ \A w \in Workers : /\ loop'[w] \in Waiting <=> ls[w] \in Waiting
                          /\ loop'[w] = "stopped" <=> ls[w] = "stopped"

(* A release wakes one waiter, or frees the permit; nothing else changes.  *)
LEMMA ReleaseKeeps ==
  ASSUME permits \in Nat, NEW ls \in [Workers -> LoopStates],
         NEW q \in Seq(Workers), WaitOK(permits, ls, q), Release(ls, q)
  PROVE  /\ SameLoops(ls)
         /\ WaitOK(permits', loop', waiters')
         /\ Unused(permits', loop') = Unused(permits, ls) + 1
<1> DEFINE G == {w \in Workers : ls[w] = "granted"}
<1>0. IsFiniteSet(G) /\ Cardinality(G) \in Nat
  BY ParametersAssumption, FS_Subset, FS_CardinalityType
<1>1. CASE q = <<>>
  <2>1. SameLoops(ls)
    BY <1>1 DEF Release, SameLoops
  <2>2. WaitOK(permits', loop', waiters')
    BY <1>1 DEF Release, WaitOK
  <2>3. Unused(permits', loop') = Unused(permits, ls) + 1
    BY <1>0, <1>1 DEF Release, Unused
  <2> QED  BY <2>1, <2>2, <2>3
<1>2. CASE q # <<>>
  <2> DEFINE h == q[1]
  <2>1. /\ Head(q) = h
        /\ h \in Workers
        /\ Tail(q) \in Seq(Workers)
        /\ Len(q) \in Nat \ {0}
        /\ Len(Tail(q)) = Len(q) - 1
        /\ \A i \in 1 .. Len(q) - 1 : Tail(q)[i] = q[i + 1]
    BY <1>2, HeadTailProperties, EmptySeq, ElementOfSeq
  <2>2. ls[h] = "waiting"
    BY <2>1 DEF WaitOK
  <2>3. /\ loop' = [ls EXCEPT ![h] = "granted"]
        /\ waiters' = Tail(q)
        /\ permits' = permits
    BY <1>2, <2>1 DEF Release
  <2>4. SameLoops(ls)
    BY <2>1, <2>2, <2>3 DEF SameLoops, Waiting, LoopStates
  <2>5. WaitOK(permits', loop', waiters')
    <3>1. permits = 0
      BY <1>2 DEF WaitOK
    <3>2. \A i \in 1 .. Len(waiters') : loop'[waiters'[i]] = "waiting"
      <4> SUFFICES ASSUME NEW i \in 1 .. Len(q) - 1
                   PROVE  loop'[q[i + 1]] = "waiting"
        BY <2>1, <2>3
      <4>1. i + 1 \in 1 .. Len(q) /\ i + 1 # 1
        BY <2>1
      <4>2. q[i + 1] # h /\ ls[q[i + 1]] = "waiting"
        BY <2>1, <4>1 DEF WaitOK
      <4>3. q[i + 1] \in Workers
        BY <4>1, ElementOfSeq
      <4> QED  BY <2>3, <4>2, <4>3
    <3>3. \A i, j \in 1 .. Len(waiters') : waiters'[i] = waiters'[j] => i = j
      <4> SUFFICES ASSUME NEW i \in 1 .. Len(q) - 1, NEW j \in 1 .. Len(q) - 1,
                          q[i + 1] = q[j + 1]
                   PROVE  i = j
        BY <2>1, <2>3
      <4>1. i + 1 \in 1 .. Len(q) /\ j + 1 \in 1 .. Len(q)
        BY <2>1
      <4>2. i + 1 = j + 1
        BY <4>1 DEF WaitOK
      <4> QED  BY <4>2
    <3>4. ASSUME NEW w \in Workers, loop'[w] = "waiting"
          PROVE  \E i \in 1 .. Len(waiters') : waiters'[i] = w
      <4>1. w # h /\ ls[w] = "waiting"
        BY <2>1, <2>3, <3>4
      <4>2. PICK i \in 1 .. Len(q) : q[i] = w
        BY <4>1 DEF WaitOK
      <4>3. i - 1 \in 1 .. Len(q) - 1 /\ Tail(q)[i - 1] = w
        BY <2>1, <4>1, <4>2
      <4> QED  BY <2>1, <2>3, <4>3
    <3> QED  BY <2>3, <3>1, <3>2, <3>3, <3>4 DEF WaitOK
  <2>6. Unused(permits', loop') = Unused(permits, ls) + 1
    <3>1. {w \in Workers : loop'[w] = "granted"} = G \cup {h}
      BY <2>1, <2>3
    <3>2. h \notin G
      BY <2>2
    <3>3. Cardinality(G \cup {h}) = Cardinality(G) + 1
      BY <1>0, <3>2, FS_AddElement
    <3>4. Unused(permits', loop') = permits' + Cardinality(G \cup {h})
      BY <3>1 DEF Unused
    <3>5. Unused(permits, ls) = permits + Cardinality(G)
      BY DEF Unused
    <3> HIDE DEF G
    <3> QED  BY <1>0, <2>3, <3>3, <3>4, <3>5
  <2> QED  BY <2>4, <2>5, <2>6
<1> QED  BY <1>1, <1>2

(* InService grows and shrinks with the stage of one connection.           *)
LEMMA InServiceFinite ==
  IsFiniteSet(InService) /\ Cardinality(InService) \in Nat
BY ParametersAssumption, FS_Subset, FS_CardinalityType DEF InService

(* PermitConservation in terms of Unused.                                  *)
LEMMA ConservationForm ==
  PermitConservation <=>
      Unused(permits, loop) + Cardinality(InService) = MaxConnections
BY DEF PermitConservation, Unused, Granted

(* The permits no connection holds are a number.                           *)
LEMMA UnusedType ==
  ASSUME NEW n \in Nat, NEW ls \in [Workers -> LoopStates]
  PROVE  Unused(n, ls) \in Nat
<1>1. IsFiniteSet({w \in Workers : ls[w] = "granted"})
  BY ParametersAssumption, FS_Subset
<1> QED  BY <1>1, FS_CardinalityType DEF Unused

(* A granted loop moves on.                                                *)
LEMMA UnusedLess ==
  ASSUME NEW n \in Nat, NEW ls \in [Workers -> LoopStates], NEW w \in Workers,
         ls[w] = "granted", NEW st, st # "granted"
  PROVE  Unused(n, [ls EXCEPT ![w] = st]) = Unused(n, ls) - 1
<1> DEFINE G == {v \in Workers : ls[v] = "granted"}
<1>1. {v \in Workers : [ls EXCEPT ![w] = st][v] = "granted"} = G \ {w}
  OBVIOUS
<1>2. IsFiniteSet(G) /\ w \in G
  BY ParametersAssumption, FS_Subset
<1>3. Cardinality(G \ {w}) = Cardinality(G) - 1 /\ Cardinality(G) \in Nat
  BY <1>2, FS_RemoveElement, FS_CardinalityType
<1>4. Unused(n, [ls EXCEPT ![w] = st]) = n + Cardinality(G \ {w})
  BY <1>1 DEF Unused
<1>5. Unused(n, ls) = n + Cardinality(G)
  BY DEF Unused
<1> HIDE DEF G
<1> QED  BY <1>3, <1>4, <1>5

(* WaitOK looks at the waiting loops only.                                 *)
LEMMA WaitOKSame ==
  ASSUME NEW n, NEW ls \in [Workers -> LoopStates], NEW q \in Seq(Workers),
         NEW w \in Workers, ls[w] # "waiting", NEW st, st # "waiting",
         WaitOK(n, ls, q)
  PROVE  WaitOK(n, [ls EXCEPT ![w] = st], q)
<1>1. \A i \in 1 .. Len(q) : q[i] \in Workers
  BY ElementOfSeq
<1> QED  BY <1>1 DEF WaitOK

-----------------------------------------------------------------------------
(* What the parts of several actions do to the owners of connections.      *)

(* A loop that ends drops connections no handler has, and no others.       *)
LEMMA LoopEndsKeeps ==
  ASSUME TypeOK, OwnInv, NEW w \in Workers, LoopEnds(w),
         SameLoops(Stopped(w)), UNCHANGED poolVars
  PROVE  OwnInv' /\ InService' = InService
<1> DEFINE dropped == {c \in Conns : c = held[w] \/ c \in backlog[w]}
<1>1. /\ stage' = [c \in Conns |-> IF c \in dropped THEN "reset" ELSE stage[c]]
      /\ backlog' = [backlog EXCEPT ![w] = {}]
      /\ held' = [held EXCEPT ![w] = None]
      /\ queue' = queue /\ handler' = handler /\ cur' = cur
  BY DEF LoopEnds, Dropped, poolVars
<1>2. \A c \in dropped : stage[c] \in {"backlog", "accepted"}
  BY DEF OwnInv, BacklogInv, HeldInv
<1>3. /\ loop'[w] = "stopped"
      /\ \A v \in Workers \ {w} : loop'[v] \in Waiting <=> loop[v] \in Waiting
      /\ \A v \in Workers \ {w} : loop'[v] = "stopped" <=> loop[v] = "stopped"
  BY DEF SameLoops, Stopped, TypeOK
<1>4. BacklogInv'
  <2>1. \A v \in Workers : \A c \in backlog'[v] : stage'[c] = "backlog"
    BY <1>1 DEF TypeOK, OwnInv, BacklogInv, HeldInv
  <2>2. \A v, u \in Workers : \A c \in backlog'[v] : c \in backlog'[u] => v = u
    BY <1>1 DEF TypeOK, OwnInv, BacklogInv
  <2>3. \A c \in Conns : stage'[c] = "backlog" => \E v \in Workers : c \in backlog'[v]
    BY <1>1 DEF TypeOK, OwnInv, BacklogInv
  <2>4. \A v \in Workers : loop'[v] = "stopped" => backlog'[v] = {}
    BY <1>1, <1>3 DEF TypeOK, OwnInv, BacklogInv
  <2> QED  BY <2>1, <2>2, <2>3, <2>4 DEF BacklogInv
<1>5. HeldInv'
  <2>1. \A v \in Workers : held'[v] \in Conns <=> loop'[v] \in Waiting
    BY <1>1, <1>3, ParametersAssumption DEF TypeOK, OwnInv, HeldInv, Waiting
  <2>2. \A v \in Workers : held'[v] \in Conns => v # w /\ held'[v] = held[v]
    BY <1>1, ParametersAssumption DEF TypeOK
  <2>3. \A v \in Workers : held'[v] \in Conns => stage'[held'[v]] = "accepted"
    BY <1>1, <2>2 DEF TypeOK, OwnInv, HeldInv, BacklogInv
  <2>4. \A v, u \in Workers : held'[v] = held'[u] /\ held'[v] \in Conns => v = u
    BY <2>2 DEF TypeOK, OwnInv, HeldInv
  <2>5. \A c \in Conns : stage'[c] = "accepted" => \E v \in Workers : held'[v] = c
    BY <1>1 DEF TypeOK, OwnInv, HeldInv
  <2> QED  BY <2>1, <2>3, <2>4, <2>5 DEF HeldInv
<1> HIDE DEF dropped
<1>6. \A c \in Conns : \A s \in Permitted : stage'[c] = s <=> stage[c] = s
  BY <1>1, <1>2 DEF TypeOK, Permitted, Active
<1>7. QueueInv'
  <2>1. \A p \in Handlers : \A i \in 1 .. Len(queue[p]) : queue[p][i] \in Conns
    BY ElementOfSeq DEF TypeOK
  <2>2. \A c \in Conns : stage'[c] = "queued" <=> stage[c] = "queued"
    BY <1>6 DEF Permitted
  <2> QED  BY <1>1, <2>1, <2>2 DEF OwnInv, QueueInv
<1>8. CurInv'
  <2>1. \A c \in Conns : stage'[c] \in Active <=> stage[c] \in Active
    BY <1>6 DEF Permitted, Active
  <2> QED  BY <1>1, <2>1 DEF OwnInv, CurInv
<1>9. ExitInv'
  <2>1. \A p \in Handlers : p[1] \in Workers
    BY DEF Handlers
  <2> QED  BY <1>1, <1>3, <2>1 DEF OwnInv, ExitInv
<1>10. InService' = InService
  BY <1>6 DEF InService, Permitted, Active
<1> QED  BY <1>4, <1>5, <1>7, <1>8, <1>9, <1>10 DEF OwnInv

(* A connection that is sent leaves its accept loop for one channel.       *)
LEMMA SendKeeps ==
  ASSUME TypeOK, OwnInv, NEW w \in Workers, loop[w] \in Waiting, Send(w),
         UNCHANGED <<handler, cur>>
  PROVE  /\ OwnInv'
         /\ held[w] \in Conns \ InService
         /\ InService' = InService \cup {held[w]}
<1> DEFINE c == held[w]
           t == Target(w)
<1>1. c \in Conns /\ stage[c] = "accepted"
  BY DEF OwnInv, HeldInv
<1>2. t \in Handlers /\ handler[t] # "exited"
  BY TargetType DEF Send, Open
<1>3. /\ stage' = [stage EXCEPT ![c] = "queued"]
      /\ held' = [held EXCEPT ![w] = None]
      /\ loop' = [loop EXCEPT ![w] = "accepting"]
      /\ backlog' = backlog /\ handler' = handler /\ cur' = cur
  BY DEF Send
<1>4. /\ queue' \in [Handlers -> Seq(Conns)]
      /\ \A p \in Handlers \ {t} : queue'[p] = queue[p]
      /\ queue'[t] # <<>>
      /\ Len(queue[t]) \in Nat
      /\ Len(queue'[t]) = Len(queue[t]) + 1
      /\ \A i \in 1 .. Len(queue[t]) : queue'[t][i] = queue[t][i]
      /\ queue'[t][Len(queue[t]) + 1] = c
  <2>1. /\ Append(queue[t], c) \in Seq(Conns)
        /\ Append(queue[t], c) # <<>>
        /\ Len(Append(queue[t], c)) = Len(queue[t]) + 1
        /\ \A i \in 1 .. Len(queue[t]) : Append(queue[t], c)[i] = queue[t][i]
        /\ Append(queue[t], c)[Len(queue[t]) + 1] = c
    BY <1>1, <1>2, AppendProperties DEF TypeOK
  <2>2. queue' = [queue EXCEPT ![t] = Append(queue[t], c)]
    BY <1>2 DEF Send, TypeOK
  <2>3. Len(queue[t]) \in Nat
    BY <1>2, LenProperties DEF TypeOK
  <2> HIDE DEF t, c
  <2> QED  BY <1>2, <2>1, <2>2, <2>3 DEF TypeOK
<1> HIDE DEF t, c
<1>5. BacklogInv'
  BY <1>1, <1>3 DEF TypeOK, OwnInv, BacklogInv
<1>6. HeldInv'
  <2>1. \A v \in Workers : held'[v] \in Conns => v # w /\ held'[v] = held[v]
    BY <1>3, ParametersAssumption DEF TypeOK
  <2>2. \A v \in Workers : held'[v] \in Conns <=> loop'[v] \in Waiting
    BY <1>3, ParametersAssumption DEF TypeOK, OwnInv, HeldInv, Waiting
  <2>3. \A v \in Workers : v # w /\ held[v] \in Conns => held[v] # c
    BY <1>1 DEF OwnInv, HeldInv, c
  <2>4. \A v \in Workers : held'[v] \in Conns => stage'[held'[v]] = "accepted"
    BY <1>3, <2>1, <2>3 DEF TypeOK, OwnInv, HeldInv
  <2>5. \A v, u \in Workers : held'[v] = held'[u] /\ held'[v] \in Conns => v = u
    BY <2>1 DEF OwnInv, HeldInv
  <2>6. \A d \in Conns : stage'[d] = "accepted" => \E v \in Workers : held'[v] = d
    BY <1>1, <1>3 DEF TypeOK, OwnInv, HeldInv, c
  <2> QED  BY <2>2, <2>4, <2>5, <2>6 DEF HeldInv
<1>7. QueueInv'
  <2>1. \A p \in Handlers : \A i \in 1 .. Len(queue[p]) :
           queue[p][i] \in Conns /\ queue[p][i] # c
    BY <1>1, ElementOfSeq DEF TypeOK, OwnInv, QueueInv
  <2>2. \A p \in Handlers : \A i \in 1 .. Len(queue'[p]) :
           \/ i \in 1 .. Len(queue[p]) /\ queue'[p][i] = queue[p][i]
           \/ p = t /\ i = Len(queue[t]) + 1 /\ queue'[p][i] = c
    BY <1>4
  <2>3. ASSUME NEW p \in Handlers, NEW i \in 1 .. Len(queue'[p])
        PROVE  stage'[queue'[p][i]] = "queued"
    <3>1. CASE i \in 1 .. Len(queue[p]) /\ queue'[p][i] = queue[p][i]
      <4>1. stage[queue[p][i]] = "queued" /\ queue[p][i] \in Conns /\ queue[p][i] # c
        BY <2>1, <3>1 DEF OwnInv, QueueInv
      <4> QED  BY <1>3, <3>1, <4>1 DEF TypeOK
    <3>2. CASE queue'[p][i] = c
      BY <1>1, <1>3, <3>2 DEF TypeOK
    <3> QED  BY <2>2, <3>1, <3>2
  <2>4. ASSUME NEW p \in Handlers, NEW r \in Handlers,
               NEW i \in 1 .. Len(queue'[p]), NEW j \in 1 .. Len(queue'[r]),
               queue'[p][i] = queue'[r][j]
        PROVE  p = r /\ i = j
    <3>1. CASE i \in 1 .. Len(queue[p]) /\ queue'[p][i] = queue[p][i]
      <4>1. queue[p][i] # c
        BY <2>1, <3>1
      <4>2. j \in 1 .. Len(queue[r]) /\ queue'[r][j] = queue[r][j]
        BY <2>2, <2>4, <3>1, <4>1
      <4>3. queue[p][i] = queue[r][j]
        BY <2>4, <3>1, <4>2
      <4>4. QueueInv
        BY DEF OwnInv
      <4> QED  BY <3>1, <4>2, <4>3, <4>4 DEF QueueInv
    <3>2. CASE p = t /\ i = Len(queue[t]) + 1 /\ queue'[p][i] = c
      <4>1. ~(j \in 1 .. Len(queue[r]) /\ queue'[r][j] = queue[r][j])
        BY <2>1, <2>4, <3>2
      <4> QED  BY <2>2, <3>2, <4>1
    <3> QED  BY <2>2, <3>1, <3>2
  <2>5. \A p \in Handlers : \A i \in 1 .. Len(queue[p]) :
           i \in 1 .. Len(queue'[p]) /\ queue'[p][i] = queue[p][i]
    BY <1>4
  <2>6. ASSUME NEW d \in Conns, stage'[d] = "queued"
        PROVE  \E p \in Handlers : \E i \in 1 .. Len(queue'[p]) : queue'[p][i] = d
    <3>1. CASE d = c
      <4>1. Len(queue[t]) + 1 \in 1 .. Len(queue'[t])
        BY <1>4
      <4> QED  BY <1>2, <1>4, <3>1, <4>1
    <3>2. CASE d # c
      <4>1. stage[d] = "queued"
        BY <1>3, <2>6, <3>2 DEF TypeOK
      <4> QED  BY <2>5, <4>1 DEF OwnInv, QueueInv
    <3> QED  BY <3>1, <3>2
  <2> QED  BY <2>3, <2>4, <2>6 DEF QueueInv
<1>8. CurInv'
  BY <1>1, <1>3 DEF TypeOK, OwnInv, CurInv, Active
<1>9. ExitInv'
  <2>1. \A p \in Handlers : p[1] \in Workers
    BY DEF Handlers
  <2> QED  BY <1>2, <1>3, <1>4, <2>1 DEF TypeOK, OwnInv, ExitInv, Waiting
<1>10. c \in Conns \ InService /\ InService' = InService \cup {c}
  BY <1>1, <1>3 DEF TypeOK, InService, Permitted, Active
<1> QED  BY <1>5, <1>6, <1>7, <1>8, <1>9, <1>10 DEF OwnInv, c

(* The head of channel p moves on: to the handler, or out of the server.   *)
LEMMA HeadLeaves ==
  ASSUME TypeOK, OwnInv, NEW p \in Handlers, queue[p] # <<>>,
         NEW s, s # "queued", stage' = [stage EXCEPT ![Head(queue[p])] = s],
         queue' = [queue EXCEPT ![p] = Tail(@)]
  PROVE  /\ QueueInv'
         /\ queue' \in [Handlers -> Seq(Conns)]
         /\ Head(queue[p]) \in Conns
         /\ stage[Head(queue[p])] = "queued"
         /\ \A r \in Handlers : queue[r] = <<>> => queue'[r] = <<>>
<1> DEFINE c == Head(queue[p])
<1>1. /\ c = queue[p][1]
      /\ Len(queue[p]) \in Nat \ {0}
      /\ Tail(queue[p]) \in Seq(Conns)
      /\ Len(Tail(queue[p])) = Len(queue[p]) - 1
      /\ \A i \in 1 .. Len(queue[p]) - 1 : Tail(queue[p])[i] = queue[p][i + 1]
  BY HeadTailProperties, EmptySeq DEF TypeOK
<1>2. c \in Conns /\ stage[c] = "queued"
  BY <1>1, ElementOfSeq DEF TypeOK, OwnInv, QueueInv
<1>3. /\ queue' \in [Handlers -> Seq(Conns)]
      /\ queue'[p] = Tail(queue[p])
      /\ \A r \in Handlers \ {p} : queue'[r] = queue[r]
  BY <1>1 DEF TypeOK
<1>4. stage' = [stage EXCEPT ![c] = s]
  OBVIOUS
<1> HIDE DEF c
<1> DEFINE old(r, i) == IF r = p THEN i + 1 ELSE i
<1>5. \A r \in Handlers : \A i \in 1 .. Len(queue'[r]) :
         /\ old(r, i) \in 1 .. Len(queue[r])
         /\ queue'[r][i] = queue[r][old(r, i)]
         /\ r = p => old(r, i) # 1
  BY <1>1, <1>3
<1>6. \A r \in Handlers : \A i, j \in 1 .. Len(queue'[r]) : old(r, i) = old(r, j) => i = j
  OBVIOUS
<1> HIDE DEF old
<1>7. QueueInv
  BY DEF OwnInv
<1>8. ASSUME NEW r \in Handlers, NEW i \in 1 .. Len(queue'[r])
      PROVE  stage'[queue'[r][i]] = "queued"
  <2> DEFINE k == old(r, i)
  <2>1. k \in 1 .. Len(queue[r]) /\ queue'[r][i] = queue[r][k] /\ (r = p => k # 1)
    BY <1>5
  <2> HIDE DEF k
  <2>2. stage[queue[r][k]] = "queued" /\ queue[r][k] \in Conns
    BY <1>7, <2>1, ElementOfSeq DEF QueueInv, TypeOK
  <2>3. queue[r][k] # c
    <3>1. 1 \in 1 .. Len(queue[p])
      BY <1>1
    <3> QED  BY <1>1, <1>7, <2>1, <3>1 DEF QueueInv
  <2> QED  BY <1>4, <2>1, <2>2, <2>3 DEF TypeOK
<1>9. ASSUME NEW r \in Handlers, NEW q \in Handlers,
             NEW i \in 1 .. Len(queue'[r]), NEW j \in 1 .. Len(queue'[q]),
             queue'[r][i] = queue'[q][j]
      PROVE  r = q /\ i = j
  <2>1. queue[r][old(r, i)] = queue[q][old(q, j)]
    BY <1>5, <1>9
  <2>2. r = q /\ old(r, i) = old(q, j)
    BY <1>5, <1>7, <2>1 DEF QueueInv
  <2> QED  BY <1>6, <2>2
<1>10. ASSUME NEW d \in Conns, stage'[d] = "queued"
       PROVE  \E r \in Handlers : \E i \in 1 .. Len(queue'[r]) : queue'[r][i] = d
  <2>1. d # c /\ stage[d] = "queued"
    BY <1>2, <1>4, <1>10 DEF TypeOK
  <2>2. PICK r \in Handlers : \E k \in 1 .. Len(queue[r]) : queue[r][k] = d
    BY <1>7, <2>1 DEF QueueInv
  <2>3. PICK k \in 1 .. Len(queue[r]) : queue[r][k] = d
    BY <2>2
  <2>4. CASE r = p
    <3>1. k - 1 \in 1 .. Len(queue'[r]) /\ k - 1 \in 1 .. Len(queue[p]) - 1
      BY <1>1, <1>3, <2>1, <2>3, <2>4
    <3>2. queue'[r][k - 1] = d
      BY <1>1, <1>3, <2>3, <2>4, <3>1
    <3> QED  BY <3>1, <3>2
  <2>5. CASE r # p
    BY <1>3, <2>3, <2>5
  <2> QED  BY <2>4, <2>5
<1>11. QueueInv'
  BY <1>8, <1>9, <1>10 DEF QueueInv
<1> QED  BY <1>2, <1>3, <1>11 DEF c

(* The accept loops' connections stay theirs.                              *)
LEMMA LoopsUntouched ==
  ASSUME TypeOK, OwnInv, UNCHANGED <<backlog, held>>, SameLoops(loop),
         \A c \in Conns : \A s \in {"backlog", "accepted"} : stage'[c] = s <=> stage[c] = s
  PROVE  BacklogInv' /\ HeldInv'
<1>1. \A c \in Conns : /\ stage'[c] = "backlog" <=> stage[c] = "backlog"
                       /\ stage'[c] = "accepted" <=> stage[c] = "accepted"
  OBVIOUS
<1>2. BacklogInv'
  BY <1>1 DEF TypeOK, OwnInv, BacklogInv, SameLoops
<1>3. HeldInv'
  BY <1>1 DEF OwnInv, HeldInv, SameLoops
<1> QED  BY <1>2, <1>3

(* A busy handler is done with its connection.                             *)
LEMMA HandlerEnds ==
  ASSUME TypeOK, OwnInv, NEW p \in Handlers, handler[p] = "busy",
         NEW s \in Ended, stage' = [stage EXCEPT ![cur[p]] = s],
         NEW h \in {"idle", "unwinding"}, handler' = [handler EXCEPT ![p] = h],
         cur' = [cur EXCEPT ![p] = None],
         UNCHANGED <<backlog, held, queue>>, SameLoops(loop)
  PROVE  /\ OwnInv'
         /\ cur[p] \in InService
         /\ InService' = InService \ {cur[p]}
<1> DEFINE c == cur[p]
<1>1. c \in Conns /\ stage[c] \in Active
  BY DEF OwnInv, CurInv
<1>2. stage' = [stage EXCEPT ![c] = s] /\ cur' = [cur EXCEPT ![p] = None]
  OBVIOUS
<1>3. \A r \in Handlers : r # p /\ cur[r] \in Conns => cur[r] # c
  BY DEF OwnInv, CurInv
<1>4. \A d \in Conns : stage'[d] = IF d = c THEN s ELSE stage[d]
  BY <1>2 DEF TypeOK
<1> HIDE DEF c
<1>5. \A d \in Conns : \A x \in {"backlog", "accepted"} : stage'[d] = x <=> stage[d] = x
  BY <1>1, <1>4 DEF Active, Ended
<1>6. BacklogInv' /\ HeldInv'
  BY <1>5, LoopsUntouched
<1>7. QueueInv'
  <2>1. \A r \in Handlers : \A i \in 1 .. Len(queue[r]) :
           queue[r][i] \in Conns /\ stage[queue[r][i]] = "queued"
    BY ElementOfSeq DEF TypeOK, OwnInv, QueueInv
  <2>2. \A d \in Conns : stage'[d] = "queued" <=> stage[d] = "queued"
    BY <1>1, <1>4 DEF Active, Ended
  <2> QED  BY <2>1, <2>2 DEF OwnInv, QueueInv
<1>8. CurInv'
  <2>1. \A r \in Handlers : cur'[r] \in Conns => r # p /\ cur'[r] = cur[r]
    BY <1>2, ParametersAssumption DEF TypeOK
  <2>2. \A r \in Handlers : cur'[r] \in Conns <=> handler'[r] = "busy"
    BY <1>2, ParametersAssumption DEF TypeOK, OwnInv, CurInv
  <2>3. \A r \in Handlers : cur'[r] \in Conns => stage'[cur'[r]] \in Active
    BY <1>3, <1>4, <2>1 DEF OwnInv, CurInv
  <2>4. \A r, q \in Handlers : cur'[r] = cur'[q] /\ cur'[r] \in Conns => r = q
    BY <2>1 DEF OwnInv, CurInv
  <2>5. \A d \in Conns : stage'[d] \in Active => \E r \in Handlers : cur'[r] = d
    BY <1>2, <1>4 DEF TypeOK, OwnInv, CurInv, Active, Ended, c
  <2> QED  BY <2>2, <2>3, <2>4, <2>5 DEF CurInv
<1>9. ExitInv'
  <2>1. \A r \in Handlers : r[1] \in Workers
    BY DEF Handlers
  <2> QED  BY <2>1 DEF TypeOK, OwnInv, ExitInv, SameLoops
<1>10. c \in InService /\ InService' = InService \ {c}
  BY <1>1, <1>4 DEF InService, Permitted, Active, Ended
<1> QED  BY <1>6, <1>7, <1>8, <1>9, <1>10 DEF OwnInv, c

(* Permits of one connection, given back.                                  *)
LEMMA OneLess ==
  ASSUME NEW c \in InService, InService' = InService \ {c}
  PROVE  Cardinality(InService') = Cardinality(InService) - 1
BY InServiceFinite, FS_RemoveElement

(* A permit of one connection, taken.                                      *)
LEMMA OneMore ==
  ASSUME NEW c \in Conns \ InService, InService' = InService \cup {c}
  PROVE  Cardinality(InService') = Cardinality(InService) + 1
BY InServiceFinite, FS_AddElement

(* The sum of PermitConservation is kept by a step that moves one permit   *)
(* from a connection to the semaphore.                                     *)
LEMMA ReleaseConserves ==
  ASSUME TypeOK, WaitInv, PermitConservation, Release(loop, waiters),
         NEW c \in InService, InService' = InService \ {c}
  PROVE  /\ permits' \in Nat
         /\ loop' \in [Workers -> LoopStates]
         /\ waiters' \in Seq(Workers)
         /\ SameLoops(loop)
         /\ WaitInv'
         /\ PermitConservation'
<1>1. permits \in Nat /\ loop \in [Workers -> LoopStates] /\ waiters \in Seq(Workers)
  BY DEF TypeOK, LoopStates
<1>2. WaitOK(permits, loop, waiters)
  BY DEF WaitInv
<1>3. /\ SameLoops(loop)
      /\ WaitOK(permits', loop', waiters')
      /\ Unused(permits', loop') = Unused(permits, loop) + 1
  BY <1>1, <1>2, ReleaseKeeps
<1>4. Cardinality(InService') = Cardinality(InService) - 1
  BY OneLess
<1>5. Unused(permits, loop) \in Nat /\ Cardinality(InService) \in Nat
  BY <1>1, UnusedType, InServiceFinite
<1>6. Unused(permits, loop) + Cardinality(InService) = MaxConnections
  BY ConservationForm
<1>7. PermitConservation'
  <2>1. Unused(permits', loop') + Cardinality(InService') = MaxConnections
    BY <1>3, <1>4, <1>5, <1>6
  <2> QED  BY <2>1 DEF PermitConservation, Unused, Granted
<1>8. WaitInv'
  BY <1>3 DEF WaitInv
<1> QED  BY <1>1, <1>3, <1>7, <1>8, ReleaseType

-----------------------------------------------------------------------------
(* One lemma per action.                                                   *)

(* Loops that do not move are the same loops.                              *)
LEMMA SameLoopsRefl == ASSUME TypeOK, UNCHANGED loop PROVE SameLoops(loop)
BY DEF TypeOK, SameLoops, LoopStates

(* Steps that leave the semaphore and the loops alone.                     *)
LEMMA SemaphoreUntouched ==
  ASSUME WaitInv, PermitConservation, UNCHANGED <<loop, permits, waiters>>,
         InService' = InService
  PROVE  WaitInv' /\ PermitConservation'
BY DEF WaitInv, WaitOK, PermitConservation, Granted

(* A client connects: only the listen queue of one worker changes.         *)
LEMMA ConnectStep ==
  ASSUME IInv, NEW c \in Conns, NEW w \in Workers, Connect(c, w)
  PROVE  IInv'
<1> USE DEF Connect, poolVars
<1>1. TypeOK'
  BY DEF IInv, TypeOK
<1>2. BacklogInv'
  BY DEF IInv, TypeOK, OwnInv, BacklogInv
<1>3. HeldInv'
  BY DEF IInv, TypeOK, OwnInv, HeldInv
<1>4. QueueInv'
  BY DEF IInv, TypeOK, OwnInv, QueueInv
<1>5. CurInv'
  BY DEF IInv, TypeOK, OwnInv, CurInv, Active
<1>6. ExitInv'
  BY DEF IInv, OwnInv, ExitInv
<1>7. InService' = InService
  BY DEF IInv, TypeOK, InService, Permitted, Active
<1>8. WaitInv' /\ PermitConservation'
  BY <1>7, SemaphoreUntouched DEF IInv
<1>9. CleanInv'
  BY DEF CleanInv, Alive
<1> QED  BY <1>1, <1>2, <1>3, <1>4, <1>5, <1>6, <1>8, <1>9 DEF IInv, OwnInv

(* A connection moves from a listen queue into the hands of its loop.      *)
LEMMA AcceptStep ==
  ASSUME IInv, NEW w \in Workers, Accept(w)
  PROVE  IInv'
<1> USE DEF poolVars
<1>1. PICK c \in backlog[w] :
         /\ stage' = [stage EXCEPT ![c] = "accepted"]
         /\ backlog' = [backlog EXCEPT ![w] = @ \ {c}]
         /\ held' = [held EXCEPT ![w] = c]
  BY DEF Accept
<1>2. c \in Conns /\ stage[c] = "backlog"
  BY DEF IInv, TypeOK, OwnInv, BacklogInv
<1>3. /\ loop[w] = "accepting"
      /\ loop' = [loop EXCEPT ![w] = "acquiring"]
      /\ UNCHANGED <<phase, next, permits, waiters, queue, handler, cur>>
  BY DEF Accept
<1>4. TypeOK'
  BY <1>1, <1>2, <1>3 DEF IInv, TypeOK
<1>5. BacklogInv'
  BY <1>1, <1>2, <1>3 DEF IInv, TypeOK, OwnInv, BacklogInv
<1>6. HeldInv'
  <2>1. \A v \in Workers : held[v] # c
    BY <1>2 DEF IInv, OwnInv, HeldInv
  <2>2. held[w] \notin Conns
    BY <1>3 DEF IInv, OwnInv, HeldInv, Waiting
  <2>3. \A v \in Workers : held'[v] \in Conns <=> loop'[v] \in Waiting
    BY <1>1, <1>2, <1>3 DEF IInv, TypeOK, OwnInv, HeldInv, Waiting
  <2>4. \A v \in Workers : held'[v] \in Conns => stage'[held'[v]] = "accepted"
    BY <1>1, <1>2 DEF IInv, TypeOK, OwnInv, HeldInv
  <2>5. \A v, u \in Workers : held'[v] = held'[u] /\ held'[v] \in Conns => v = u
    BY <1>1, <2>1 DEF IInv, TypeOK, OwnInv, HeldInv
  <2>6. ASSUME NEW d \in Conns, stage'[d] = "accepted"
        PROVE  \E v \in Workers : held'[v] = d
    <3>1. CASE d = c
      BY <1>1, <3>1 DEF IInv, TypeOK
    <3>2. CASE d # c
      <4>1. PICK v \in Workers : held[v] = d
        BY <1>1, <2>6, <3>2 DEF IInv, TypeOK, OwnInv, HeldInv
      <4>2. v # w
        BY <2>2, <4>1
      <4> QED  BY <1>1, <4>1, <4>2 DEF IInv, TypeOK
    <3> QED  BY <3>1, <3>2
  <2> QED  BY <2>3, <2>4, <2>5, <2>6 DEF HeldInv
<1>7. QueueInv'
  BY <1>1, <1>2, <1>3 DEF IInv, TypeOK, OwnInv, QueueInv
<1>8. CurInv'
  BY <1>1, <1>2, <1>3 DEF IInv, TypeOK, OwnInv, CurInv, Active
<1>9. ExitInv'
  BY <1>3 DEF IInv, TypeOK, OwnInv, ExitInv, Handlers
<1>10. WaitInv'
  <2>1. WaitOK(permits, loop', waiters)
    BY <1>3, WaitOKSame DEF IInv, TypeOK, WaitInv, LoopStates
  <2> QED  BY <1>3, <2>1 DEF WaitInv
<1>11. PermitConservation'
  <2>1. InService' = InService /\ Granted' = Granted
    BY <1>1, <1>2, <1>3 DEF IInv, TypeOK, InService, Granted, Permitted, Active
  <2> QED  BY <1>3, <2>1 DEF IInv, PermitConservation
<1>12. CleanInv'
  BY DEF Accept, CleanInv, Alive
<1> QED  BY <1>4, <1>5, <1>6, <1>7, <1>8, <1>9, <1>10, <1>11, <1>12 DEF IInv, OwnInv

(* The loop of w ends without touching the semaphore.                      *)
LEMMA PlainStop ==
  ASSUME IInv, NEW w \in Workers, loop[w] \in {"accepting", "acquiring"},
         LoopEnds(w), loop' = Stopped(w), UNCHANGED <<permits, waiters>>,
         UNCHANGED poolVars
  PROVE  /\ loop' \in [Workers -> LoopStates]
         /\ OwnInv' /\ WaitInv' /\ PermitConservation'
<1>1. loop \in [Workers -> LoopStates] /\ waiters \in Seq(Workers)
  BY DEF IInv, TypeOK, LoopStates
<1>2. loop' \in [Workers -> LoopStates] /\ SameLoops(Stopped(w))
  BY <1>1 DEF Stopped, SameLoops, LoopStates
<1>3. OwnInv' /\ InService' = InService
  BY <1>2, LoopEndsKeeps DEF IInv
<1>4. WaitInv'
  <2>1. WaitOK(permits, Stopped(w), waiters)
    BY <1>1, WaitOKSame DEF IInv, WaitInv, Stopped
  <2> QED  BY <2>1 DEF WaitInv
<1>5. PermitConservation'
  <2>1. Granted' = Granted
    BY <1>1 DEF Granted, Stopped
  <2> QED  BY <1>3, <2>1 DEF IInv, PermitConservation
<1> QED  BY <1>2, <1>3, <1>4, <1>5

(* The loop of w ends with a permit assigned, and passes it on.            *)
LEMMA GrantedStop ==
  ASSUME IInv, NEW w \in Workers, loop[w] = "granted",
         LoopEnds(w), Release(Stopped(w), waiters), UNCHANGED poolVars
  PROVE  /\ permits' \in Nat
         /\ loop' \in [Workers -> LoopStates]
         /\ waiters' \in Seq(Workers)
         /\ OwnInv' /\ WaitInv' /\ PermitConservation'
<1>1. /\ permits \in Nat
      /\ loop \in [Workers -> LoopStates]
      /\ waiters \in Seq(Workers)
  BY DEF IInv, TypeOK, LoopStates
<1>2. Stopped(w) \in [Workers -> LoopStates]
  BY <1>1 DEF Stopped, LoopStates
<1>3. WaitOK(permits, Stopped(w), waiters)
  BY <1>1, WaitOKSame DEF IInv, WaitInv, Stopped
<1>4. /\ SameLoops(Stopped(w))
      /\ WaitOK(permits', loop', waiters')
      /\ Unused(permits', loop') = Unused(permits, Stopped(w)) + 1
  BY <1>1, <1>2, <1>3, ReleaseKeeps
<1>5. OwnInv' /\ InService' = InService
  BY <1>4, LoopEndsKeeps DEF IInv
<1>6. Unused(permits, Stopped(w)) = Unused(permits, loop) - 1
  BY <1>1, UnusedLess DEF Stopped
<1>7. PermitConservation'
  <2>1. Unused(permits, loop) \in Nat /\ Cardinality(InService) \in Nat
    BY <1>1, UnusedType, InServiceFinite
  <2>2. Unused(permits, loop) + Cardinality(InService) = MaxConnections
    BY ConservationForm DEF IInv
  <2>3. Unused(permits', loop') + Cardinality(InService') = MaxConnections
    BY <1>4, <1>5, <1>6, <2>1, <2>2
  <2> QED  BY <2>3 DEF PermitConservation, Unused, Granted
<1> QED  BY <1>1, <1>2, <1>4, <1>5, <1>7, ReleaseType DEF WaitInv

(* A waiting loop leaves the semaphore's queue.                            *)
LEMMA WaitingStop ==
  ASSUME IInv, NEW w \in Workers, loop[w] = "waiting",
         LoopEnds(w), loop' = Stopped(w), UNCHANGED permits, UNCHANGED poolVars,
         NEW i \in DOMAIN waiters, waiters[i] = w, waiters' = RemoveAt(waiters, i)
  PROVE  /\ loop' \in [Workers -> LoopStates]
         /\ waiters' \in Seq(Workers)
         /\ OwnInv' /\ WaitInv' /\ PermitConservation'
<1>1. loop \in [Workers -> LoopStates] /\ waiters \in Seq(Workers)
  BY DEF IInv, TypeOK, LoopStates
<1>2. loop' \in [Workers -> LoopStates] /\ SameLoops(Stopped(w))
  BY <1>1 DEF Stopped, SameLoops, LoopStates
<1>3. OwnInv' /\ InService' = InService
  BY <1>2, LoopEndsKeeps DEF IInv
<1>4. Len(waiters) \in Nat /\ i \in 1 .. Len(waiters)
  BY <1>1, LenProperties
<1>5. /\ waiters' \in Seq(Workers)
      /\ Len(waiters') = Len(waiters) - 1
      /\ \A j \in 1 .. Len(waiters) - 1 :
            waiters'[j] = IF j < i THEN waiters[j] ELSE waiters[j + 1]
  BY <1>1, <1>4, RemoveAtType
<1> DEFINE old(j) == IF j < i THEN j ELSE j + 1
<1>6. \A j \in 1 .. Len(waiters') :
         old(j) \in 1 .. Len(waiters) /\ old(j) # i /\ waiters'[j] = waiters[old(j)]
  BY <1>4, <1>5
<1>7. \A j, k \in 1 .. Len(waiters') : old(j) = old(k) => j = k
  BY <1>4, <1>5
<1>8. \A k \in 1 .. Len(waiters) : k # i => \E j \in 1 .. Len(waiters') : old(j) = k
  <2> SUFFICES ASSUME NEW k \in 1 .. Len(waiters), k # i
               PROVE  \E j \in 1 .. Len(waiters') : old(j) = k
    OBVIOUS
  <2>1. CASE k < i
    BY <1>4, <1>5, <2>1
  <2>2. CASE k > i
    <3>1. k - 1 \in 1 .. Len(waiters') /\ old(k - 1) = k
      BY <1>4, <1>5, <2>2
    <3> QED  BY <3>1
  <2> QED  BY <1>4, <2>1, <2>2
<1> HIDE DEF old
<1>9. WaitOK(permits, loop, waiters)
  BY DEF IInv, WaitInv
<1>10. \A v \in Workers : loop'[v] = IF v = w THEN "stopped" ELSE loop[v]
  BY <1>1 DEF Stopped
<1>11. permits > 0 => waiters' = <<>>
  BY <1>4, <1>9 DEF WaitOK
<1>12. ASSUME NEW j \in 1 .. Len(waiters')
       PROVE  loop'[waiters'[j]] = "waiting"
  <2>1. /\ old(j) \in 1 .. Len(waiters) /\ old(j) # i
        /\ waiters'[j] = waiters[old(j)]
    BY <1>6
  <2>2. waiters[old(j)] \in Workers /\ loop[waiters[old(j)]] = "waiting"
    BY <1>1, <1>9, <2>1, ElementOfSeq DEF WaitOK
  <2>3. waiters[old(j)] # w
    BY <1>4, <1>9, <2>1 DEF WaitOK
  <2> QED  BY <1>10, <2>1, <2>2, <2>3
<1>13. \A j, k \in 1 .. Len(waiters') : waiters'[j] = waiters'[k] => j = k
  BY <1>6, <1>7, <1>9 DEF WaitOK
<1>14. ASSUME NEW v \in Workers, loop'[v] = "waiting"
       PROVE  \E j \in 1 .. Len(waiters') : waiters'[j] = v
  <2>1. v # w /\ loop[v] = "waiting"
    BY <1>10, <1>14
  <2>2. PICK k \in 1 .. Len(waiters) : waiters[k] = v
    BY <1>9, <2>1 DEF WaitOK
  <2>3. PICK j \in 1 .. Len(waiters') : old(j) = k
    BY <1>8, <2>1, <2>2
  <2> QED  BY <1>6, <2>2, <2>3
<1>15. WaitInv'
  BY <1>11, <1>12, <1>13, <1>14 DEF WaitInv, WaitOK
<1>16. PermitConservation'
  <2>1. Granted' = Granted
    BY <1>1 DEF Granted, Stopped
  <2> QED  BY <1>3, <2>1 DEF IInv, PermitConservation
<1> QED  BY <1>2, <1>3, <1>5, <1>15, <1>16

(* A failed accept ends its loop, which holds no permit.                   *)
LEMMA AcceptErrorStep ==
  ASSUME IInv, NEW w \in Workers, AcceptError(w)
  PROVE  IInv'
<1>1. /\ loop' \in [Workers -> LoopStates]
      /\ OwnInv' /\ WaitInv' /\ PermitConservation'
  BY PlainStop DEF AcceptError
<1>2. TypeOK'
  BY <1>1, LoopEndsType DEF IInv, TypeOK, AcceptError, LoopStates, poolVars
<1>3. CleanInv'
  BY DEF AcceptError, CleanInv, Alive
<1> QED  BY <1>1, <1>2, <1>3 DEF IInv

(* A free permit becomes that of the connection sent, or stays free.       *)
LEMMA AcquireAndDispatchStep ==
  ASSUME IInv, NEW w \in Workers, AcquireAndDispatch(w)
  PROVE  IInv'
<1>1. /\ loop[w] = "acquiring" /\ permits > 0
      /\ UNCHANGED <<phase, handler, cur>>
  BY DEF AcquireAndDispatch
<1>2. loop \in [Workers -> LoopStates] /\ waiters \in Seq(Workers) /\ permits \in Nat
  BY DEF IInv, TypeOK, LoopStates
<1>3. next' \in [Workers -> 0 .. CounterSpan - 1]
  BY ParametersAssumption DEF IInv, TypeOK, AcquireAndDispatch, Advance
<1>4. CleanInv'
  BY DEF AcquireAndDispatch, CleanInv, Alive
<1>5. CASE Send(w) /\ permits' = permits - 1
  <2>1. held[w] \in Conns
    BY <1>1 DEF IInv, OwnInv, HeldInv, Waiting
  <2>2. /\ OwnInv'
        /\ held[w] \in Conns \ InService
        /\ InService' = InService \cup {held[w]}
    BY <1>1, <1>5, SendKeeps DEF IInv, Waiting
  <2>3. TypeOK'
    <3>1. /\ stage' \in [Conns -> {"new", "backlog", "accepted", "queued"}
                                      \cup Active \cup Ended]
          /\ held' \in [Workers -> Conns \cup {None}]
          /\ queue' \in [Handlers -> Seq(Conns)]
          /\ loop' \in [Workers -> LoopStates]
      BY <1>5, <2>1, SendType DEF IInv
    <3>2. permits' \in Nat
      BY <1>1, <1>2, <1>5
    <3>3. backlog' = backlog /\ waiters' = waiters
      BY <1>5 DEF Send
    <3> QED  BY <1>1, <1>3, <3>1, <3>2, <3>3 DEF IInv, TypeOK, LoopStates
  <2>4. loop' = [loop EXCEPT ![w] = "accepting"] /\ waiters' = waiters
    BY <1>5 DEF Send
  <2>5. WaitInv'
    <3>1. WaitOK(permits, loop', waiters)
      BY <1>1, <1>2, <2>4, WaitOKSame DEF IInv, WaitInv
    <3>2. waiters = <<>>
      BY <1>1 DEF IInv, WaitInv, WaitOK
    <3> QED  BY <2>4, <3>1, <3>2 DEF WaitInv, WaitOK
  <2>6. PermitConservation'
    <3>1. Granted' = Granted
      BY <1>1, <1>2, <2>4 DEF Granted
    <3>2. Cardinality(InService') = Cardinality(InService) + 1
      BY <2>2, OneMore
    <3>3. Cardinality(Granted) \in Nat /\ Cardinality(InService) \in Nat
      BY ParametersAssumption, FS_Subset, FS_CardinalityType, InServiceFinite DEF Granted
    <3> QED  BY <1>2, <1>5, <3>1, <3>2, <3>3 DEF IInv, PermitConservation
  <2> QED  BY <1>4, <2>2, <2>3, <2>5, <2>6 DEF IInv
<1>6. CASE SendFails(w) /\ loop' = Stopped(w) /\ UNCHANGED <<permits, waiters>>
  <2>1. UNCHANGED poolVars /\ LoopEnds(w)
    BY <1>1, <1>6 DEF SendFails, poolVars
  <2>2. /\ loop' \in [Workers -> LoopStates]
        /\ OwnInv' /\ WaitInv' /\ PermitConservation'
    BY <1>1, <1>6, <2>1, PlainStop
  <2>3. TypeOK'
    BY <1>1, <1>3, <1>6, <2>1, <2>2, LoopEndsType DEF IInv, TypeOK, LoopStates, poolVars
  <2> QED  BY <1>4, <2>2, <2>3 DEF IInv
<1> QED  BY <1>5, <1>6 DEF AcquireAndDispatch

(* A worker joins the end of the queue when no permit is free.             *)
LEMMA AwaitPermitStep ==
  ASSUME IInv, NEW w \in Workers, AwaitPermit(w)
  PROVE  IInv'
<1>1. /\ loop[w] = "acquiring" /\ permits = 0
      /\ loop' = [loop EXCEPT ![w] = "waiting"]
      /\ waiters' = Append(waiters, w)
      /\ UNCHANGED <<phase, stage, backlog, held, next, permits, queue, handler, cur>>
  BY DEF AwaitPermit, poolVars
<1>2. loop \in [Workers -> LoopStates] /\ waiters \in Seq(Workers)
  BY DEF IInv, TypeOK, LoopStates
<1>3. /\ waiters' \in Seq(Workers)
      /\ Len(waiters) \in Nat
      /\ Len(waiters') = Len(waiters) + 1
      /\ \A i \in 1 .. Len(waiters) : waiters'[i] = waiters[i]
      /\ waiters'[Len(waiters) + 1] = w
  BY <1>1, <1>2, AppendProperties, LenProperties
<1>4. TypeOK'
  BY <1>1, <1>3 DEF IInv, TypeOK
<1>5. OwnInv'
  <2>1. BacklogInv'
    BY <1>1 DEF IInv, TypeOK, OwnInv, BacklogInv
  <2>2. HeldInv'
    BY <1>1 DEF IInv, TypeOK, OwnInv, HeldInv, Waiting
  <2>3. QueueInv' /\ CurInv'
    BY <1>1 DEF IInv, OwnInv, QueueInv, CurInv
  <2>4. ExitInv'
    BY <1>1 DEF IInv, TypeOK, OwnInv, ExitInv, Handlers
  <2> QED  BY <2>1, <2>2, <2>3, <2>4 DEF OwnInv
<1>6. WaitInv'
  <2>1. WaitOK(permits, loop, waiters)
    BY DEF IInv, WaitInv
  <2>2. \A i \in 1 .. Len(waiters) : waiters[i] \in Workers /\ waiters[i] # w
    BY <1>1, <1>2, <2>1, ElementOfSeq DEF WaitOK
  <2>3. \A i \in 1 .. Len(waiters') :
           \/ i \in 1 .. Len(waiters) /\ waiters'[i] = waiters[i]
           \/ i = Len(waiters) + 1 /\ waiters'[i] = w
    BY <1>3
  <2>4. \A i \in 1 .. Len(waiters') : loop'[waiters'[i]] = "waiting"
    BY <1>1, <1>2, <2>1, <2>2, <2>3 DEF WaitOK
  <2>5. \A i, j \in 1 .. Len(waiters') : waiters'[i] = waiters'[j] => i = j
    BY <2>1, <2>2, <2>3 DEF WaitOK
  <2>6. ASSUME NEW v \in Workers, loop'[v] = "waiting"
        PROVE  \E i \in 1 .. Len(waiters') : waiters'[i] = v
    <3>1. CASE v = w
      <4>1. Len(waiters) + 1 \in 1 .. Len(waiters')
        BY <1>3
      <4> QED  BY <1>3, <3>1, <4>1
    <3>2. CASE v # w
      <4>1. PICK i \in 1 .. Len(waiters) : waiters[i] = v
        BY <1>1, <1>2, <2>1, <2>6, <3>2 DEF WaitOK
      <4>2. i \in 1 .. Len(waiters') /\ waiters'[i] = v
        BY <1>3, <4>1
      <4> QED  BY <4>2
    <3> QED  BY <3>1, <3>2
  <2> QED  BY <1>1, <2>4, <2>5, <2>6 DEF WaitInv, WaitOK
<1>7. PermitConservation'
  <2>1. Granted' = Granted /\ InService' = InService
    BY <1>1, <1>2 DEF Granted, InService
  <2> QED  BY <1>1, <2>1 DEF IInv, PermitConservation
<1>8. CleanInv'
  BY DEF AwaitPermit, CleanInv, Alive
<1> QED  BY <1>4, <1>5, <1>6, <1>7, <1>8 DEF IInv

(* An assigned permit becomes that of the connection, or is passed on.     *)
LEMMA DispatchGrantedStep ==
  ASSUME IInv, NEW w \in Workers, DispatchGranted(w)
  PROVE  IInv'
<1>1. loop[w] = "granted" /\ UNCHANGED <<phase, handler, cur>>
  BY DEF DispatchGranted
<1>2. loop \in [Workers -> LoopStates] /\ waiters \in Seq(Workers) /\ permits \in Nat
  BY DEF IInv, TypeOK, LoopStates
<1>3. next' \in [Workers -> 0 .. CounterSpan - 1]
  BY ParametersAssumption DEF IInv, TypeOK, DispatchGranted, Advance
<1>4. CleanInv'
  BY DEF DispatchGranted, CleanInv, Alive
<1>5. CASE Send(w) /\ UNCHANGED permits
  <2>1. held[w] \in Conns
    BY <1>1 DEF IInv, OwnInv, HeldInv, Waiting
  <2>2. /\ OwnInv'
        /\ held[w] \in Conns \ InService
        /\ InService' = InService \cup {held[w]}
    BY <1>1, <1>5, SendKeeps DEF IInv, Waiting
  <2>3. TypeOK'
    BY <1>1, <1>2, <1>3, <1>5, <2>1, SendType DEF IInv, TypeOK, Send, LoopStates
  <2>4. loop' = [loop EXCEPT ![w] = "accepting"] /\ waiters' = waiters
    BY <1>5 DEF Send
  <2>5. WaitInv'
    <3>1. WaitOK(permits, loop', waiters)
      BY <1>1, <1>2, <2>4, WaitOKSame DEF IInv, WaitInv
    <3> QED  BY <1>5, <2>4, <3>1 DEF WaitInv
  <2>6. PermitConservation'
    <3>1. Unused(permits, loop') = Unused(permits, loop) - 1
      BY <1>1, <1>2, <2>4, UnusedLess
    <3>2. Cardinality(InService') = Cardinality(InService) + 1
      BY <2>2, OneMore
    <3>3. Unused(permits, loop) \in Nat /\ Cardinality(InService) \in Nat
      BY <1>2, UnusedType, InServiceFinite
    <3>4. Unused(permits, loop) + Cardinality(InService) = MaxConnections
      BY ConservationForm DEF IInv
    <3>5. Unused(permits', loop') + Cardinality(InService') = MaxConnections
      BY <1>5, <3>1, <3>2, <3>3, <3>4
    <3> QED  BY <3>5 DEF PermitConservation, Unused, Granted
  <2> QED  BY <1>4, <2>2, <2>3, <2>5, <2>6 DEF IInv
<1>6. CASE SendFails(w) /\ Release(Stopped(w), waiters)
  <2>1. UNCHANGED poolVars /\ LoopEnds(w)
    BY <1>1, <1>6 DEF SendFails, poolVars
  <2>2. /\ permits' \in Nat
        /\ loop' \in [Workers -> LoopStates]
        /\ waiters' \in Seq(Workers)
        /\ OwnInv' /\ WaitInv' /\ PermitConservation'
    BY <1>1, <1>6, <2>1, GrantedStop
  <2>3. TypeOK'
    BY <1>1, <1>3, <2>1, <2>2, LoopEndsType DEF IInv, TypeOK, LoopStates, poolVars
  <2> QED  BY <1>4, <2>2, <2>3 DEF IInv
<1> QED  BY <1>5, <1>6 DEF DispatchGranted

(* Shutdown ends a loop from any of its states without losing a permit.    *)
LEMMA ObserveShutdownStep ==
  ASSUME IInv, NEW w \in Workers, ObserveShutdown(w)
  PROVE  IInv'
<1>1. LoopEnds(w) /\ UNCHANGED <<phase, next, poolVars>> /\ phase = "draining"
  BY DEF ObserveShutdown
<1>2. CleanInv'
  BY <1>1 DEF CleanInv
<1>3. /\ permits' \in Nat
      /\ loop' \in [Workers -> LoopStates]
      /\ waiters' \in Seq(Workers)
      /\ OwnInv' /\ WaitInv' /\ PermitConservation'
  <2>1. CASE /\ loop[w] \in {"accepting", "acquiring"}
             /\ loop' = Stopped(w)
             /\ UNCHANGED <<permits, waiters>>
    BY <1>1, <2>1, PlainStop DEF IInv, TypeOK
  <2>2. CASE /\ loop[w] = "waiting"
             /\ loop' = Stopped(w)
             /\ \E i \in DOMAIN waiters :
                   waiters[i] = w /\ waiters' = RemoveAt(waiters, i)
             /\ UNCHANGED permits
    BY <1>1, <2>2, WaitingStop DEF IInv, TypeOK
  <2>3. CASE loop[w] = "granted" /\ Release(Stopped(w), waiters)
    BY <1>1, <2>3, GrantedStop
  <2> QED  BY <2>1, <2>2, <2>3 DEF ObserveShutdown
<1>4. TypeOK'
  BY <1>1, <1>3, LoopEndsType DEF IInv, TypeOK, LoopStates, poolVars
<1> QED  BY <1>2, <1>3, <1>4 DEF IInv

(* The head of a channel becomes the connection its handler serves.        *)
LEMMA ReceiveStep ==
  ASSUME IInv, NEW p \in Handlers, Receive(p)
  PROVE  IInv'
<1> DEFINE c == Head(queue[p])
<1>1. /\ handler[p] = "idle" /\ queue[p] # <<>>
      /\ handler' = [handler EXCEPT ![p] = "busy"]
      /\ cur' = [cur EXCEPT ![p] = c]
      /\ queue' = [queue EXCEPT ![p] = Tail(@)]
      /\ stage' = [stage EXCEPT ![c] = "sniffing"]
      /\ UNCHANGED <<phase, backlog, loop, held, next, permits, waiters>>
  BY DEF Receive, TakeHead, loopVars
<1>2. /\ QueueInv'
      /\ queue' \in [Handlers -> Seq(Conns)]
      /\ c \in Conns
      /\ stage[c] = "queued"
      /\ \A r \in Handlers : queue[r] = <<>> => queue'[r] = <<>>
  BY <1>1, HeadLeaves DEF IInv
<1> HIDE DEF c
<1>3. TypeOK'
  BY <1>1, <1>2 DEF IInv, TypeOK, Active
<1>4. SameLoops(loop)
  BY <1>1, SameLoopsRefl DEF IInv
<1>5. BacklogInv' /\ HeldInv'
  <2>1. \A d \in Conns : \A x \in {"backlog", "accepted"} : stage'[d] = x <=> stage[d] = x
    BY <1>1, <1>2 DEF IInv, TypeOK
  <2> QED  BY <1>1, <1>4, <2>1, LoopsUntouched DEF IInv
<1>6. CurInv'
  <2>1. \A r \in Handlers : cur[r] # c
    BY <1>2 DEF IInv, OwnInv, CurInv, Active
  <2>2. \A r \in Handlers : cur'[r] \in Conns <=> handler'[r] = "busy"
    BY <1>1, <1>2 DEF IInv, TypeOK, OwnInv, CurInv
  <2>3. \A r \in Handlers : cur'[r] \in Conns => stage'[cur'[r]] \in Active
    BY <1>1, <1>2 DEF IInv, TypeOK, OwnInv, CurInv, Active
  <2>4. \A r, q \in Handlers : cur'[r] = cur'[q] /\ cur'[r] \in Conns => r = q
    BY <1>1, <2>1 DEF IInv, TypeOK, OwnInv, CurInv
  <2>5. cur[p] \notin Conns
    BY <1>1 DEF IInv, OwnInv, CurInv
  <2>6. ASSUME NEW d \in Conns, stage'[d] \in Active
        PROVE  \E r \in Handlers : cur'[r] = d
    <3>1. CASE d = c
      BY <1>1, <3>1 DEF IInv, TypeOK
    <3>2. CASE d # c
      <4>1. PICK r \in Handlers : cur[r] = d
        BY <1>1, <2>6, <3>2 DEF IInv, TypeOK, OwnInv, CurInv
      <4> QED  BY <1>1, <2>5, <4>1 DEF IInv, TypeOK
    <3> QED  BY <3>1, <3>2
  <2> QED  BY <2>2, <2>3, <2>4, <2>6 DEF CurInv
<1>7. ExitInv'
  BY <1>1, <1>2 DEF IInv, TypeOK, OwnInv, ExitInv
<1>8. InService' = InService
  BY <1>1, <1>2 DEF IInv, TypeOK, InService, Permitted, Active
<1>9. WaitInv' /\ PermitConservation'
  BY <1>1, <1>8, SemaphoreUntouched DEF IInv
<1>10. CleanInv'
  BY DEF Receive, TakeHead, CleanInv, Alive
<1> QED  BY <1>2, <1>3, <1>5, <1>6, <1>7, <1>9, <1>10 DEF IInv, OwnInv

(* A handler takes its connection to another of the active stages.         *)
LEMMA ActiveStep ==
  ASSUME IInv, NEW p \in Handlers, handler[p] = "busy", Alive,
         NEW s \in Active, stage' = [stage EXCEPT ![cur[p]] = s],
         UNCHANGED <<phase, loopVars, permits, waiters, poolVars>>
  PROVE  IInv'
<1> DEFINE c == cur[p]
<1>1. c \in Conns /\ stage[c] \in Active
  BY DEF IInv, OwnInv, CurInv
<1>2. /\ \A d \in Conns : stage'[d] = IF d = c THEN s ELSE stage[d]
      /\ UNCHANGED <<phase, backlog, loop, held, next, permits, waiters, queue, handler, cur>>
  BY DEF IInv, TypeOK, loopVars, poolVars
<1>3. stage' = [stage EXCEPT ![c] = s]
  OBVIOUS
<1> HIDE DEF c
<1>4. TypeOK'
  BY <1>2, <1>3 DEF IInv, TypeOK
<1>5. BacklogInv' /\ HeldInv'
  <2>1. \A d \in Conns : \A x \in {"backlog", "accepted"} : stage'[d] = x <=> stage[d] = x
    BY <1>1, <1>2 DEF Active
  <2>2. SameLoops(loop)
    BY <1>2, SameLoopsRefl DEF IInv
  <2> QED  BY <1>2, <2>1, <2>2, LoopsUntouched DEF IInv
<1>6. QueueInv'
  <2>1. \A r \in Handlers : \A i \in 1 .. Len(queue[r]) : queue[r][i] \in Conns
    BY ElementOfSeq DEF IInv, TypeOK
  <2>2. \A d \in Conns : stage'[d] = "queued" <=> stage[d] = "queued"
    BY <1>1, <1>2 DEF Active
  <2> QED  BY <1>2, <2>1, <2>2 DEF IInv, OwnInv, QueueInv
<1>7. CurInv'
  <2>1. \A d \in Conns : stage'[d] \in Active <=> stage[d] \in Active
    BY <1>1, <1>2
  <2> QED  BY <1>2, <2>1 DEF IInv, OwnInv, CurInv
<1>8. ExitInv' /\ CleanInv'
  BY <1>2 DEF IInv, OwnInv, ExitInv, CleanInv, TaskDone
<1>9. InService' = InService
  BY <1>1, <1>2 DEF InService, Permitted
<1>10. WaitInv' /\ PermitConservation'
  BY <1>2, <1>9, SemaphoreUntouched DEF IInv
<1> QED  BY <1>4, <1>5, <1>6, <1>7, <1>8, <1>10 DEF IInv, OwnInv

(* The first byte has been read.                                           *)
LEMMA SniffStep ==
  ASSUME IInv, NEW p \in Handlers, Sniff(p)
  PROVE  IInv'
<1>1. PICK s \in {"handshaking", "serving"} : stage' = [stage EXCEPT ![cur[p]] = s]
  BY DEF Sniff
<1>2. s \in Active
  BY DEF Active
<1> QED  BY <1>1, <1>2, ActiveStep DEF Sniff

(* The TLS handshake is complete.                                          *)
LEMMA HandshakeDoneStep ==
  ASSUME IInv, NEW p \in Handlers, HandshakeDone(p)
  PROVE  IInv'
<1>1. "serving" \in Active
  BY DEF Active
<1> QED  BY <1>1, ActiveStep DEF HandshakeDone

(* Finish and PanicUnwinds: the handler lets go of connection and permit.  *)
LEMMA LetGoStep ==
  ASSUME IInv, NEW p \in Handlers, handler[p] = "busy", Alive,
         NEW s \in Ended, stage' = [stage EXCEPT ![cur[p]] = s],
         NEW h \in {"idle", "unwinding"}, handler' = [handler EXCEPT ![p] = h],
         cur' = [cur EXCEPT ![p] = None],
         Release(loop, waiters),
         UNCHANGED <<phase, backlog, held, next, queue>>
  PROVE  IInv'
<1>1. /\ permits \in Nat
      /\ loop \in [Workers -> LoopStates]
      /\ waiters \in Seq(Workers)
      /\ WaitOK(permits, loop, waiters)
  BY DEF IInv, TypeOK, WaitInv, LoopStates
<1>2. SameLoops(loop)
  BY <1>1, ReleaseKeeps
<1>3. /\ OwnInv'
      /\ cur[p] \in InService
      /\ InService' = InService \ {cur[p]}
  BY <1>2, HandlerEnds DEF IInv
<1>4. /\ permits' \in Nat
      /\ loop' \in [Workers -> LoopStates]
      /\ waiters' \in Seq(Workers)
      /\ WaitInv'
      /\ PermitConservation'
  BY <1>3, ReleaseConserves DEF IInv
<1>5. TypeOK'
  BY <1>4 DEF IInv, TypeOK, LoopStates, Ended
<1>6. CleanInv'
  BY DEF CleanInv, Alive
<1> QED  BY <1>3, <1>4, <1>5, <1>6 DEF IInv

(* The handler is done with its connection.                                *)
LEMMA FinishStep ==
  ASSUME IInv, NEW p \in Handlers, Finish(p)
  PROVE  IInv'
<1>1. "closed" \in Ended /\ "idle" \in {"idle", "unwinding"}
  BY DEF Ended
<1> QED  BY <1>1, LetGoStep DEF Finish, LetGo

(* A panic takes the connection and releases its permit.                   *)
LEMMA PanicUnwindsStep ==
  ASSUME IInv, NEW p \in Handlers, PanicUnwinds(p)
  PROVE  IInv'
<1>1. "reset" \in Ended /\ "unwinding" \in {"idle", "unwinding"}
  BY DEF Ended
<1> QED  BY <1>1, LetGoStep DEF PanicUnwinds, LetGo

(* A closed channel gives up the connection at its head.                   *)
LEMMA DropQueuedStep ==
  ASSUME IInv, NEW p \in Handlers, DropQueued(p)
  PROVE  IInv'
<1> DEFINE c == Head(queue[p])
<1>1. /\ handler[p] = "dead" /\ queue[p] # <<>>
      /\ stage' = [stage EXCEPT ![c] = "reset"]
      /\ queue' = [queue EXCEPT ![p] = Tail(@)]
      /\ Release(loop, waiters)
      /\ UNCHANGED <<phase, backlog, held, next, handler, cur>>
  BY DEF DropQueued
<1>2. /\ QueueInv'
      /\ queue' \in [Handlers -> Seq(Conns)]
      /\ c \in Conns
      /\ stage[c] = "queued"
      /\ \A r \in Handlers : queue[r] = <<>> => queue'[r] = <<>>
  BY <1>1, HeadLeaves DEF IInv
<1> HIDE DEF c
<1>3. \A d \in Conns : stage'[d] = IF d = c THEN "reset" ELSE stage[d]
  BY <1>1 DEF IInv, TypeOK
<1>4. c \in InService /\ InService' = InService \ {c}
  BY <1>2, <1>3 DEF InService, Permitted, Active
<1>5. /\ permits' \in Nat
      /\ loop' \in [Workers -> LoopStates]
      /\ waiters' \in Seq(Workers)
      /\ SameLoops(loop)
      /\ WaitInv'
      /\ PermitConservation'
  BY <1>1, <1>4, ReleaseConserves DEF IInv
<1>6. TypeOK'
  BY <1>1, <1>2, <1>5 DEF IInv, TypeOK, LoopStates, Ended
<1>7. BacklogInv' /\ HeldInv'
  <2>1. \A d \in Conns : \A x \in {"backlog", "accepted"} : stage'[d] = x <=> stage[d] = x
    BY <1>2, <1>3
  <2> QED  BY <1>1, <1>5, <2>1, LoopsUntouched DEF IInv
<1>8. CurInv'
  <2>1. \A d \in Conns : stage'[d] \in Active <=> stage[d] \in Active
    BY <1>2, <1>3 DEF Active
  <2> QED  BY <1>1, <2>1 DEF IInv, OwnInv, CurInv
<1>9. ExitInv'
  <2>1. \A r \in Handlers : r[1] \in Workers
    BY DEF Handlers
  <2> QED  BY <1>1, <1>2, <1>5, <2>1 DEF IInv, OwnInv, ExitInv, SameLoops
<1>10. CleanInv'
  BY DEF DropQueued, CleanInv, Alive
<1> QED  BY <1>2, <1>5, <1>6, <1>7, <1>8, <1>9, <1>10 DEF IInv, OwnInv

(* A task that is not busy changes its state and nothing else changes.     *)
LEMMA TaskStep ==
  ASSUME IInv, NEW p \in Handlers, handler[p] # "busy", Alive,
         NEW h \in {"dead", "exited"}, handler' = [handler EXCEPT ![p] = h],
         h = "exited" => queue[p] = <<>> /\ loop[p[1]] = "stopped",
         UNCHANGED <<phase, stage, loopVars, permits, waiters, queue, cur>>
  PROVE  IInv'
<1>1. UNCHANGED <<phase, stage, backlog, loop, held, next, permits, waiters, queue, cur>>
  BY DEF loopVars
<1>2. TypeOK'
  BY <1>1 DEF IInv, TypeOK
<1>3. BacklogInv' /\ HeldInv' /\ QueueInv'
  BY <1>1 DEF IInv, OwnInv, BacklogInv, HeldInv, QueueInv
<1>4. CurInv'
  BY <1>1 DEF IInv, TypeOK, OwnInv, CurInv
<1>5. ExitInv'
  BY <1>1 DEF IInv, TypeOK, OwnInv, ExitInv
<1>6. WaitInv' /\ PermitConservation'
  <2>1. InService' = InService
    BY <1>1 DEF InService
  <2> QED  BY <1>1, <2>1, SemaphoreUntouched DEF IInv
<1>7. CleanInv'
  BY <1>1 DEF CleanInv, Alive
<1> QED  BY <1>2, <1>3, <1>4, <1>5, <1>6, <1>7 DEF IInv, OwnInv

(* Only the phase changes.                                                 *)
LEMMA PhaseStep ==
  ASSUME IInv,
         phase' \in {"running", "draining", "clean", "timedout", "forced",
                     "aborted", "killed"},
         phase' = "clean" => /\ \A w \in Workers : loop[w] = "stopped"
                             /\ \A p \in Handlers : TaskDone(p),
         UNCHANGED <<stage, loopVars, permits, waiters, poolVars>>
  PROVE  IInv'
<1>1. UNCHANGED <<stage, backlog, loop, held, next, permits, waiters, queue, handler, cur>>
  BY DEF loopVars, poolVars
<1>2. TypeOK'
  BY <1>1 DEF IInv, TypeOK
<1>3. OwnInv'
  BY <1>1 DEF IInv, OwnInv, BacklogInv, HeldInv, QueueInv, CurInv, ExitInv
<1>4. WaitInv' /\ PermitConservation'
  <2>1. InService' = InService
    BY <1>1 DEF InService
  <2> QED  BY <1>1, <2>1, SemaphoreUntouched DEF IInv
<1>5. CleanInv'
  BY <1>1 DEF CleanInv, TaskDone
<1> QED  BY <1>2, <1>3, <1>4, <1>5 DEF IInv

-----------------------------------------------------------------------------
(* The invariant is inductive.                                             *)

(* The invariant holds when the workers have been spawned.                 *)
LEMMA InitInvariant == Init => IInv
<1> SUFFICES ASSUME Init PROVE IInv
  OBVIOUS
<1>1. TypeOK
  BY ParametersAssumption, EmptySeq DEF Init, TypeOK
<1>2. OwnInv
  BY ParametersAssumption, EmptySeq
  DEF Init, OwnInv, BacklogInv, HeldInv, QueueInv, CurInv, ExitInv, Waiting, Active
<1>3. WaitInv
  BY EmptySeq DEF Init, WaitInv, WaitOK
<1>4. PermitConservation
  <2>1. InService = {} /\ Granted = {}
    BY DEF Init, InService, Granted, Permitted, Active
  <2>2. Cardinality({}) = 0
    BY FS_EmptySet
  <2> QED  BY <2>1, <2>2, ParametersAssumption DEF Init, PermitConservation
<1>5. CleanInv
  BY DEF Init, CleanInv
<1> QED  BY <1>1, <1>2, <1>3, <1>4, <1>5 DEF IInv

(* Every step of an accept loop keeps the invariant.                       *)
LEMMA WorkerInvariant ==
  ASSUME IInv, NEW w \in Workers, WorkerStep(w)
  PROVE  IInv'
<1>1. CASE Accept(w)
  BY <1>1, AcceptStep
<1>2. CASE AcceptError(w)
  BY <1>2, AcceptErrorStep
<1>3. CASE AcquireAndDispatch(w)
  BY <1>3, AcquireAndDispatchStep
<1>4. CASE AwaitPermit(w)
  BY <1>4, AwaitPermitStep
<1>5. CASE DispatchGranted(w)
  BY <1>5, DispatchGrantedStep
<1>6. CASE ObserveShutdown(w)
  BY <1>6, ObserveShutdownStep
<1>7. CASE AcceptErrorAborts(w)
  BY <1>7, PhaseStep DEF AcceptErrorAborts
<1> QED  BY <1>1, <1>2, <1>3, <1>4, <1>5, <1>6, <1>7 DEF WorkerStep

(* Every step of a handler task keeps the invariant.                       *)
LEMMA HandlerInvariant ==
  ASSUME IInv, NEW p \in Handlers, HandlerStep(p)
  PROVE  IInv'
<1>1. CASE Receive(p)
  BY <1>1, ReceiveStep
<1>2. CASE Sniff(p)
  BY <1>2, SniffStep
<1>3. CASE HandshakeDone(p)
  BY <1>3, HandshakeDoneStep
<1>4. CASE Finish(p)
  BY <1>4, FinishStep
<1>5. CASE PanicUnwinds(p)
  BY <1>5, PanicUnwindsStep
<1>6. CASE PanicAborts(p)
  BY <1>6, PhaseStep DEF PanicAborts
<1>7. CASE CloseChannel(p)
  BY <1>7, TaskStep DEF CloseChannel
<1>8. CASE DropQueued(p)
  BY <1>8, DropQueuedStep
<1>9. CASE Exit(p)
  BY <1>9, TaskStep DEF Exit
<1> QED  BY <1>1, <1>2, <1>3, <1>4, <1>5, <1>6, <1>7, <1>8, <1>9 DEF HandlerStep

(* Every step of main keeps the invariant.                                 *)
LEMMA MainInvariant ==
  ASSUME IInv, MainStep
  PROVE  IInv'
<1>1. CASE CtrlC
  BY <1>1, PhaseStep DEF CtrlC
<1>2. CASE DrainDone
  BY <1>2, PhaseStep DEF DrainDone
<1>3. CASE GiveUp
  BY <1>3, PhaseStep DEF GiveUp
<1>4. CASE Sigterm
  BY <1>4, PhaseStep DEF Sigterm
<1> QED  BY <1>1, <1>2, <1>3, <1>4 DEF MainStep

(* Every step keeps the invariant.                                         *)
LEMMA NextInvariant == IInv /\ [Next]_vars => IInv'
<1> SUFFICES ASSUME IInv, [Next]_vars PROVE IInv'
  OBVIOUS
<1>1. ASSUME NEW c \in Conns, NEW w \in Workers, Connect(c, w) PROVE IInv'
  BY <1>1, ConnectStep
<1>2. ASSUME NEW w \in Workers, WorkerStep(w) PROVE IInv'
  BY <1>2, WorkerInvariant
<1>3. ASSUME NEW p \in Handlers, HandlerStep(p) PROVE IInv'
  BY <1>3, HandlerInvariant
<1>4. CASE MainStep
  BY <1>4, MainInvariant
<1>5. CASE UNCHANGED vars
  BY <1>5
  DEF vars, IInv, TypeOK, OwnInv, BacklogInv, HeldInv, QueueInv, CurInv, ExitInv,
      WaitInv, WaitOK, CleanInv, TaskDone, PermitConservation, InService, Granted
<1> QED  BY <1>1, <1>2, <1>3, <1>4, <1>5 DEF Next

(* The inductive invariant holds in every reachable state.                 *)
THEOREM Invariance == Spec => []IInv
<1>1. Init => IInv
  BY InitInvariant
<1>2. IInv /\ [Next]_vars => IInv'
  BY NextInvariant
<1> QED  BY <1>1, <1>2, PTL DEF Spec

=============================================================================
