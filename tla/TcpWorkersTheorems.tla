------------------------- MODULE TcpWorkersTheorems -------------------------
(***************************************************************************)
(* What the inductive invariant of TcpWorkersProofs gives: the properties  *)
(* the runs of TcpWorkers check, for every number of workers, handlers,    *)
(* connections and permits, and the implementation of ConnectionLimiter.   *)
(***************************************************************************)
EXTENDS TcpWorkersProofs

(* The variables of the workers keep their types.                          *)
THEOREM TypeCorrect == Spec => []TypeOK
<1>1. IInv => TypeOK
  BY DEF IInv
<1> QED  BY <1>1, Invariance, PTL

(* No permit of conn_semaphore is lost or duplicated.                      *)
THEOREM PermitsConserved == Spec => []PermitConservation
<1>1. IInv => PermitConservation
  BY DEF IInv
<1> QED  BY <1>1, Invariance, PTL

(* No accept loop waits for a permit that is free or unattended.           *)
THEOREM WakeupsKept == Spec => []NoLostWakeup
<1>1. IInv => NoLostWakeup
  <2> SUFFICES ASSUME IInv PROVE NoLostWakeup
    OBVIOUS
  <2>1. waiters \in Seq(Workers) /\ DOMAIN waiters = 1 .. Len(waiters)
    BY LenProperties DEF IInv, TypeOK
  <2>2. WaitOK(permits, loop, waiters)
    BY DEF IInv, WaitInv
  <2>3. IsInjective(waiters)
    BY <2>1, <2>2 DEF IsInjective, WaitOK
  <2>4. ToSet(waiters) = {w \in Workers : loop[w] = "waiting"}
    <3>1. \A i \in 1 .. Len(waiters) : waiters[i] \in Workers
      BY <2>1, ElementOfSeq
    <3> QED  BY <2>1, <2>2, <3>1 DEF ToSet, WaitOK
  <2> QED  BY <2>2, <2>3, <2>4 DEF NoLostWakeup, WaitOK
<1> QED  BY <1>1, Invariance, PTL

(* A clean end leaves no connection behind.                                *)
THEOREM CleanEnd == Spec => []CleanMeansDrained
<1>1. IInv => CleanMeansDrained
  <2> SUFFICES ASSUME IInv, phase = "clean"
               PROVE  Accepted = {} /\ permits = MaxConnections
    BY DEF CleanMeansDrained
  <2>1. /\ \A w \in Workers : loop[w] = "stopped"
        /\ \A p \in Handlers : TaskDone(p)
    BY DEF IInv, CleanInv
  <2>2. \A w \in Workers : held[w] \notin Conns
    BY <2>1 DEF IInv, OwnInv, HeldInv, Waiting
  <2>3. \A p \in Handlers : queue[p] = <<>> /\ cur[p] \notin Conns
    BY <2>1 DEF IInv, OwnInv, ExitInv, CurInv, TaskDone
  <2>4. \A c \in Conns : stage[c] \notin {"accepted"} \cup Permitted
    <3>1. \A c \in Conns : stage[c] # "accepted"
      BY <2>2 DEF IInv, OwnInv, HeldInv
    <3>2. \A c \in Conns : stage[c] \notin Active
      BY <2>3 DEF IInv, OwnInv, CurInv
    <3>3. \A c \in Conns : stage[c] # "queued"
      <4>1. \A p \in Handlers : Len(queue[p]) = 0
        BY <2>3, EmptySeq
      <4> QED  BY <4>1 DEF IInv, OwnInv, QueueInv
    <3> QED  BY <3>1, <3>2, <3>3 DEF Permitted
  <2>5. Accepted = {} /\ InService = {}
    BY <2>4 DEF Accepted, InService
  <2>6. Granted = {}
    BY <2>1 DEF Granted
  <2>7. permits + 0 + 0 = MaxConnections
    BY <2>5, <2>6, FS_EmptySet DEF IInv, PermitConservation
  <2> QED  BY <2>5, <2>7 DEF IInv, TypeOK
<1> QED  BY <1>1, Invariance, PTL

(* Accepted sockets are bounded although accept comes before the permit.   *)
THEOREM AcceptedBounded == Spec => []AcceptedBound
<1>1. IInv => AcceptedBound
  <2> SUFFICES ASSUME IInv PROVE AcceptedBound
    OBVIOUS
  <2> DEFINE pending == {c \in Conns : stage[c] = "accepted"}
             owner == [c \in pending |-> CHOOSE w \in Workers : held[w] = c]
  <2>1. \A c \in pending : owner[c] \in Workers /\ held[owner[c]] = c
    BY DEF IInv, OwnInv, HeldInv
  <2>2. owner \in Injection(pending, Workers)
    <3>1. owner \in [pending -> Workers]
      BY <2>1
    <3>2. \A a, b \in pending : owner[a] = owner[b] => a = b
      BY <2>1
    <3>3. DOMAIN owner = pending
      OBVIOUS
    <3> HIDE DEF owner, pending
    <3> QED  BY <3>1, <3>2, <3>3 DEF Injection, IsInjective
  <2>3. IsFiniteSet(pending) /\ Cardinality(pending) <= Cardinality(Workers)
    BY <2>2, FS_Injection, ParametersAssumption
  <2>4. Accepted = InService \cup pending
    BY DEF Accepted, InService
  <2>5. Cardinality(Accepted) <= Cardinality(InService) + Cardinality(pending)
    <3>1. InService \cap pending = {}
      BY DEF InService, Permitted, Active
    <3>2. Cardinality(InService \cap pending) = 0
      BY <3>1, FS_EmptySet
    <3>3. Cardinality(pending) \in Nat /\ Cardinality(InService) \in Nat
      BY <2>3, FS_CardinalityType, InServiceFinite
    <3> HIDE DEF pending
    <3>4. Cardinality(InService \cup pending)
            = Cardinality(InService) + Cardinality(pending) - Cardinality(InService \cap pending)
      BY <2>3, InServiceFinite, FS_Union
    <3> QED  BY <2>4, <3>2, <3>3, <3>4
  <2>6. Cardinality(InService) <= MaxConnections
    <3>1. Cardinality(Granted) \in Nat /\ permits \in Nat
      BY ParametersAssumption, FS_Subset, FS_CardinalityType DEF Granted, IInv, TypeOK
    <3> QED  BY <3>1, InServiceFinite, ParametersAssumption DEF IInv, PermitConservation
  <2>7. /\ Cardinality(Accepted) \in Nat
        /\ Cardinality(InService) \in Nat
        /\ Cardinality(pending) \in Nat
        /\ Cardinality(Workers) \in Nat
    BY ParametersAssumption, FS_Subset, FS_CardinalityType, InServiceFinite, <2>3 DEF Accepted
  <2> HIDE DEF pending
  <2> QED  BY <2>3, <2>5, <2>6, <2>7, ParametersAssumption DEF AcceptedBound
<1> QED  BY <1>1, Invariance, PTL

(* Every connection has the one owner its stage calls for.                 *)
THEOREM OwnersUnique == Spec => []OneOwner
<1>1. IInv => OneOwner
  <2> SUFFICES ASSUME IInv, NEW c \in Conns
               PROVE  IF stage[c] \in {"new"} \cup Ended
                      THEN Holders(c) = {}
                      ELSE \E o \in Holders(c) :
                              /\ Holders(c) = {o}
                              /\ o[1] = IF stage[c] \in Active THEN "busy" ELSE stage[c]
    BY DEF OneOwner
  <2> DEFINE B == {<<"backlog", w>> : w \in {v \in Workers : c \in backlog[v]}}
             H == {<<"accepted", w>> : w \in {v \in Workers : held[v] = c}}
             Q == UNION {{<<"queued", p, i>> : i \in {j \in DOMAIN queue[p] : queue[p][j] = c}} :
                            p \in Handlers}
             U == {<<"busy", p>> : p \in {r \in Handlers : cur[r] = c}}
  <2>1. Holders(c) = B \cup H \cup Q \cup U
    BY DEF Holders
  <2>2. stage[c] # "backlog" => B = {}
    BY DEF IInv, OwnInv, BacklogInv
  <2>3. stage[c] # "accepted" => H = {}
    BY DEF IInv, OwnInv, HeldInv
  <2>4. stage[c] # "queued" => Q = {}
    <3>1. \A p \in Handlers : DOMAIN queue[p] = 1 .. Len(queue[p])
      BY LenProperties DEF IInv, TypeOK
    <3> QED  BY <3>1 DEF IInv, OwnInv, QueueInv
  <2>5. stage[c] \notin Active => U = {}
    BY DEF IInv, OwnInv, CurInv
  <2>6. CASE stage[c] \in {"new"} \cup Ended
    <3> HIDE DEF B, H, Q, U
    <3> QED  BY <2>1, <2>2, <2>3, <2>4, <2>5, <2>6 DEF Ended, Active
  <2>7. CASE stage[c] = "backlog"
    <3>1. PICK w \in Workers : c \in backlog[w]
      BY <2>7 DEF IInv, OwnInv, BacklogInv
    <3>2. {v \in Workers : c \in backlog[v]} = {w}
      BY <3>1 DEF IInv, OwnInv, BacklogInv
    <3>3. B = {<<"backlog", w>>}
      BY <3>2
    <3> HIDE DEF B, H, Q, U
    <3>4. Holders(c) = {<<"backlog", w>>}
      BY <2>1, <2>3, <2>4, <2>5, <2>7, <3>3 DEF Active
    <3> QED  BY <2>7, <3>4 DEF Ended, Active
  <2>8. CASE stage[c] = "accepted"
    <3>1. PICK w \in Workers : held[w] = c
      BY <2>8 DEF IInv, OwnInv, HeldInv
    <3>2. {v \in Workers : held[v] = c} = {w}
      BY <3>1 DEF IInv, OwnInv, HeldInv
    <3>3. H = {<<"accepted", w>>}
      BY <3>2
    <3> HIDE DEF B, H, Q, U
    <3>4. Holders(c) = {<<"accepted", w>>}
      BY <2>1, <2>2, <2>4, <2>5, <2>8, <3>3 DEF Active
    <3> QED  BY <2>8, <3>4 DEF Ended, Active
  <2>9. CASE stage[c] = "queued"
    <3>1. PICK p \in Handlers : \E i \in 1 .. Len(queue[p]) : queue[p][i] = c
      BY <2>9 DEF IInv, OwnInv, QueueInv
    <3>2. PICK i \in 1 .. Len(queue[p]) : queue[p][i] = c
      BY <3>1
    <3>3. \A r \in Handlers : DOMAIN queue[r] = 1 .. Len(queue[r])
      BY LenProperties DEF IInv, TypeOK
    <3>4. \A r \in Handlers : \A j \in DOMAIN queue[r] : queue[r][j] = c => r = p /\ j = i
      BY <3>2, <3>3 DEF IInv, OwnInv, QueueInv
    <3>5. Q = {<<"queued", p, i>>}
      BY <3>2, <3>3, <3>4
    <3> HIDE DEF B, H, Q, U
    <3>6. Holders(c) = {<<"queued", p, i>>}
      BY <2>1, <2>2, <2>3, <2>5, <2>9, <3>5 DEF Active
    <3> QED  BY <2>9, <3>6 DEF Ended, Active
  <2>10. CASE stage[c] \in Active
    <3>1. PICK p \in Handlers : cur[p] = c
      BY <2>10 DEF IInv, OwnInv, CurInv
    <3>2. {r \in Handlers : cur[r] = c} = {p}
      BY <3>1 DEF IInv, OwnInv, CurInv
    <3>3. U = {<<"busy", p>>}
      BY <3>2
    <3> HIDE DEF B, H, Q, U
    <3>4. Holders(c) = {<<"busy", p>>}
      BY <2>1, <2>2, <2>3, <2>4, <2>10, <3>3 DEF Active
    <3> QED  BY <2>10, <3>4 DEF Ended, Active
  <2> QED  BY <2>6, <2>7, <2>8, <2>9, <2>10 DEF IInv, TypeOK
<1> QED  BY <1>1, Invariance, PTL

(* A dispatched connection is dropped unserved only by a panic of the      *)
(* handler it was sent to.                                                 *)
THEOREM DispatchedServed == Spec => DispatchedIsServed
<1> DEFINE A == \A c \in Conns :
                  stage[c] \in Permitted /\ stage'[c] = "reset" =>
                      \E p \in Handlers :
                          /\ handler'[p] \in {"unwinding", "dead"}
                          /\ c = cur[p] \/ c \in ToSet(queue[p])
<1>1. IInv /\ [Next]_vars => A
  <2> SUFFICES ASSUME IInv, [Next]_vars, NEW c \in Conns,
                      stage[c] \in Permitted, stage'[c] = "reset"
               PROVE  \E p \in Handlers :
                          /\ handler'[p] \in {"unwinding", "dead"}
                          /\ c = cur[p] \/ c \in ToSet(queue[p])
    OBVIOUS
  <2>0. stage \in [Conns -> {"new", "backlog", "accepted", "queued"} \cup Active \cup Ended]
    BY DEF IInv, TypeOK
  <2>1. ASSUME NEW d \in Conns, NEW w \in Workers, Connect(d, w) PROVE FALSE
    BY <2>0, <2>1 DEF Connect, Permitted, Active
  <2>2. ASSUME NEW w \in Workers, LoopEnds(w) PROVE FALSE
    BY <2>0, <2>2 DEF LoopEnds, Dropped, IInv, OwnInv, BacklogInv, HeldInv, Permitted, Active
  <2>3. ASSUME NEW w \in Workers, Send(w) PROVE FALSE
    BY <2>0, <2>3 DEF Send, Permitted, Active
  <2>4. ASSUME NEW w \in Workers, WorkerStep(w) PROVE FALSE
    <3>1. CASE Accept(w)
      BY <2>0, <3>1 DEF Accept, Permitted, Active
    <3>2. CASE AwaitPermit(w)
      BY <2>0, <3>2 DEF AwaitPermit, Permitted, Active
    <3>3. CASE LoopEnds(w) \/ Send(w)
      BY <2>2, <2>3, <3>3
    <3>4. CASE AcceptErrorAborts(w)
      BY <2>0, <3>4 DEF AcceptErrorAborts, Permitted, Active
    <3> QED  BY <2>4, <3>1, <3>2, <3>3, <3>4
             DEF WorkerStep, AcceptError, AcquireAndDispatch, DispatchGranted, SendFails,
                 ObserveShutdown
  <2>5. ASSUME NEW p \in Handlers, HandlerStep(p)
        PROVE  \E r \in Handlers :
                  /\ handler'[r] \in {"unwinding", "dead"}
                  /\ c = cur[r] \/ c \in ToSet(queue[r])
    <3>1. CASE PanicUnwinds(p)
      <4>1. c = cur[p]
        BY <2>0, <3>1 DEF PanicUnwinds, LetGo, Permitted, Active
      <4>2. handler'[p] = "unwinding"
        BY <3>1 DEF PanicUnwinds, LetGo, IInv, TypeOK
      <4> QED  BY <4>1, <4>2
    <3>2. CASE DropQueued(p)
      <4>1. c = Head(queue[p])
        BY <2>0, <3>2 DEF DropQueued, Permitted, Active
      <4>2. queue[p] \in Seq(Conns) /\ queue[p] # <<>>
        BY <3>2 DEF DropQueued, IInv, TypeOK
      <4>3. 1 \in DOMAIN queue[p] /\ c = queue[p][1]
        BY <4>1, <4>2, EmptySeq, LenProperties, HeadTailProperties
      <4>4. handler'[p] = "dead"
        BY <3>2 DEF DropQueued
      <4> QED  BY <4>3, <4>4 DEF ToSet
    <3>3. CASE Receive(p) \/ Sniff(p) \/ HandshakeDone(p) \/ Finish(p)
      BY <2>0, <3>3 DEF Receive, TakeHead, Sniff, HandshakeDone, Finish, LetGo, Permitted, Active
    <3>4. CASE PanicAborts(p) \/ CloseChannel(p) \/ Exit(p)
      BY <2>0, <3>4 DEF PanicAborts, CloseChannel, Exit, Permitted, Active
    <3> QED  BY <2>5, <3>1, <3>2, <3>3, <3>4 DEF HandlerStep
  <2>6. CASE MainStep \/ UNCHANGED vars
    BY <2>0, <2>6 DEF MainStep, CtrlC, DrainDone, GiveUp, Sigterm, vars, Permitted, Active
  <2> QED  BY <2>1, <2>4, <2>5, <2>6 DEF Next
<1>2. A => [A]_vars
  OBVIOUS
<1> QED  BY <1>1, Invariance, PTL DEF Spec, DispatchedIsServed

-----------------------------------------------------------------------------
(* The workers implement the connection limiter.                           *)

Gone == {c \in Conns : stage[c] \in Ended}
GateOpen == \E w \in Workers : loop[w] # "stopped"

(* The workers start as the limiter does.                                  *)
LEMMA LimiterInitially == Init => Limiter!LimiterInit
<1> SUFFICES ASSUME Init PROVE Limiter!LimiterInit
  OBVIOUS
<1>1. InService = {} /\ Gone = {}
  BY DEF Init, InService, Gone, Permitted, Active, Ended
<1>2. GateOpen
  BY ParametersAssumption DEF Init, GateOpen
<1> QED  BY <1>1, <1>2 DEF Limiter!LimiterInit, Gone, GateOpen

(* The limiter sees no change.                                             *)
LEMMA SeenAsStutter ==
  ASSUME InService' = InService, Gone' = Gone, GateOpen' = GateOpen
  PROVE  [Limiter!LimiterNext]_(Limiter!limiterVars)
BY DEF Limiter!limiterVars, Gone, GateOpen

(* One connection enters service: the limiter admits it.                   *)
LEMMA SeenAsAdmit ==
  ASSUME NEW c \in Conns, c \notin Gone, c \notin InService,
         GateOpen, GateOpen' = GateOpen,
         Cardinality(InService) < MaxConnections,
         InService' = InService \cup {c}, Gone' = Gone
  PROVE  Limiter!LimiterNext
<1>1. Limiter!Cardinality(InService) = Cardinality(InService)
  BY DEF Cardinality, Limiter!Cardinality
<1>2. Limiter!Admit(c)
  BY <1>1 DEF Limiter!Admit, Gone, GateOpen
<1> QED  BY <1>2 DEF Limiter!LimiterNext

(* One connection leaves service: so it does in the limiter.               *)
LEMMA SeenAsLeave ==
  ASSUME NEW c \in InService, InService' = InService \ {c}, Gone' = Gone \cup {c},
         GateOpen' = GateOpen
  PROVE  Limiter!LimiterNext
<1>1. Limiter!Leave(c) /\ c \in Conns
  BY DEF Limiter!Leave, Gone, GateOpen, InService
<1> QED  BY <1>1 DEF Limiter!LimiterNext

(* Connections end that were never in service: they are turned away.       *)
LEMMA SeenAsTurnAway ==
  ASSUME NEW S \in SUBSET Conns, S \cap (InService \cup Gone) = {},
         Gone' = Gone \cup S, GateOpen' => GateOpen, InService' = InService
  PROVE  Limiter!LimiterNext
<1>1. Limiter!TurnAway(S)
  BY DEF Limiter!TurnAway, Gone, GateOpen
<1> QED  BY <1>1 DEF Limiter!LimiterNext

(* A loop that ends turns its connections away.                            *)
LEMMA LoopEndsSeen ==
  ASSUME IInv, NEW w \in Workers, LoopEnds(w), loop[w] # "stopped",
         SameLoops(Stopped(w)), UNCHANGED poolVars
  PROVE  Limiter!LimiterNext
<1> DEFINE S == {c \in Conns : c = held[w] \/ c \in backlog[w]}
<1>1. InService' = InService
  BY LoopEndsKeeps DEF IInv
<1>2. \A c \in S : stage[c] \in {"backlog", "accepted"}
  BY DEF IInv, OwnInv, BacklogInv, HeldInv
<1>3. S \cap (InService \cup Gone) = {}
  BY <1>2 DEF InService, Gone, Permitted, Active, Ended
<1>4. Gone' = Gone \cup S
  BY <1>2 DEF LoopEnds, Dropped, Gone, Ended
<1>5. GateOpen' => GateOpen
  BY DEF GateOpen
<1> HIDE DEF S
<1>6. S \in SUBSET Conns
  BY DEF S
<1> QED  BY <1>1, <1>3, <1>4, <1>5, <1>6, SeenAsTurnAway

(* A sent connection is admitted.                                          *)
LEMMA SendSeen ==
  ASSUME IInv, NEW w \in Workers, loop[w] \in Waiting, Send(w),
         permits > 0 \/ loop[w] = "granted", UNCHANGED <<handler, cur>>
  PROVE  Limiter!LimiterNext
<1>1. /\ held[w] \in Conns \ InService
      /\ InService' = InService \cup {held[w]}
  BY SendKeeps DEF IInv
<1>2. stage[held[w]] = "accepted"
  BY <1>1 DEF IInv, OwnInv, HeldInv
<1>3. held[w] \notin Gone /\ Gone' = Gone
  BY <1>1, <1>2 DEF Send, Gone, Ended, IInv, TypeOK
<1>4. GateOpen /\ GateOpen'
  BY DEF GateOpen, Send, Waiting, IInv, TypeOK
<1>5. Cardinality(InService) < MaxConnections
  <2>1. /\ IsFiniteSet(Granted)
        /\ Cardinality(Granted) \in Nat
        /\ permits \in Nat
        /\ Cardinality(InService) \in Nat
    BY ParametersAssumption, FS_Subset, FS_CardinalityType, InServiceFinite
    DEF Granted, IInv, TypeOK
  <2>2. permits > 0 \/ Cardinality(Granted) > 0
    <3>1. CASE loop[w] = "granted"
      <4>1. Granted # {}
        BY <3>1 DEF Granted
      <4>2. Cardinality(Granted) # 0
        BY <2>1, <4>1, FS_EmptySet
      <4> QED  BY <2>1, <4>2
    <3> QED  BY <3>1
  <2> QED  BY <2>1, <2>2, ParametersAssumption DEF IInv, PermitConservation
<1> QED  BY <1>1, <1>3, <1>4, <1>5, SeenAsAdmit

(* The end of a connection in service.                                     *)
LEMMA EndSeen ==
  ASSUME IInv, NEW c \in InService, NEW s \in Ended,
         stage' = [stage EXCEPT ![c] = s], SameLoops(loop)
  PROVE  Limiter!LimiterNext
<1>1. c \in Conns
  BY DEF InService
<1>2. InService' = InService \ {c} /\ Gone' = Gone \cup {c}
  BY <1>1 DEF IInv, TypeOK, InService, Gone, Permitted, Active, Ended
<1>3. GateOpen' = GateOpen
  BY DEF GateOpen, SameLoops
<1> QED  BY <1>2, <1>3, SeenAsLeave

(* Every step of an accept loop is a step of the limiter.                  *)
LEMMA WorkerStepSeen ==
  ASSUME IInv, NEW w \in Workers, WorkerStep(w)
  PROVE  [Limiter!LimiterNext]_(Limiter!limiterVars)
<1>0. /\ permits \in Nat
      /\ loop \in [Workers -> LoopStates]
      /\ waiters \in Seq(Workers)
      /\ WaitOK(permits, loop, waiters)
  BY DEF IInv, TypeOK, WaitInv, LoopStates
<1>1. CASE Accept(w)
  <2>1. PICK c \in backlog[w] : stage' = [stage EXCEPT ![c] = "accepted"]
    BY <1>1 DEF Accept
  <2>2. c \in Conns /\ stage[c] = "backlog"
    BY DEF IInv, TypeOK, OwnInv, BacklogInv
  <2>3. InService' = InService /\ Gone' = Gone
    BY <2>1, <2>2 DEF IInv, TypeOK, InService, Gone, Permitted, Active, Ended
  <2>4. GateOpen /\ GateOpen'
    BY <1>0, <1>1 DEF Accept, GateOpen
  <2> QED  BY <2>3, <2>4, SeenAsStutter
<1>2. CASE AwaitPermit(w)
  <2>1. stage' = stage /\ loop[w] = "acquiring" /\ loop' = [loop EXCEPT ![w] = "waiting"]
    BY <1>2 DEF AwaitPermit
  <2>2. InService' = InService /\ Gone' = Gone
    BY <2>1 DEF InService, Gone
  <2>3. GateOpen /\ GateOpen'
    BY <1>0, <2>1 DEF GateOpen
  <2> QED  BY <2>2, <2>3, SeenAsStutter
<1>3. Stopped(w) \in [Workers -> LoopStates]
  BY <1>0 DEF Stopped, LoopStates
<1>4. CASE /\ LoopEnds(w) /\ loop[w] # "stopped"
           /\ loop' = Stopped(w)
           /\ UNCHANGED poolVars
  <2>1. SameLoops(Stopped(w))
    BY <1>3, <1>4 DEF SameLoops
  <2> QED  BY <1>4, <2>1, LoopEndsSeen
<1>5. CASE /\ LoopEnds(w) /\ loop[w] = "granted"
           /\ Release(Stopped(w), waiters)
           /\ UNCHANGED poolVars
  <2>1. WaitOK(permits, Stopped(w), waiters)
    BY <1>0, <1>5, WaitOKSame DEF Stopped
  <2>2. SameLoops(Stopped(w))
    BY <1>0, <1>3, <1>5, <2>1, ReleaseKeeps
  <2> QED  BY <1>5, <2>2, LoopEndsSeen
<1>6. CASE AcceptError(w)
  BY <1>4, <1>6 DEF AcceptError
<1>7. CASE AcquireAndDispatch(w)
  <2>1. CASE Send(w)
    <3>1. loop[w] \in Waiting /\ permits > 0 /\ UNCHANGED <<handler, cur>>
      BY <1>7 DEF AcquireAndDispatch, Waiting
    <3> QED  BY <2>1, <3>1, SendSeen
  <2>2. CASE SendFails(w) /\ loop' = Stopped(w)
    BY <1>4, <1>7, <2>2 DEF AcquireAndDispatch, SendFails, poolVars
  <2> QED  BY <1>7, <2>1, <2>2 DEF AcquireAndDispatch
<1>8. CASE DispatchGranted(w)
  <2>1. CASE Send(w)
    <3>1. loop[w] \in Waiting /\ loop[w] = "granted" /\ UNCHANGED <<handler, cur>>
      BY <1>8 DEF DispatchGranted, Waiting
    <3> QED  BY <2>1, <3>1, SendSeen
  <2>2. CASE SendFails(w) /\ Release(Stopped(w), waiters)
    BY <1>5, <1>8, <2>2 DEF DispatchGranted, SendFails, poolVars
  <2> QED  BY <1>8, <2>1, <2>2 DEF DispatchGranted
<1>9. CASE ObserveShutdown(w)
  <2>1. CASE loop' = Stopped(w)
    BY <1>4, <1>9, <2>1 DEF ObserveShutdown
  <2>2. CASE loop[w] = "granted" /\ Release(Stopped(w), waiters)
    BY <1>5, <1>9, <2>2 DEF ObserveShutdown
  <2> QED  BY <1>9, <2>1, <2>2 DEF ObserveShutdown
<1>10. CASE AcceptErrorAborts(w)
  <2>1. UNCHANGED <<stage, loop>>
    BY <1>10 DEF AcceptErrorAborts, loopVars
  <2> QED  BY <2>1, SeenAsStutter DEF InService, Gone, GateOpen
<1> QED  BY <1>1, <1>2, <1>6, <1>7, <1>8, <1>9, <1>10 DEF WorkerStep

(* Every step of a handler task is a step of the limiter.                  *)
LEMMA HandlerStepSeen ==
  ASSUME IInv, NEW p \in Handlers, HandlerStep(p)
  PROVE  [Limiter!LimiterNext]_(Limiter!limiterVars)
<1>0. /\ permits \in Nat
      /\ loop \in [Workers -> LoopStates]
      /\ waiters \in Seq(Workers)
      /\ WaitOK(permits, loop, waiters)
  BY DEF IInv, TypeOK, WaitInv, LoopStates
<1>1. ASSUME Release(loop, waiters) PROVE SameLoops(loop)
  BY <1>0, <1>1, ReleaseKeeps
<1>2. handler[p] = "busy" => cur[p] \in InService /\ stage[cur[p]] \in Active
  BY DEF IInv, OwnInv, CurInv, InService, Permitted
<1>3. CASE Receive(p)
  <2>1. Head(queue[p]) \in Conns /\ stage[Head(queue[p])] = "queued"
    BY <1>3, HeadLeaves DEF Receive, TakeHead, IInv
  <2>2. InService' = InService /\ Gone' = Gone
    BY <1>3, <2>1
    DEF Receive, TakeHead, IInv, TypeOK, InService, Gone, Permitted, Active, Ended
  <2>3. GateOpen' = GateOpen
    BY <1>3 DEF Receive, TakeHead, GateOpen, loopVars
  <2> QED  BY <2>2, <2>3, SeenAsStutter
<1>4. CASE Sniff(p) \/ HandshakeDone(p)
  <2>1. PICK s \in Active : stage' = [stage EXCEPT ![cur[p]] = s]
    BY <1>4 DEF Sniff, HandshakeDone, Active
  <2>2. cur[p] \in InService /\ stage[cur[p]] \in Active
    BY <1>2, <1>4 DEF Sniff, HandshakeDone
  <2>3. InService' = InService /\ Gone' = Gone
    BY <2>1, <2>2 DEF IInv, TypeOK, InService, Gone, Permitted, Active, Ended
  <2>4. GateOpen' = GateOpen
    BY <1>4 DEF Sniff, HandshakeDone, GateOpen, loopVars
  <2> QED  BY <2>3, <2>4, SeenAsStutter
<1>5. CASE Finish(p)
  BY <1>1, <1>2, <1>5, EndSeen DEF Finish, LetGo, Ended
<1>6. CASE PanicUnwinds(p)
  BY <1>1, <1>2, <1>6, EndSeen DEF PanicUnwinds, LetGo, Ended
<1>7. CASE DropQueued(p)
  <2>1. Head(queue[p]) \in Conns /\ stage[Head(queue[p])] = "queued"
    BY <1>7, HeadLeaves DEF DropQueued, IInv
  <2>2. Head(queue[p]) \in InService
    BY <2>1 DEF InService, Permitted
  <2> QED  BY <1>1, <1>7, <2>2, EndSeen DEF DropQueued, Ended
<1>8. CASE PanicAborts(p) \/ CloseChannel(p) \/ Exit(p)
  <2>1. stage' = stage /\ loop' = loop
    BY <1>8 DEF PanicAborts, CloseChannel, Exit, loopVars
  <2>2. InService' = InService /\ Gone' = Gone /\ GateOpen' = GateOpen
    BY <2>1 DEF InService, Gone, GateOpen
  <2> QED  BY <2>2, SeenAsStutter
<1> QED  BY <1>3, <1>4, <1>5, <1>6, <1>7, <1>8 DEF HandlerStep

(* Every step is a step of the limiter or changes nothing it sees.         *)
LEMMA NextSeen ==
  IInv /\ [Next]_vars => [Limiter!LimiterNext]_(Limiter!limiterVars)
<1> SUFFICES ASSUME IInv, [Next]_vars
             PROVE  [Limiter!LimiterNext]_(Limiter!limiterVars)
  OBVIOUS
<1>1. ASSUME NEW c \in Conns, NEW w \in Workers, Connect(c, w)
      PROVE  [Limiter!LimiterNext]_(Limiter!limiterVars)
  <2>1. InService' = InService /\ Gone' = Gone
    BY <1>1 DEF Connect, IInv, TypeOK, InService, Gone, Permitted, Active, Ended
  <2>2. GateOpen' = GateOpen
    BY <1>1 DEF Connect, GateOpen
  <2> QED  BY <2>1, <2>2, SeenAsStutter
<1>2. CASE MainStep \/ UNCHANGED vars
  <2>1. stage' = stage /\ loop' = loop
    BY <1>2 DEF MainStep, CtrlC, DrainDone, GiveUp, Sigterm, vars, loopVars
  <2>2. InService' = InService /\ Gone' = Gone /\ GateOpen' = GateOpen
    BY <2>1 DEF InService, Gone, GateOpen
  <2> QED  BY <2>2, SeenAsStutter
<1> QED  BY <1>1, <1>2, WorkerStepSeen, HandlerStepSeen DEF Next

(* Detailed and abstract specification: every behaviour of the workers is  *)
(* one of the limiter.                                                     *)
THEOREM ImplementsLimiter == Spec => RefinesLimiter
<1>1. Init => Limiter!LimiterInit
  BY LimiterInitially
<1>2. IInv /\ [Next]_vars => [Limiter!LimiterNext]_(Limiter!limiterVars)
  BY NextSeen
<1> QED  BY <1>1, <1>2, Invariance, PTL DEF Spec, RefinesLimiter, Limiter!LimiterSpec

-----------------------------------------------------------------------------
(* When the tasks rest.                                                    *)

(* The accept loop has ended, or both branches of its select pend: no      *)
(* connection or no permit has come, and no signal.                        *)
LoopRests(w) ==
    \/ loop[w] = "stopped"
    \/ /\ phase = "running"
       /\ \/ loop[w] = "accepting" /\ backlog[w] = {}
          \/ loop[w] = "waiting"

(* A busy handler waits for its client; one without a connection rests in  *)
(* recv, or is over.                                                       *)
HandlerRests(p) ==
    \/ handler[p] = "busy"
    \/ handler[p] = "idle" /\ queue[p] = <<>> /\ loop[p[1]] # "stopped"
    \/ TaskDone(p)

(* main waits for the signal, or for a task that is not over.              *)
MainRests ==
    phase = "draining" =>
        \/ \E w \in Workers : loop[w] # "stopped"
        \/ \E p \in Handlers : ~ TaskDone(p)

AllRest ==
    /\ Alive
    /\ \A w \in Workers : LoopRests(w)
    /\ \A p \in Handlers : HandlerRests(p)
    /\ MainRests

(* If no task of the server can go on, then only clients are waited for: a *)
(* dispatched connection waits behind one that is served, a connection     *)
(* that has no handler waits for one of the permits, all of which are with *)
(* connections, and the drain waits for a handler that is serving.         *)
OnlyClientsAwaited ==
    AllRest =>
        /\ \A c \in Conns : stage[c] = "queued" =>
              \E p \in Handlers :
                 handler[p] = "busy" /\ \E i \in 1 .. Len(queue[p]) : queue[p][i] = c
        /\ \A c \in Conns : stage[c] \in {"backlog", "accepted"} =>
              phase = "running" /\ Cardinality(InService) = MaxConnections
        /\ phase = "draining" => \E p \in Handlers : handler[p] = "busy"

(* A resting handler with something in its channel is busy.                *)
LEMMA QueuedBehindBusy ==
  ASSUME IInv, AllRest, NEW c \in Conns, stage[c] = "queued"
  PROVE  \E p \in Handlers :
            handler[p] = "busy" /\ \E i \in 1 .. Len(queue[p]) : queue[p][i] = c
<1>1. PICK p \in Handlers : \E i \in 1 .. Len(queue[p]) : queue[p][i] = c
  BY DEF IInv, OwnInv, QueueInv
<1>2. queue[p] # <<>>
  BY <1>1, EmptySeq
<1>3. handler[p] = "busy"
  BY <1>2 DEF AllRest, HandlerRests, TaskDone, IInv, OwnInv, ExitInv
<1> QED  BY <1>1, <1>3

(* A resting loop that has something to do waits for a permit.             *)
LEMMA LoopWaits ==
  ASSUME IInv, AllRest, NEW c \in Conns, stage[c] \in {"backlog", "accepted"}
  PROVE  phase = "running" /\ \E w \in Workers : loop[w] = "waiting"
<1>1. CASE stage[c] = "backlog"
  <2>1. PICK w \in Workers : c \in backlog[w]
    BY <1>1 DEF IInv, OwnInv, BacklogInv
  <2>2. loop[w] # "stopped"
    BY <2>1 DEF IInv, OwnInv, BacklogInv
  <2>3. phase = "running" /\ loop[w] = "waiting"
    BY <2>1, <2>2 DEF AllRest, LoopRests
  <2> QED  BY <2>3
<1>2. CASE stage[c] = "accepted"
  <2>1. PICK w \in Workers : held[w] = c
    BY <1>2 DEF IInv, OwnInv, HeldInv
  <2>2. loop[w] \in Waiting
    BY <2>1 DEF IInv, OwnInv, HeldInv
  <2>3. phase = "running" /\ loop[w] = "waiting"
    BY <2>2 DEF AllRest, LoopRests, Waiting
  <2> QED  BY <2>3
<1> QED  BY <1>1, <1>2

(* When a loop waits and none is about to dispatch, all permits are with   *)
(* connections: this is where permit conservation and the wake-ups meet.   *)
LEMMA WaitingMeansFull ==
  ASSUME IInv, AllRest, NEW w \in Workers, loop[w] = "waiting"
  PROVE  Cardinality(InService) = MaxConnections
<1>1. waiters # <<>>
  BY EmptySeq DEF IInv, WaitInv, WaitOK
<1>2. permits = 0
  BY <1>1 DEF IInv, WaitInv, WaitOK, TypeOK
<1>3. Granted = {}
  BY DEF Granted, AllRest, LoopRests
<1>4. Cardinality(Granted) = 0
  BY <1>3, FS_EmptySet
<1> QED  BY <1>2, <1>4, InServiceFinite, FS_CardinalityType DEF IInv, PermitConservation

(* A drain with nobody busy has only tasks that are over.                  *)
LEMMA DrainWaitsForBusy ==
  ASSUME IInv, AllRest, phase = "draining"
  PROVE  \E p \in Handlers : handler[p] = "busy"
<1>1. \A w \in Workers : loop[w] = "stopped"
  BY DEF AllRest, LoopRests
<1>2. PICK p \in Handlers : ~ TaskDone(p)
  BY <1>1 DEF AllRest, MainRests
<1>3. p[1] \in Workers
  BY DEF Handlers
<1>4. loop[p[1]] = "stopped"
  BY <1>1, <1>3
<1>5. handler[p] = "busy"
  BY <1>2, <1>4 DEF AllRest, HandlerRests
<1> QED  BY <1>5

(* No task waits for another, for a permit nobody holds, or for a wake-up  *)
(* that has been lost: the safety half of DrainCompletes and               *)
(* EveryConnectionEnds.                                                    *)
THEOREM NothingStuck == Spec => []OnlyClientsAwaited
<1>1. IInv => OnlyClientsAwaited
  <2> SUFFICES ASSUME IInv, AllRest
               PROVE  /\ \A c \in Conns : stage[c] = "queued" =>
                            \E p \in Handlers :
                               /\ handler[p] = "busy"
                               /\ \E i \in 1 .. Len(queue[p]) : queue[p][i] = c
                      /\ \A c \in Conns : stage[c] \in {"backlog", "accepted"} =>
                            phase = "running" /\ Cardinality(InService) = MaxConnections
                      /\ phase = "draining" => \E p \in Handlers : handler[p] = "busy"
    BY DEF OnlyClientsAwaited
  <2>1. \A c \in Conns : stage[c] = "queued" =>
           \E p \in Handlers :
              handler[p] = "busy" /\ \E i \in 1 .. Len(queue[p]) : queue[p][i] = c
    BY QueuedBehindBusy
  <2>2. \A c \in Conns : stage[c] \in {"backlog", "accepted"} =>
           phase = "running" /\ Cardinality(InService) = MaxConnections
    BY LoopWaits, WaitingMeansFull
  <2>3. phase = "draining" => \E p \in Handlers : handler[p] = "busy"
    BY DrainWaitsForBusy
  <2> QED  BY <2>1, <2>2, <2>3
<1> QED  BY <1>1, Invariance, PTL

=============================================================================
