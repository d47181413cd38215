----------------------------- MODULE TcpWorkers -----------------------------
(***************************************************************************)
(* The TCP side of the server (rust-server/src/tcp_worker.rs) with the     *)
(* part of main and wait_for_shutdown that starts and ends it.             *)
(*                                                                         *)
(* Every worker owns a SO_REUSEPORT listener, one accept loop task and a   *)
(* pool of handler tasks.  The accept loop takes a connection from its     *)
(* listener, waits for a permit of the semaphore all workers share, and    *)
(* sends connection and permit to the next handler of its pool, in turn.   *)
(* A handler owns an unbounded channel and serves one connection at a      *)
(* time; the permit is released when the connection is done.  Ctrl+C makes *)
(* the accept loops stop; main then joins all tasks, or gives up.          *)
(*                                                                         *)
(* A step of the model is what a task does between two points where        *)
(* another thread of the runtime can see a difference.                     *)
(***************************************************************************)
EXTENDS Naturals, Sequences, SequencesExt, FiniteSets

CONSTANTS
    Workers,         \* the accept loops, one per listener
    Conns,           \* the TCP connections clients open
    MaxConnections,  \* permits of conn_semaphore
    HandlersPerWorker,
    CounterSpan,     \* values of the usize next_handler before it wraps
    Panics,          \* what a panic in a handler may do (see below)
    None             \* no connection

(* The dev profile unwinds a panicking task, the release profile aborts    *)
(* the process.                                                            *)
ASSUME ParametersAssumption ==
    /\ IsFiniteSet(Workers) /\ Workers # {}
    /\ IsFiniteSet(Conns)
    /\ None \notin Conns
    /\ MaxConnections \in Nat
    /\ HandlersPerWorker \in Nat \ {0}
    /\ CounterSpan \in Nat \ {0}
    /\ Panics \subseteq {"unwind", "abort"}

Handlers == Workers \X (0 .. HandlersPerWorker - 1)

VARIABLES
    phase,     \* what main does, or how the process ended
    stage,     \* how far each connection is
    backlog,   \* per worker: connections in the kernel's listen queue
    loop,      \* per worker: where its accept loop is suspended
    held,      \* per worker: the accepted connection without a handler yet
    next,      \* per worker: next_handler
    permits,   \* free permits of conn_semaphore
    waiters,   \* workers queued in conn_semaphore, the first served first
    queue,     \* per handler: connections sent and not received
    handler,   \* per handler: where the task is
    cur        \* per handler: the connection it serves

vars == <<phase, stage, backlog, loop, held, next, permits, waiters,
          queue, handler, cur>>

loopVars == <<backlog, loop, held, next>>
poolVars == <<queue, handler, cur>>

-----------------------------------------------------------------------------
(* A connection holds a permit from its dispatch to the end of its handler *)
(* call.                                                                   *)
Active    == {"sniffing", "handshaking", "serving"}
Permitted == {"queued"} \cup Active
Ended     == {"closed", "reset"}

InService == {c \in Conns : stage[c] \in Permitted}
Accepted  == {c \in Conns : stage[c] \in {"accepted"} \cup Permitted}
Granted   == {w \in Workers : loop[w] = "granted"}

Alive == phase \in {"running", "draining"}

Init ==
    /\ phase = "running"
    /\ stage = [c \in Conns |-> "new"]
    /\ backlog = [w \in Workers |-> {}]
    /\ loop = [w \in Workers |-> "accepting"]
    /\ held = [w \in Workers |-> None]
    /\ next = [w \in Workers |-> 0]
    /\ permits = MaxConnections
    /\ waiters = <<>>
    /\ queue = [p \in Handlers |-> <<>>]
    /\ handler = [p \in Handlers |-> "idle"]
    /\ cur = [p \in Handlers |-> None]

-----------------------------------------------------------------------------
(* The semaphore: a released permit goes to the first waiter, whose task   *)
(* is woken with it, and only without waiters becomes free.  ls is loop    *)
(* after the caller's own step, q is waiters after it.                     *)
Release(ls, q) ==
    IF q = <<>>
    THEN /\ permits' = permits + 1
         /\ loop' = ls
         /\ waiters' = q
    ELSE /\ loop' = [ls EXCEPT ![Head(q)] = "granted"]
         /\ waiters' = Tail(q)
         /\ UNCHANGED permits

(* Mutant: the accepted stream outlives the loop, nobody owns it.          *)
DroppedLeaking(w) == backlog[w]

(* Mutant: the loop takes what its handlers have queued down with it.      *)
DroppedAborting(w) ==
    backlog[w] \cup {held[w]}
      \cup UNION {ToSet(queue[p]) : p \in {r \in Handlers : r[1] = w}}

(* What the accept loop takes with it when it leaves its `loop`: the       *)
(* stream in hand and, with its listener, whatever is in the backlog.      *)
Dropped(w) == backlog[w] \cup {held[w]}

LoopEnds(w) ==
    /\ stage' = [c \in Conns |-> IF c \in Dropped(w) THEN "reset" ELSE stage[c]]
    /\ backlog' = [backlog EXCEPT ![w] = {}]
    /\ held' = [held EXCEPT ![w] = None]

Stopped(w) == [loop EXCEPT ![w] = "stopped"]

-----------------------------------------------------------------------------
(* Clients and the kernel.                                                 *)

Connect(c, w) ==
    /\ Alive
    /\ stage[c] = "new"
    /\ loop[w] # "stopped"
    /\ stage' = [stage EXCEPT ![c] = "backlog"]
    /\ backlog' = [backlog EXCEPT ![w] = @ \cup {c}]
    /\ UNCHANGED <<phase, loop, held, next, permits, waiters, poolVars>>

-----------------------------------------------------------------------------
(* The accept loop.                                                        *)

Accept(w) ==
    /\ Alive
    /\ loop[w] = "accepting"
    /\ \E c \in backlog[w] :
          /\ stage' = [stage EXCEPT ![c] = "accepted"]
          /\ backlog' = [backlog EXCEPT ![w] = @ \ {c}]
          /\ held' = [held EXCEPT ![w] = c]
    /\ loop' = [loop EXCEPT ![w] = "acquiring"]
    /\ UNCHANGED <<phase, next, permits, waiters, poolVars>>

(* accept fails, for instance without file descriptors left: the worker    *)
(* is finished for good.  It is printed first; if that panics, unwinding   *)
(* ends the loop as the break does.                                        *)
AcceptError(w) ==
    /\ Alive
    /\ loop[w] = "accepting"
    /\ LoopEnds(w)
    /\ loop' = Stopped(w)
    /\ UNCHANGED <<phase, next, permits, waiters, poolVars>>

(* In the release profile the same print ends the process.                 *)
AcceptErrorAborts(w) ==
    /\ Alive
    /\ "abort" \in Panics
    /\ loop[w] = "accepting"
    /\ phase' = "aborted"
    /\ UNCHANGED <<stage, loopVars, permits, waiters, poolVars>>

(* With the permit in hand the loop sends to handler next % pool size.     *)
Target(w) == <<w, next[w] % HandlersPerWorker>>

Open(p) == handler[p] \notin {"dead", "exited"}

Send(w) ==
    /\ Open(Target(w))
    /\ queue' = [queue EXCEPT ![Target(w)] = Append(@, held[w])]
    /\ stage' = [stage EXCEPT ![held[w]] = "queued"]
    /\ held' = [held EXCEPT ![w] = None]
    /\ loop' = [loop EXCEPT ![w] = "accepting"]
    /\ UNCHANGED <<backlog, waiters>>

(* The channel is closed: send returns the connection and its permit as an *)
(* error, both are dropped, it is printed, and the loop ends.  A closed    *)
(* channel means that panics unwind, and then one of the print does, too.  *)
SendFails(w) ==
    /\ ~Open(Target(w))
    /\ LoopEnds(w)
    /\ UNCHANGED queue

(* Mutant: next_handler is incremented without wrapping.                   *)
AdvanceUnwrapped(w) == next' = [next EXCEPT ![w] = @ + 1]

Advance(w) == next' = [next EXCEPT ![w] = (@ + 1) % CounterSpan]

(* acquire_owned finds a free permit.                                      *)
AcquireAndDispatch(w) ==
    /\ Alive
    /\ loop[w] = "acquiring"
    /\ permits > 0
    /\ \/ Send(w) /\ permits' = permits - 1
       \/ /\ SendFails(w)
          /\ loop' = Stopped(w)
          /\ UNCHANGED <<permits, waiters>>
    /\ Advance(w)
    /\ UNCHANGED <<phase, handler, cur>>

(* No permit is free: the task queues up in the semaphore.                 *)
AwaitPermit(w) ==
    /\ Alive
    /\ loop[w] = "acquiring"
    /\ permits = 0
    /\ loop' = [loop EXCEPT ![w] = "waiting"]
    /\ waiters' = Append(waiters, w)
    /\ UNCHANGED <<phase, stage, backlog, held, next, permits, poolVars>>

(* A release has assigned its permit to this worker.                       *)
DispatchGranted(w) ==
    /\ Alive
    /\ loop[w] = "granted"
    /\ \/ Send(w) /\ UNCHANGED permits
       \/ SendFails(w) /\ Release(Stopped(w), waiters)
    /\ Advance(w)
    /\ UNCHANGED <<phase, handler, cur>>

(* Mutant: only accept is raced with the shutdown signal, acquire is not.  *)
ObserveShutdownAccepting(w) ==
    /\ phase = "draining"
    /\ loop[w] = "accepting"
    /\ LoopEnds(w)
    /\ loop' = Stopped(w)
    /\ UNCHANGED <<phase, next, permits, waiters, poolVars>>

(* Mutant: the acquire future is created outside the select and outlives   *)
(* the loop, so that a waiter keeps its place.                             *)
ObserveShutdownQueued(w) ==
    /\ phase = "draining"
    /\ loop[w] = "waiting"
    /\ LoopEnds(w)
    /\ loop' = Stopped(w)
    /\ UNCHANGED <<phase, next, permits, waiters, poolVars>>

(* The shutdown_rx.changed() branch of either select.  In the second one   *)
(* the acquire future is dropped: a queued waiter leaves the semaphore, an *)
(* assigned permit is passed on.                                           *)
ObserveShutdown(w) ==
    /\ phase = "draining"
    /\ loop[w] # "stopped"
    /\ LoopEnds(w)
    /\ \/ /\ loop[w] \in {"accepting", "acquiring"}
          /\ loop' = Stopped(w)
          /\ UNCHANGED <<permits, waiters>>
       \/ /\ loop[w] = "waiting"
          /\ loop' = Stopped(w)
          /\ \E i \in DOMAIN waiters :
                waiters[i] = w /\ waiters' = RemoveAt(waiters, i)
          /\ UNCHANGED permits
       \/ /\ loop[w] = "granted"
          /\ Release(Stopped(w), waiters)
    /\ UNCHANGED <<phase, next, poolVars>>

-----------------------------------------------------------------------------
(* A handler task.                                                         *)

TakeHead(p) ==
    /\ Alive
    /\ handler[p] = "idle"
    /\ queue[p] # <<>>
    /\ handler' = [handler EXCEPT ![p] = "busy"]
    /\ cur' = [cur EXCEPT ![p] = Head(queue[p])]
    /\ queue' = [queue EXCEPT ![p] = Tail(@)]
    /\ stage' = [stage EXCEPT ![Head(queue[p])] = "sniffing"]
    /\ UNCHANGED <<phase, backlog, held, next>>

(* Mutant: `let _ = permit` drops the permit when the connection arrives.  *)
ReceiveDroppingPermit(p) == TakeHead(p) /\ Release(loop, waiters)

Receive(p) == TakeHead(p) /\ UNCHANGED <<loop, permits, waiters>>

(* The first byte has been read: 0x16 starts a TLS handshake, anything     *)
(* else is served as plain HTTP.                                           *)
Sniff(p) ==
    /\ Alive
    /\ handler[p] = "busy"
    /\ stage[cur[p]] = "sniffing"
    /\ \E s \in {"handshaking", "serving"} :
          stage' = [stage EXCEPT ![cur[p]] = s]
    /\ UNCHANGED <<phase, loopVars, permits, waiters, poolVars>>

HandshakeDone(p) ==
    /\ Alive
    /\ handler[p] = "busy"
    /\ stage[cur[p]] = "handshaking"
    /\ stage' = [stage EXCEPT ![cur[p]] = "serving"]
    /\ UNCHANGED <<phase, loopVars, permits, waiters, poolVars>>

(* The connection leaves its handler.                                      *)
LetGo(p, s, h) ==
    /\ Alive
    /\ handler[p] = "busy"
    /\ stage' = [stage EXCEPT ![cur[p]] = s]
    /\ handler' = [handler EXCEPT ![p] = h]
    /\ cur' = [cur EXCEPT ![p] = None]
    /\ UNCHANGED <<phase, backlog, held, next, queue>>

(* handle_tcp_connection returns: the first read or the handshake failed,  *)
(* or hyper is done with the connection.  _permit is dropped.              *)
Finish(p) == LetGo(p, "closed", "idle") /\ Release(loop, waiters)

(* Mutant: the permit is released by a call after the connection, which a  *)
(* panic skips, instead of by dropping it.                                 *)
PanicUnwindsLeaking(p) ==
    /\ "unwind" \in Panics
    /\ LetGo(p, "reset", "unwinding")
    /\ UNCHANGED <<loop, permits, waiters>>

(* The task panics: a print of a failed read or handshake, or what hyper   *)
(* calls.  Unwinding drops the connection and its permit first, the        *)
(* receiver after them.                                                    *)
PanicUnwinds(p) ==
    /\ "unwind" \in Panics
    /\ LetGo(p, "reset", "unwinding")
    /\ Release(loop, waiters)

PanicAborts(p) ==
    /\ Alive
    /\ "abort" \in Panics
    /\ handler[p] = "busy"
    /\ phase' = "aborted"
    /\ UNCHANGED <<stage, loopVars, permits, waiters, poolVars>>

(* Dropping the receiver closes the channel, then drops what is still in   *)
(* it, one message after the other.                                        *)
CloseChannel(p) ==
    /\ Alive
    /\ handler[p] = "unwinding"
    /\ handler' = [handler EXCEPT ![p] = "dead"]
    /\ UNCHANGED <<phase, stage, loopVars, permits, waiters, queue, cur>>

DropQueued(p) ==
    /\ Alive
    /\ handler[p] = "dead"
    /\ queue[p] # <<>>
    /\ stage' = [stage EXCEPT ![Head(queue[p])] = "reset"]
    /\ queue' = [queue EXCEPT ![p] = Tail(@)]
    /\ Release(loop, waiters)
    /\ UNCHANGED <<phase, backlog, held, next, handler, cur>>

(* recv returns None: all senders are dropped and the channel is empty.    *)
Exit(p) ==
    /\ Alive
    /\ handler[p] = "idle"
    /\ queue[p] = <<>>
    /\ loop[p[1]] = "stopped"
    /\ handler' = [handler EXCEPT ![p] = "exited"]
    /\ UNCHANGED <<phase, stage, loopVars, permits, waiters, queue, cur>>

-----------------------------------------------------------------------------
(* main: wait_for_shutdown.                                                *)

(* The first Ctrl+C: the watch channel tells every worker.                 *)
CtrlC ==
    /\ phase = "running"
    /\ phase' = "draining"
    /\ UNCHANGED <<stage, loopVars, permits, waiters, poolVars>>

(* Mutants: the handles of the handler tasks are not kept; the join of a   *)
(* panicked task is unwrapped.                                             *)
TaskDoneUntracked(p) == TRUE
TaskDoneUnwrapped(p) == handler[p] = "exited"

TaskDone(p) == handler[p] = "exited" \/ (handler[p] = "dead" /\ queue[p] = <<>>)

(* All handles are joined before the timeout.                              *)
DrainDone ==
    /\ phase = "draining"
    /\ \A w \in Workers : loop[w] = "stopped"
    /\ \A p \in Handlers : TaskDone(p)
    /\ phase' = "clean"
    /\ UNCHANGED <<stage, loopVars, permits, waiters, poolVars>>

(* SHUTDOWN_TIMEOUT_SECS pass, or force_quit sees a second Ctrl+C.         *)
GiveUp ==
    /\ phase = "draining"
    /\ phase' \in {"timedout", "forced"}
    /\ UNCHANGED <<stage, loopVars, permits, waiters, poolVars>>

(* No handler is installed for SIGTERM: its default action is to end the   *)
(* process.                                                                *)
Sigterm ==
    /\ Alive
    /\ phase' = "killed"
    /\ UNCHANGED <<stage, loopVars, permits, waiters, poolVars>>

-----------------------------------------------------------------------------
WorkerStep(w) ==
    \/ Accept(w)
    \/ AcceptError(w)
    \/ AcceptErrorAborts(w)
    \/ AcquireAndDispatch(w)
    \/ AwaitPermit(w)
    \/ DispatchGranted(w)
    \/ ObserveShutdown(w)

HandlerStep(p) ==
    \/ Receive(p)
    \/ Sniff(p)
    \/ HandshakeDone(p)
    \/ Finish(p)
    \/ PanicUnwinds(p)
    \/ PanicAborts(p)
    \/ CloseChannel(p)
    \/ DropQueued(p)
    \/ Exit(p)

MainStep == CtrlC \/ DrainDone \/ GiveUp \/ Sigterm

Next ==
    \/ \E c \in Conns, w \in Workers : Connect(c, w)
    \/ \E w \in Workers : WorkerStep(w)
    \/ \E p \in Handlers : HandlerStep(p)
    \/ MainStep

Spec == Init /\ [][Next]_vars

(* The runtime polls every woken task and select! polls its branches in    *)
(* random order, so a branch that stays ready is taken in the end.  main   *)
(* is a task like the others.  Nothing makes clients connect, accept fail, *)
(* a task panic, the timeout expire or a signal arrive.                    *)
TaskFairness ==
    /\ \A w \in Workers :
          /\ WF_vars(Accept(w))
          /\ WF_vars(AcquireAndDispatch(w))
          /\ WF_vars(AwaitPermit(w))
          /\ WF_vars(DispatchGranted(w))
          /\ WF_vars(ObserveShutdown(w))
    /\ \A p \in Handlers :
          /\ WF_vars(Receive(p))
          /\ WF_vars(CloseChannel(p))
          /\ WF_vars(DropQueued(p))
          /\ WF_vars(Exit(p))
    /\ WF_vars(DrainDone)

(* Clients that send their first byte, complete the handshake and close in *)
(* the end (or fail).                                                      *)
ClientFairness == \A p \in Handlers : WF_vars(Finish(p))

FairSpec == Spec /\ TaskFairness

-----------------------------------------------------------------------------
(* Properties.                                                             *)

(* Every variable has its type.                                            *)
TypeOK ==
    /\ phase \in {"running", "draining", "clean", "timedout", "forced",
                  "aborted", "killed"}
    /\ stage \in [Conns -> {"new", "backlog", "accepted", "queued"}
                              \cup Active \cup Ended]
    /\ backlog \in [Workers -> SUBSET Conns]
    /\ loop \in [Workers -> {"accepting", "acquiring", "waiting", "granted",
                             "stopped"}]
    /\ held \in [Workers -> Conns \cup {None}]
    /\ next \in [Workers -> 0 .. CounterSpan - 1]
    /\ permits \in Nat
    /\ waiters \in Seq(Workers)
    /\ queue \in [Handlers -> Seq(Conns)]
    /\ handler \in [Handlers -> {"idle", "busy", "unwinding", "dead", "exited"}]
    /\ cur \in [Handlers -> Conns \cup {None}]

(* No permit is lost and none is released twice: the free permits, those   *)
(* assigned to a worker that has not dispatched yet and those of dispatched *)
(* connections always add up to MAX_CONNECTIONS, through cancelled         *)
(* acquires, failed sends, panics and shutdown.                            *)
PermitConservation ==
    permits + Cardinality(Granted) + Cardinality(InService) = MaxConnections

(* No wake-up is lost: no permit is free while a worker waits for one, and *)
(* a worker that waits is in the semaphore's queue, once, and nobody else. *)
NoLostWakeup ==
    /\ permits > 0 => waiters = <<>>
    /\ IsInjective(waiters)
    /\ ToSet(waiters) = {w \in Workers : loop[w] = "waiting"}

(* Everything that holds connection c.                                     *)
Holders(c) ==
    {<<"backlog", w>> : w \in {v \in Workers : c \in backlog[v]}}
      \cup {<<"accepted", w>> : w \in {v \in Workers : held[v] = c}}
      \cup (UNION {{<<"queued", p, i>> : i \in {j \in DOMAIN queue[p] : queue[p][j] = c}} :
                      p \in Handlers})
      \cup {<<"busy", p>> : p \in {r \in Handlers : cur[r] = c}}

(* A connection has one owner, from the kernel's queue to the handler that *)
(* serves it, and the owner is the one its stage calls for: none is leaked *)
(* by a failed send or a panic, none is served by two handlers.            *)
OneOwner ==
    \A c \in Conns :
        IF stage[c] \in {"new"} \cup Ended
        THEN Holders(c) = {}
        ELSE \E o \in Holders(c) :
                /\ Holders(c) = {o}
                /\ o[1] = IF stage[c] \in Active THEN "busy" ELSE stage[c]

(* Accepted sockets are bounded by the permits plus one per accept loop:   *)
(* a loop accepts before it has a permit, and then accepts nothing more.   *)
AcceptedBound == Cardinality(Accepted) <= MaxConnections + Cardinality(Workers)

(* "Shutdown complete - all workers exited cleanly" is true: no connection *)
(* is accepted, queued or being served, and every permit is back.          *)
CleanMeansDrained ==
    phase = "clean" =>
        /\ Accepted = {}
        /\ permits = MaxConnections

(* A dispatched connection is dropped unserved only by a panic of the very *)
(* handler it was sent to; neither shutdown nor the end of the accept loop *)
(* takes it away from its handler.                                         *)
DispatchedIsServed ==
    [][\A c \in Conns :
          stage[c] \in Permitted /\ stage'[c] = "reset" =>
              \E p \in Handlers :
                  /\ handler'[p] \in {"unwinding", "dead"}
                  /\ c = cur[p] \/ c \in ToSet(queue[p])]_vars

(* Every accept loop gets to see the shutdown signal, however long the     *)
(* clients keep all permits: also a loop that waits for one.               *)
LoopsStop ==
    phase = "draining" ~> ~Alive \/ \A w \in Workers : loop[w] = "stopped"

(* If clients close in the end, the drain completes without the timeout:   *)
(* no task waits for something that will not come.                         *)
DrainCompletes == ClientFairness => (phase = "draining" ~> ~Alive)

(* If clients close in the end, every connection is served or turned away: *)
(* none is stuck behind a permit, a dead handler or a stopped loop.        *)
EveryConnectionEnds ==
    ClientFairness =>
        \A c \in Conns : stage[c] = "backlog" ~> stage[c] \in Ended \/ ~Alive

(* The workers implement the connection limiter.                           *)
Limiter == INSTANCE ConnectionLimiter WITH
    inService <- InService,
    gone <- {c \in Conns : stage[c] \in Ended},
    open <- \E w \in Workers : loop[w] # "stopped"

RefinesLimiter == Limiter!LimiterSpec

=============================================================================
