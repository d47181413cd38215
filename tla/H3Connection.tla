---------------------------- MODULE H3Connection ----------------------------
(***************************************************************************)
(* One HTTP/3 connection (rust-server/src/handlers.rs).                    *)
(*                                                                         *)
(* handle_h3_connection accepts request streams and sends each to the next *)
(* handler of the connection's own pool.  A handler answers one request at *)
(* a time and sends the finished stream back; the accept loop keeps it for *)
(* a while, so that Quinn can transmit the end of the answer, and drops it *)
(* after a later accept.  Until then the stream counts as open, for Quinn  *)
(* and for h3: a client may only have MaxStreams open streams, and accept  *)
(* ends after the client's GOAWAY only when none is left.                  *)
(***************************************************************************)
EXTENDS Naturals, Sequences, FiniteSets

CONSTANTS
    Requests,     \* the numbers of the request streams the client opens
    NumHandlers,  \* H3_HANDLERS_PER_CONNECTION
    CounterSpan,  \* values of the usize next_handler before it wraps
    MaxStreams,   \* streams the client may have open, by Quinn's limit
    Burst,        \* requests the client has under way at a time
    Panics,       \* {"unwind"} if a handler may panic and unwind, or {}
    None          \* no request

ASSUME ConnectionAssumption ==
    /\ IsFiniteSet(Requests) /\ Requests \subseteq Nat
    /\ None \notin Requests
    /\ NumHandlers \in Nat \ {0}
    /\ CounterSpan \in Nat \ {0}
    /\ MaxStreams \in Nat /\ Burst \in Nat
    /\ Panics \subseteq {"unwind"}

Handlers == 0 .. NumHandlers - 1

VARIABLES
    conn,      \* "open", "goaway" after the client's GOAWAY, "closed"
    stage,     \* per request: where its stream is
    fin,       \* per request: the end of its answer
    incoming,  \* streams the client has opened and accept has not returned
    loop,      \* "draining", "accepting" or "ended"
    next,      \* next_handler
    queue,     \* per handler: requests sent and not received
    handler,   \* per handler: where the task is
    cur        \* per handler: the request it answers

vars == <<conn, stage, fin, incoming, loop, next, queue, handler, cur>>

loopVars == <<incoming, loop, next>>
poolVars == <<queue, handler, cur>>

-----------------------------------------------------------------------------
(* Streams of which somebody in the server holds a handle.                 *)
Held == {r \in Requests : stage[r] \notin {"new", "dropped"}}

(* What the client waits for.  It learns of a failure, and of the end of   *)
(* an answer when Quinn has transmitted it.                                *)
UnderWay ==
    {r \in Requests :
        \/ fin[r] = "none" /\ r \in Held
        \/ fin[r] = "buffered"}

Init ==
    /\ conn = "open"
    /\ stage = [r \in Requests |-> "new"]
    /\ fin = [r \in Requests |-> "none"]
    /\ incoming = <<>>
    /\ loop = "draining"
    /\ next = 0
    /\ queue = [h \in Handlers |-> <<>>]
    /\ handler = [h \in Handlers |-> "idle"]
    /\ cur = [h \in Handlers |-> None]

-----------------------------------------------------------------------------
(* The client, and Quinn.                                                  *)

(* QUIC numbers streams in the order in which they are opened.             *)
Open(r) ==
    /\ conn = "open"
    /\ stage[r] = "new"
    /\ \A q \in Requests : q < r => stage[q] # "new"
    /\ Cardinality(Held) < MaxStreams
    /\ Cardinality(UnderWay) < Burst
    /\ stage' = [stage EXCEPT ![r] = "opened"]
    /\ incoming' = Append(incoming, r)
    /\ UNCHANGED <<conn, fin, loop, next, poolVars>>

Goaway ==
    /\ conn = "open"
    /\ conn' = "goaway"
    /\ UNCHANGED <<stage, fin, loopVars, poolVars>>

(* The client closes, the connection times out, or shutdown closes the     *)
(* endpoint.                                                               *)
Close ==
    /\ conn # "closed"
    /\ conn' = "closed"
    /\ UNCHANGED <<stage, fin, loopVars, poolVars>>

(* Quinn's connection driver sends what is buffered.                       *)
Transmit(r) ==
    /\ conn # "closed"
    /\ fin[r] = "buffered"
    /\ fin' = [fin EXCEPT ![r] = "sent"]
    /\ UNCHANGED <<conn, stage, loopVars, poolVars>>

-----------------------------------------------------------------------------
(* handle_h3_connection.                                                   *)

DrainFinished ==
    /\ loop = "draining"
    /\ loop' = "accepting"
    /\ stage' = [r \in Requests |->
                    IF stage[r] = "finished" THEN "pending" ELSE stage[r]]
    /\ UNCHANGED <<conn, fin, incoming, next, poolVars>>

Target == next % NumHandlers

(* Mutant: the receiver outlives its task, and the channel stays open.     *)
ReachableAlways(h) == TRUE

(* A panicked handler's channel is closed.                                 *)
Reachable(h) == handler[h] # "dead"

(* Mutant: next_handler stays where it was at the end of the pool.         *)
AdvanceUnwrapped == next' = next + 1

Advance == next' = (next + 1) % CounterSpan

(* Mutants: pending_streams is never cleared; the streams it holds are not *)
(* dropped with the function.                                              *)
ClearedNever == stage
LoopEndsLeaking(s) ==
    /\ loop' = "ended"
    /\ conn' = "closed"
    /\ incoming' = <<>>
    /\ stage' = [r \in Requests |->
                    IF s[r] \in {"opened", "finished"} THEN "dropped" ELSE s[r]]

(* pending_streams.clear()                                                 *)
Cleared ==
    [r \in Requests |-> IF stage[r] = "pending" THEN "dropped" ELSE stage[r]]

(* What the end of the function drops, h3_conn included, which closes the  *)
(* connection; s is stage after the caller's own step.                     *)
LoopEnds(s) ==
    /\ loop' = "ended"
    /\ conn' = "closed"
    /\ incoming' = <<>>
    /\ stage' = [r \in Requests |->
                    IF s[r] \in {"opened", "finished", "pending"}
                    THEN "dropped" ELSE s[r]]

(* accept returns a request, and its dispatch succeeds or ends the loop.   *)
AcceptRequest ==
    /\ loop = "accepting"
    /\ incoming # <<>>
    /\ \/ /\ Reachable(Target)
          /\ queue' = [queue EXCEPT ![Target] = Append(@, Head(incoming))]
          /\ stage' = [Cleared EXCEPT ![Head(incoming)] = "queued"]
          /\ loop' = "draining"
          /\ incoming' = Tail(incoming)
          /\ UNCHANGED conn
       \/ /\ ~ Reachable(Target)
          /\ LoopEnds(Cleared)
          /\ UNCHANGED queue
    /\ Advance
    /\ UNCHANGED <<fin, handler, cur>>

(* accept returns None: no stream is left and the client sent GOAWAY.      *)
AcceptNone ==
    /\ loop = "accepting"
    /\ conn = "goaway"
    /\ Held = {}
    /\ LoopEnds(stage)
    /\ UNCHANGED <<fin, next, poolVars>>

(* accept fails, and the question mark returns.                            *)
AcceptFails ==
    /\ loop = "accepting"
    /\ conn = "closed"
    /\ LoopEnds(stage)
    /\ UNCHANGED <<fin, next, poolVars>>

-----------------------------------------------------------------------------
(* A handler task, and h3_handle_one_request.                              *)

Receive(h) ==
    /\ handler[h] = "idle"
    /\ queue[h] # <<>>
    /\ handler' = [handler EXCEPT ![h] = "busy"]
    /\ cur' = [cur EXCEPT ![h] = Head(queue[h])]
    /\ queue' = [queue EXCEPT ![h] = Tail(@)]
    /\ stage' = [stage EXCEPT ![Head(queue[h])] = "handled"]
    /\ UNCHANGED <<conn, fin, loopVars>>

(* The handler is done with its stream, which goes to s.                   *)
LetGo(h, s, then) ==
    /\ handler[h] = "busy"
    /\ handler' = [handler EXCEPT ![h] = then]
    /\ cur' = [cur EXCEPT ![h] = None]
    /\ stage' = [stage EXCEPT ![cur[h]] = s]
    /\ UNCHANGED <<conn, fin, loopVars, queue>>

(* The request is resolved and the answer handed to Quinn, up to finish:   *)
(* 304, or headers and body.                                               *)
Answer(h) ==
    /\ handler[h] = "busy"
    /\ fin[cur[h]] = "none"
    /\ conn # "closed"
    /\ fin' = [fin EXCEPT ![cur[h]] = "buffered"]
    /\ UNCHANGED <<conn, stage, loopVars, poolVars>>

(* Resolving or a send fails: the client cancels, or the connection ends.  *)
Fail(h) ==
    /\ handler[h] = "busy"
    /\ fin[cur[h]] = "none"
    /\ LetGo(h, "dropped", "idle")

(* Mutant: the stream is dropped in the handler.                           *)
HandBackDropping(h) ==
    /\ handler[h] = "busy"
    /\ fin[cur[h]] # "none"
    /\ LetGo(h, "dropped", "idle")

(* finished_tx.send; without the receiver the stream is dropped.           *)
HandBack(h) ==
    /\ handler[h] = "busy"
    /\ fin[cur[h]] # "none"
    /\ LetGo(h, IF loop = "ended" THEN "dropped" ELSE "finished", "idle")

(* Unwinding drops the stream first, then the channel with what is in it.  *)
PanicUnwinds(h) ==
    /\ "unwind" \in Panics
    /\ LetGo(h, "dropped", "unwinding")

DropChannel(h) ==
    /\ handler[h] = "unwinding"
    /\ handler' = [handler EXCEPT ![h] = "dead"]
    /\ queue' = [queue EXCEPT ![h] = <<>>]
    /\ stage' = [r \in Requests |->
                    IF \E i \in DOMAIN queue[h] : queue[h][i] = r
                    THEN "dropped" ELSE stage[r]]
    /\ UNCHANGED <<conn, fin, loopVars, cur>>

(* recv returns None: the senders are gone and the channel is empty.       *)
Exit(h) ==
    /\ handler[h] = "idle"
    /\ queue[h] = <<>>
    /\ loop = "ended"
    /\ handler' = [handler EXCEPT ![h] = "done"]
    /\ UNCHANGED <<conn, stage, fin, loopVars, queue, cur>>

-----------------------------------------------------------------------------
LoopStep == DrainFinished \/ AcceptRequest \/ AcceptNone \/ AcceptFails

HandlerStep(h) ==
    \/ Receive(h)
    \/ Answer(h)
    \/ Fail(h)
    \/ HandBack(h)
    \/ PanicUnwinds(h)
    \/ DropChannel(h)
    \/ Exit(h)

Next ==
    \/ \E r \in Requests : Open(r) \/ Transmit(r)
    \/ Goaway
    \/ Close
    \/ LoopStep
    \/ \E h \in Handlers : HandlerStep(h)

Spec == Init /\ [][Next]_vars

(* The runtime polls every woken task; a handler whose connection is       *)
(* closed fails.  Quinn's driver is a task as well.  Nothing makes the     *)
(* client open, cancel or close, or a task panic.                          *)
TaskFairness ==
    /\ WF_vars(LoopStep)
    /\ \A r \in Requests : WF_vars(Transmit(r))
    /\ \A h \in Handlers :
          /\ WF_vars(Receive(h))
          /\ WF_vars(conn = "closed" /\ Fail(h))
          /\ WF_vars(HandBack(h))
          /\ WF_vars(DropChannel(h))
          /\ WF_vars(Exit(h))

FairSpec == Spec /\ TaskFairness

(* A client that sends its requests to the end and reads the answers, or   *)
(* cancels.                                                                *)
ClientFairness == \A h \in Handlers : WF_vars(Answer(h) \/ Fail(h))

-----------------------------------------------------------------------------
(* Properties.                                                             *)

(* Every variable has its type.                                            *)
TypeOK ==
    /\ conn \in {"open", "goaway", "closed"}
    /\ stage \in [Requests -> {"new", "opened", "queued", "handled",
                               "finished", "pending", "dropped"}]
    /\ fin \in [Requests -> {"none", "buffered", "sent"}]
    /\ incoming \in Seq(Requests)
    /\ loop \in {"draining", "accepting", "ended"}
    /\ next \in 0 .. CounterSpan - 1
    /\ queue \in [Handlers -> Seq(Requests)]
    /\ handler \in [Handlers -> {"idle", "busy", "unwinding", "dead", "done"}]
    /\ cur \in [Handlers -> Requests \cup {None}]

(* The stream of an answered request is dropped only when, after it came   *)
(* back, a further request arrives, or with the connection, or by a panic. *)
DroppedInTime(r) ==
    fin[r] # "none" /\ stage[r] # "dropped" /\ stage'[r] = "dropped"
    => \/ conn' = "closed"
       \/ \E h \in Handlers : cur[h] = r /\ handler'[h] = "unwinding"
       \/ /\ stage[r] = "pending"
          /\ \E q \in Requests : stage[q] = "opened" /\ stage'[q] = "queued"

KeptUntilNextRequest == [][\A r \in Requests : DroppedInTime(r)]_vars

(* However many requests a connection serves, the streams it has open are  *)
(* bounded by what the client has under way: those at the last drain, the  *)
(* ones handlers were about to send back, one accepted since, and those    *)
(* that wait to be accepted.  With MaxStreams above it, no client that     *)
(* limits itself to Burst is ever refused a stream.                        *)
KeptBound == Cardinality(Held) <= 2 * Burst + NumHandlers + 1

(* If the client does not stall, every request that arrives is answered or *)
(* fails.                                                                  *)
RequestsEnd ==
    ClientFairness =>
        \A r \in Requests :
            (stage[r] = "opened") ~> (fin[r] # "none" \/ stage[r] = "dropped")

(* After the end of the connection its tasks end and all streams are       *)
(* dropped, whatever the client does.                                      *)
TasksEnd ==
    (conn = "closed") ~>
        /\ loop = "ended"
        /\ \A h \in Handlers : handler[h] \in {"dead", "done"}
        /\ Held = {}

=============================================================================
