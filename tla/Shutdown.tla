------------------------------ MODULE Shutdown ------------------------------
(***************************************************************************)
(* The end of the server (rust-server/src/shutdown.rs, main.rs and the     *)
(* loop of quic_worker.rs), with the responses and the log of RequestLog.  *)
(*                                                                         *)
(* main waits for Ctrl+C, announces the shutdown on stderr, sends it to    *)
(* all workers and joins them: the TCP accept loops and handlers, the      *)
(* QUIC workers, the log task.  A task of its own, force_quit, waits for   *)
(* a second Ctrl+C.  A TCP handler ends with its connection, which the     *)
(* client closes.  Over HTTP/2, hyper spawns a task per stream, which may  *)
(* outlive the connection and is joined by nobody.  A QUIC worker closes   *)
(* its endpoint at once, and with it the connections, whose tasks nobody   *)
(* joins either.                                                           *)
(*                                                                         *)
(* Each response is on a connection of its own.  How loops and handlers    *)
(* end is TcpWorkers; here they stop and are done.                         *)
(***************************************************************************)
EXTENDS RequestLog

CONSTANTS
    QuicWorkers,  \* the tasks of spawn_quic_workers
    WorkerOf      \* per HTTP/3 response: the worker its connection came to

ASSUME ShutdownAssumption == WorkerOf \in [H3Responses -> QuicWorkers]

TcpResponses == Responses \ H3Responses

VARIABLES
    phase,      \* what main does, or how the process ended
    accepting,  \* the TCP accept loops run
    conn,       \* per response over TCP: its connection; "left" if that was
                \* HTTP/2 and is over, but for the stream
    endpoint,   \* per QUIC worker: its endpoint, "closed" if it has ended
    forcer      \* the force_quit task

mainVars == <<phase, accepting, conn, endpoint, forcer>>
vars == <<logVars, mainVars>>

-----------------------------------------------------------------------------
Over == {"clean", "timedout", "forced", "killed", "crashed"}

Alive == phase \notin Over

(* A worker whose socket or endpoint could not be created has returned.    *)
Init ==
    /\ LogInit
    /\ phase = "starting"
    /\ accepting = TRUE
    /\ conn = [r \in TcpResponses |-> "none"]
    /\ endpoint \in [QuicWorkers -> {"open", "closed"}]
    /\ forcer = "none"

(* elog!: compiled out without logging, else it waits for stderr and       *)
(* panics if that is closed.                                               *)
CanPrint == mode = "disabled" \/ stderr = "open"
PrintPanics == mode # "disabled" /\ stderr = "closed"

-----------------------------------------------------------------------------
(* The signal.                                                             *)

(* wait_for_shutdown is polled: the handler for SIGINT is installed, for   *)
(* the rest of the process.                                                *)
Listen ==
    /\ phase = "starting"
    /\ phase' = "waiting"
    /\ UNCHANGED <<logVars, accepting, conn, endpoint, forcer>>

(* Ctrl+C.  Before main listens it ends the process; a signal nobody       *)
(* listens for any more, or yet, is lost.                                  *)
Interrupt ==
    /\ Alive
    /\ \/ phase = "starting" /\ phase' = "killed" /\ UNCHANGED forcer
       \/ phase = "waiting" /\ phase' = "announcing" /\ UNCHANGED forcer
       \/ forcer = "listening" /\ forcer' = "exiting" /\ UNCHANGED phase
    /\ UNCHANGED <<logVars, accepting, conn, endpoint>>

(* No handler is installed for SIGTERM.                                    *)
Terminate ==
    /\ Alive
    /\ phase' = "killed"
    /\ UNCHANGED <<logVars, accepting, conn, endpoint, forcer>>

-----------------------------------------------------------------------------
(* main.                                                                   *)

(* "Received shutdown signal", then the watch channel, then force_quit.    *)
Announce ==
    /\ phase = "announcing"
    /\ CanPrint
    /\ SendStop
    /\ phase' = "draining"
    /\ forcer' = "spawned"
    /\ UNCHANGED <<accepting, conn, endpoint>>

(* The same print panics: main and with it the process end, undrained.     *)
PrintCrashes ==
    /\ phase \in {"announcing", "drained", "giving up"}
    /\ PrintPanics
    /\ phase' = "crashed"
    /\ UNCHANGED <<logVars, accepting, conn, endpoint, forcer>>

(* force_quit is polled for the first time: from now on it sees signals.   *)
StartForcer ==
    /\ Alive
    /\ forcer = "spawned"
    /\ forcer' = "listening"
    /\ UNCHANGED <<logVars, phase, accepting, conn, endpoint>>

(* Mutant: the task ends, and leaves the process to main.                  *)
ForceQuitReturning ==
    /\ Alive
    /\ forcer = "exiting"
    /\ forcer' = "gone"
    /\ UNCHANGED <<logVars, phase, accepting, conn, endpoint>>

(* It has received a signal: it prints, and exits.  In the dev profile a   *)
(* failing print ends this task only.                                      *)
ForceQuit ==
    /\ Alive
    /\ forcer = "exiting"
    /\ \/ CanPrint /\ phase' = "forced" /\ UNCHANGED forcer
       \/ PrintPanics /\ "unwind" \in Panics /\ forcer' = "gone" /\ UNCHANGED phase
       \/ PrintPanics /\ "abort" \in Panics /\ phase' = "crashed" /\ UNCHANGED forcer
    /\ UNCHANGED <<logVars, accepting, conn, endpoint>>

(* A handler is done when its connection is; handlers without one are when *)
(* the loops have dropped their senders.                                   *)
HandlersDone == \A r \in TcpResponses : conn[r] # "open"

(* All handles are joined in time; abort() stops force_quit unless it is   *)
(* already on its way out.                                                 *)
DrainDone ==
    /\ phase = "draining"
    /\ ~accepting
    /\ HandlersDone
    /\ \A w \in QuicWorkers : endpoint[w] = "closed"
    /\ ~Logging
    /\ phase' = "drained"
    /\ forcer' = IF forcer = "exiting" THEN forcer ELSE "gone"
    /\ UNCHANGED <<logVars, accepting, conn, endpoint>>

(* SHUTDOWN_TIMEOUT_SECS have passed.                                      *)
GiveUp ==
    /\ phase = "draining"
    /\ phase' = "giving up"
    /\ forcer' = IF forcer = "exiting" THEN forcer ELSE "gone"
    /\ UNCHANGED <<logVars, accepting, conn, endpoint>>

(* The last line is printed, and main returns.                             *)
Exit ==
    /\ CanPrint
    /\ \/ phase = "drained" /\ phase' = "clean"
       \/ phase = "giving up" /\ phase' = "timedout"
    /\ UNCHANGED <<logVars, accepting, conn, endpoint, forcer>>

-----------------------------------------------------------------------------
(* TCP workers.                                                            *)

Connect(r) ==
    /\ Alive
    /\ accepting
    /\ conn[r] = "none"
    /\ conn' = [conn EXCEPT ![r] = "open"]
    /\ UNCHANGED <<logVars, phase, accepting, endpoint, forcer>>

(* The connection is over, whatever has been sent.  Over HTTP/1 it owns    *)
(* the body and drops it; over HTTP/2 that is left to the stream's task.   *)
CloseConn(r) ==
    /\ Alive
    /\ conn[r] = "open"
    /\ \/ /\ conn' = [conn EXCEPT ![r] = "closed"]
          /\ DropBody(r) \/ (body[r] \in {"none", "dropped"} /\ UNCHANGED logVars)
       \/ /\ conn' = [conn EXCEPT ![r] = "left"]
          /\ UNCHANGED logVars
    /\ UNCHANGED <<phase, accepting, endpoint, forcer>>

StopAccepting ==
    /\ Alive
    /\ stop
    /\ accepting
    /\ accepting' = FALSE
    /\ UNCHANGED <<logVars, phase, conn, endpoint, forcer>>

(* Responses are produced on open connections, also while draining, and by *)
(* streams that were spawned before their connection ended.                *)
RespondTcp(r) ==
    /\ Alive
    /\ conn[r] \in {"open", "left"}
    /\ Respond(r)
    /\ UNCHANGED mainVars

SendTcp(r) == Alive /\ TcpStep(r) /\ UNCHANGED mainVars

-----------------------------------------------------------------------------
(* QUIC workers and the tasks of their connections.                        *)

RespondH3(r) ==
    /\ Alive
    /\ endpoint[WorkerOf[r]] = "open"
    /\ Respond(r)
    /\ UNCHANGED mainVars

(* finish() has returned; by now, the endpoint may be closed.              *)
FinishH3(r) ==
    /\ Alive
    /\ H3Finish(r)
    /\ UNCHANGED mainVars

(* The client cancels or is gone, or the endpoint has closed the           *)
(* connection.                                                             *)
FailH3(r) ==
    /\ Alive
    /\ H3Fail(r)
    /\ UNCHANGED mainVars

(* The changed() branch: endpoint.close, and the worker ends.              *)
StopEndpoint(w) ==
    /\ Alive
    /\ stop
    /\ endpoint[w] = "open"
    /\ endpoint' = [endpoint EXCEPT ![w] = "closed"]
    /\ UNCHANGED <<logVars, phase, accepting, conn, forcer>>

(* endpoint.accept returns None, the endpoint's driver is lost: the worker *)
(* prints, and ends with the print or by its panic.                        *)
LoseEndpoint(w) ==
    /\ Alive
    /\ endpoint[w] = "open"
    /\ endpoint' = [endpoint EXCEPT ![w] = "closed"]
    /\ \/ CanPrint /\ UNCHANGED phase
       \/ PrintPanics /\ "unwind" \in Panics /\ UNCHANGED phase
       \/ PrintPanics /\ "abort" \in Panics /\ phase' = "crashed"
    /\ UNCHANGED <<logVars, accepting, conn, forcer>>

-----------------------------------------------------------------------------
(* The log task, and stderr.  A panic in it may abort the process.         *)
LogTask ==
    /\ Alive
    /\ TaskStep
    /\ phase' = IF task' = "aborted" THEN "crashed" ELSE phase
    /\ UNCHANGED <<accepting, conn, endpoint, forcer>>

Reader == Alive /\ (StderrChanges \/ StderrResumes) /\ UNCHANGED mainVars

MainStep == Listen \/ Announce \/ PrintCrashes \/ DrainDone \/ GiveUp \/ Exit

Next ==
    \/ MainStep
    \/ Interrupt \/ Terminate \/ StartForcer \/ ForceQuit
    \/ \E r \in TcpResponses :
          Connect(r) \/ CloseConn(r) \/ RespondTcp(r) \/ SendTcp(r)
    \/ StopAccepting
    \/ \E r \in H3Responses : RespondH3(r) \/ FinishH3(r) \/ FailH3(r)
    \/ \E w \in QuicWorkers : StopEndpoint(w) \/ LoseEndpoint(w)
    \/ LogTask
    \/ Reader

Spec == Init /\ [][Next]_vars

(* Every task that can run does so in the end, and select! is fair to its  *)
(* branches.  Nothing makes clients, users, the reader of stderr or the    *)
(* timeout do anything.                                                    *)
TaskFairness ==
    /\ WF_vars(Announce) /\ WF_vars(DrainDone) /\ WF_vars(Exit)
    /\ WF_vars(PrintCrashes)
    /\ WF_vars(StartForcer) /\ WF_vars(ForceQuit)
    /\ WF_vars(StopAccepting)
    /\ \A w \in QuicWorkers : WF_vars(StopEndpoint(w))
    /\ \A r \in H3Responses :
          WF_vars(endpoint[WorkerOf[r]] = "closed" /\ FailH3(r))
    /\ WF_vars(LogTask)
    /\ SF_vars(Alive /\ StopTask /\ UNCHANGED mainVars)

FairSpec == Spec /\ TaskFairness

(* Clients read their responses and close.                                 *)
ClientsClose ==
    \A r \in TcpResponses : WF_vars(SendTcp(r)) /\ WF_vars(CloseConn(r))

(* Whoever reads stderr goes on reading in the end.                        *)
ReaderReads == <>[](stderr # "stalled")

(* The user presses Ctrl+C until the process is gone.                      *)
UserPersists == WF_vars(Interrupt)

(* The timeout fires if the drain lasts.                                   *)
TimerFires == WF_vars(GiveUp)

-----------------------------------------------------------------------------
(* Properties, with those of RequestLog.                                   *)

(* Every variable has its type.                                            *)
TypeOK ==
    /\ LogTypeOK
    /\ phase \in {"starting", "waiting", "announcing", "draining", "drained",
                  "giving up"} \cup Over
    /\ accepting \in BOOLEAN
    /\ conn \in [TcpResponses -> {"none", "open", "closed", "left"}]
    /\ endpoint \in [QuicWorkers -> {"open", "closed"}]
    /\ forcer \in {"none", "spawned", "listening", "exiting", "gone"}

(* An entry sent to the log task is printed, unless the task or the        *)
(* process ends before: no tick passes it by.                              *)
EntriesPrinted ==
    ReaderReads =>
        \A r \in Responses :
            r \in ToSet(channel) ~> r \in ToSet(printed) \/ ~Logging \/ ~Alive

(* A shutdown ends: by the timeout whatever clients do, and without it if  *)
(* they close.  No joined task, the log task and the QUIC workers          *)
(* included, and no print waits for something that will not come.          *)
ShutdownEnds ==
    ReaderReads /\ (ClientsClose \/ TimerFires) =>
        (phase = "announcing" ~> ~Alive)

(* A user who keeps pressing Ctrl+C gets rid of a draining server without  *)
(* the timeout, however late force_quit starts to listen, as long as       *)
(* stderr can be written.                                                  *)
ImpatientUserLeaves ==
    ReaderReads /\ UserPersists /\ [](stderr # "closed") =>
        (phase = "draining" ~> ~Alive)

=============================================================================
