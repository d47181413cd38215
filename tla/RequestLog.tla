----------------------------- MODULE RequestLog -----------------------------
(***************************************************************************)
(* The request log (rust-server/src/logging.rs, and log_h3_outcome of      *)
(* handlers.rs).                                                           *)
(*                                                                         *)
(* A response over TCP carries a TimingInfo in its body.  flush_log takes  *)
(* it: when hyper polls the end of the body, or when hyper drops the body, *)
(* whichever comes first.  A response over HTTP/3 is logged by its handler *)
(* after finish.  In summary mode that increments a counter, in detailed   *)
(* mode it sends an entry to a task, which prints what it has received     *)
(* once per tick.  The task ends at the shutdown signal, between two       *)
(* ticks, or when it cannot write to stderr: eprintln! panics then.        *)
(***************************************************************************)
EXTENDS Naturals, Sequences, SequencesExt

CONSTANTS
    Responses,    \* the responses handlers produce
    H3Responses,  \* those over HTTP/3
    Modes,        \* how the server may have been built and started
    Panics        \* what a panic may do: dev builds unwind, release aborts

ASSUME LogAssumption ==
    /\ H3Responses \subseteq Responses
    /\ Modes \subseteq {"disabled", "summary", "detailed"}
    /\ Panics \subseteq {"unwind", "abort"}

VARIABLES
    mode,      \* LogMode
    body,      \* how far each response is
    info,      \* the response's TimingInfo has not been taken
    counter,   \* Summary: the shared AtomicU64
    channel,   \* Detailed: entries sent and not received
    task,      \* where the background task is
    batch,     \* the task's vector
    at,        \* how many entries of batch it has printed
    count,     \* the value it has swapped out of the counter
    stderr,    \* whether writing to stderr works, blocks or fails
    stop,      \* the shutdown watch channel
    flushed,   \* history: the responses logged, in order
    printed,   \* history: the lines of detailed mode
    reported   \* history: the sum of the counts of summary mode

logVars == <<mode, body, info, counter, channel, task, batch, at, count,
             stderr, stop, flushed, printed, reported>>

bodyVars == <<body, info, counter, channel, flushed>>
taskVars == <<task, batch, at, count, printed, reported>>

-----------------------------------------------------------------------------
(* The process runs until a panic aborts it.                               *)
Running == task # "aborted"

(* The task is there to receive and print.                                 *)
Logging == task \notin {"ended", "aborted"}

LogInit ==
    /\ mode \in Modes
    /\ body = [r \in Responses |-> "none"]
    /\ info = [r \in Responses |-> FALSE]
    /\ counter = 0
    /\ channel = <<>>
    /\ task = IF mode = "disabled" THEN "ended" ELSE "waiting"
    /\ batch = <<>>
    /\ at = 0
    /\ count = 0
    /\ stderr = "open"
    /\ stop = FALSE
    /\ flushed = <<>>
    /\ printed = <<>>
    /\ reported = 0

-----------------------------------------------------------------------------
(* Responses.                                                              *)

(* A handler has the response: handle_request returns it to hyper, or the  *)
(* HTTP/3 handler begins to send it.  A 304 has no data.                   *)
Respond(r) ==
    /\ Running
    /\ body[r] = "none"
    /\ \E b \in {"data", "end"} : body' = [body EXCEPT ![r] = b]
    /\ info' = [info EXCEPT ![r] = TRUE]
    /\ UNCHANGED <<mode, counter, channel, stderr, stop, flushed, taskVars>>

(* hyper takes the data.                                                   *)
PollData(r) ==
    /\ Running
    /\ r \notin H3Responses
    /\ body[r] = "data"
    /\ body' = [body EXCEPT ![r] = "end"]
    /\ UNCHANGED <<mode, info, counter, channel, stderr, stop, flushed, taskVars>>

(* One entry in the way of the mode.  A task that has ended has dropped    *)
(* its receiver: send fails, and the error is ignored.                     *)
Count == counter' = IF mode = "summary" THEN counter + 1 ELSE counter

SendEntry(r) ==
    channel' = IF mode = "detailed" /\ Logging THEN Append(channel, r) ELSE channel

(* Mutant: the TimingInfo is read and left in the body.                    *)
FlushLogReading(r) ==
    IF info[r]
    THEN /\ Count
         /\ SendEntry(r)
         /\ flushed' = Append(flushed, r)
         /\ UNCHANGED info
    ELSE UNCHANGED <<info, counter, channel, flushed>>

(* flush_log: nothing, if the TimingInfo has been taken before.            *)
FlushLog(r) ==
    IF info[r]
    THEN /\ info' = [info EXCEPT ![r] = FALSE]
         /\ Count
         /\ SendEntry(r)
         /\ flushed' = Append(flushed, r)
    ELSE UNCHANGED <<info, counter, channel, flushed>>

(* hyper polls the body to its end, as it does for HTTP/1.                 *)
PollEnd(r) ==
    /\ Running
    /\ r \notin H3Responses
    /\ body[r] = "end"
    /\ body' = [body EXCEPT ![r] = "polled"]
    /\ FlushLog(r)
    /\ UNCHANGED <<mode, stderr, stop, taskVars>>

(* hyper drops the body: after its end, after is_end_stream said so, or    *)
(* because the connection failed.                                          *)
DropBody(r) ==
    /\ Running
    /\ r \notin H3Responses
    /\ body[r] \in {"data", "end", "polled"}
    /\ body' = [body EXCEPT ![r] = "dropped"]
    /\ FlushLog(r)
    /\ UNCHANGED <<mode, stderr, stop, taskVars>>

(* The HTTP/3 handler has finished the stream and logs.                    *)
H3Finish(r) ==
    /\ Running
    /\ r \in H3Responses
    /\ body[r] \in {"data", "end"}
    /\ body' = [body EXCEPT ![r] = "dropped"]
    /\ FlushLog(r)
    /\ UNCHANGED <<mode, stderr, stop, taskVars>>

(* One of its sends fails: it returns without logging.                     *)
H3Fail(r) ==
    /\ Running
    /\ r \in H3Responses
    /\ body[r] \in {"data", "end"}
    /\ body' = [body EXCEPT ![r] = "failed"]
    /\ info' = [info EXCEPT ![r] = FALSE]
    /\ UNCHANGED <<mode, counter, channel, stderr, stop, flushed, taskVars>>

-----------------------------------------------------------------------------
(* The background task.  It awaits only in select!, "waiting".             *)

(* Mutants: the vector is not cleared; the loop over it does not start     *)
(* again.                                                                  *)
ClearBatchNever == at' = 0 /\ UNCHANGED batch
ClearBatchResuming == batch' = <<>> /\ UNCHANGED at

ClearBatch == at' = 0 /\ batch' = <<>>

TickDetailed ==
    /\ mode = "detailed"
    /\ task = "waiting"
    /\ task' = "collecting"
    /\ ClearBatch
    /\ UNCHANGED <<mode, bodyVars, count, stderr, stop, printed, reported>>

(* try_recv finds an entry.                                                *)
Collect ==
    /\ task = "collecting"
    /\ channel # <<>>
    /\ batch' = Append(batch, Head(channel))
    /\ channel' = Tail(channel)
    /\ UNCHANGED <<mode, body, info, counter, task, at, count, stderr, stop,
                   flushed, printed, reported>>

(* Mutant: the vector is cleared after the loop over the channel.          *)
CollectEndClearing ==
    /\ task = "collecting"
    /\ channel = <<>>
    /\ task' = "printing"
    /\ batch' = <<>>
    /\ UNCHANGED <<mode, bodyVars, at, count, stderr, stop, printed, reported>>

CollectEnd ==
    /\ task = "collecting"
    /\ channel = <<>>
    /\ task' = "printing"
    /\ UNCHANGED <<mode, bodyVars, batch, at, count, stderr, stop, printed, reported>>

PrintEntry ==
    /\ task = "printing"
    /\ at < Len(batch)
    /\ stderr = "open"
    /\ printed' = Append(printed, batch[at + 1])
    /\ at' = at + 1
    /\ UNCHANGED <<mode, bodyVars, task, batch, count, stderr, stop, reported>>

PrintEnd ==
    /\ task = "printing"
    /\ at = Len(batch)
    /\ task' = "waiting"
    /\ UNCHANGED <<mode, bodyVars, batch, at, count, stderr, stop, printed, reported>>

TickSummary ==
    /\ mode = "summary"
    /\ task = "waiting"
    /\ task' = "reporting"
    /\ count' = counter
    /\ counter' = 0
    /\ UNCHANGED <<mode, body, info, channel, flushed, batch, at, stderr, stop,
                   printed, reported>>

(* Mutant: the counter is read at the tick and set to 0 after the report.  *)
ReportCountStoring ==
    /\ task = "reporting"
    /\ stderr = "open"
    /\ task' = "waiting"
    /\ reported' = reported + count
    /\ count' = 0
    /\ counter' = 0
    /\ UNCHANGED <<mode, body, info, channel, flushed, batch, at, stderr, stop, printed>>

ReportCount ==
    /\ task = "reporting"
    /\ stderr = "open"
    /\ task' = "waiting"
    /\ reported' = reported + count
    /\ count' = 0
    /\ UNCHANGED <<mode, bodyVars, batch, at, stderr, stop, printed>>

(* eprintln! cannot write: the task panics, and takes its receiver, or the *)
(* process, with it.                                                       *)
PrintFails ==
    /\ task = "reporting" \/ (task = "printing" /\ at < Len(batch))
    /\ stderr = "closed"
    /\ \/ "unwind" \in Panics /\ task' = "ended" /\ channel' = <<>>
       \/ "abort" \in Panics /\ task' = "aborted" /\ UNCHANGED channel
    /\ UNCHANGED <<mode, body, info, counter, flushed, batch, at, count, stderr,
                   stop, printed, reported>>

(* Mutant: the task awaits the interval only.                              *)
StopTaskNever == FALSE /\ UNCHANGED logVars

(* The changed() branch: what is in the channel is dropped with it.        *)
StopTask ==
    /\ task = "waiting"
    /\ stop
    /\ task' = "ended"
    /\ channel' = <<>>
    /\ UNCHANGED <<mode, body, info, counter, flushed, batch, at, count, stderr,
                   stop, printed, reported>>

-----------------------------------------------------------------------------
(* The reader of stderr: it may stop reading, go on, or close the pipe.    *)
StderrChanges ==
    /\ Running
    /\ \/ stderr = "open" /\ stderr' \in {"stalled", "closed"}
       \/ stderr = "stalled" /\ stderr' = "closed"
    /\ UNCHANGED <<mode, stop, bodyVars, taskVars>>

StderrResumes ==
    /\ Running
    /\ stderr = "stalled"
    /\ stderr' = "open"
    /\ UNCHANGED <<mode, stop, bodyVars, taskVars>>

(* wait_for_shutdown sends the signal.                                     *)
SendStop ==
    /\ Running
    /\ stop' = TRUE
    /\ UNCHANGED <<mode, stderr, bodyVars, taskVars>>

-----------------------------------------------------------------------------
TcpStep(r) == PollData(r) \/ PollEnd(r) \/ DropBody(r)

TaskStep ==
    \/ TickDetailed
    \/ Collect
    \/ CollectEnd
    \/ PrintEntry
    \/ PrintEnd
    \/ TickSummary
    \/ ReportCount
    \/ PrintFails
    \/ StopTask

LogNext ==
    \/ \E r \in Responses : Respond(r) \/ TcpStep(r) \/ H3Finish(r) \/ H3Fail(r)
    \/ TaskStep
    \/ StderrChanges
    \/ StderrResumes
    \/ SendStop

LogSpec == LogInit /\ [][LogNext]_logVars

-----------------------------------------------------------------------------
(* Properties.                                                             *)

(* Every variable of the log has its type.                                 *)
LogTypeOK ==
    /\ mode \in Modes
    /\ body \in [Responses -> {"none", "data", "end", "polled", "dropped", "failed"}]
    /\ info \in [Responses -> BOOLEAN]
    /\ counter \in Nat
    /\ channel \in Seq(Responses)
    /\ task \in {"waiting", "collecting", "printing", "reporting", "ended", "aborted"}
    /\ batch \in Seq(Responses)
    /\ at \in 0 .. Len(batch)
    /\ count \in Nat
    /\ stderr \in {"open", "stalled", "closed"}
    /\ stop \in BOOLEAN
    /\ flushed \in Seq(Responses)
    /\ printed \in Seq(Responses)
    /\ reported \in Nat

(* What the task has taken and not printed yet.                            *)
Rest == SubSeq(batch, at + 1, Len(batch))

(* Detailed mode: an entry is on stderr, in the batch or in the channel,   *)
(* in the order of the flushes, once, while the task is there.             *)
EntriesInOrder ==
    mode = "detailed" /\ Logging => flushed = printed \o Rest \o channel

(* Summary mode: every response is in one of the reported counts, in the   *)
(* one about to be reported, or still in the counter.                      *)
CountsComplete ==
    mode = "summary" /\ Logging => Len(flushed) = reported + count + counter

(* A response is logged once it is over, and no sooner: over TCP with its  *)
(* body, however that ends; over HTTP/3 if it was sent to its end.         *)
OverIsLogged ==
    \A r \in Responses : r \in ToSet(flushed) <=> body[r] \in {"polled", "dropped"}

(* No response is lost and none is logged twice on its way from the body   *)
(* to stderr, until the task ends.                                         *)
LogComplete == EntriesInOrder /\ CountsComplete /\ OverIsLogged

(* In both modes the task implements the access log: a response is entered *)
(* once, whichever of the last poll and the drop of its body comes first,  *)
(* and lines follow the order of the entries.                              *)
Access == INSTANCE AccessLog WITH
    entries <- flushed,
    lines <- IF mode = "summary" THEN SubSeq(flushed, 1, reported) ELSE printed,
    open <- Logging

RefinesAccessLog == Access!AccessSpec

=============================================================================
