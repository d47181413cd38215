# Verification project for the single-binary static web server

TLA+ modules that model the server in `src/rust-server`, the TLC runs that check
them on small instances, and theorems about them checked by TLAPS.
`PROJECT.json` lists the components, runs, mutants, findings, hazards and
theorems, and maps every definition to the lines of the code it models.

## The system

The program is one binary. A build script turns the files in `public/` into
generated Rust source with all bodies, headers and routes; the server answers
every request from these constants. Nothing is read or written at run time, so
the state of the running server is connections, tasks, channels and one
semaphore.

| Component | Source | State | Operations |
| --- | --- | --- | --- |
| TCP workers | `tcp_worker.rs` | per worker: listener backlog, accept loop, `next_handler`; per handler: channel, connection served; the shared `conn_semaphore` | accept, acquire a permit, dispatch in turn, receive, sniff, handshake, serve, fail, panic, observe shutdown |
| Shutdown | `shutdown.rs`, `main.rs` | phase of `main`, watch channel, joined tasks, `force_quit` task, stderr | Ctrl+C, announce, drain, timeout, second Ctrl+C, last line |
| First-byte sniffing | `tls_stream.rs`, `tcp_worker.rs` | the byte read ahead, the stream behind it | read |
| QUIC workers | `quic_worker.rs` | per worker: endpoint; detached connection tasks | accept, spawn, close |
| HTTP/3 connection | `handlers.rs` | handler pool, finished streams, `pending_streams` | accept a request, dispatch, answer, keep the stream, drop it |
| Requests | `handlers.rs`, `response.rs`, generated `route` | none | ETag check, routing, negotiation, response |
| Logging | `logging.rs` | each body's `TimingInfo`; the counter or channel; the log task with its batch | flush once per response, tick, collect, print, stop, fail to print |
| Asset pipeline | `build_helpers/` | compressed files in `OUT_DIR`, hashes, lengths, header sets | two passes over the files, metadata, version asset, code generation |
| Content security policy | `csp.rs` | none of its own; per page, a policy made of digests | collect digests, compose |
| Version check | `version_script.rs`, `version_hash.rs`, caching headers | per build a version; browser cache, documents, checks under way | deploy, poll `/v`, refetch, reload, expire |
| Build configuration | `config_gen.rs`, `config.rs` | none: constants of the binary | |
| TLS certificates, sockets, startup output | `tls.rs`, `sockets.rs`, `startup.rs` | none | |

How they interact: the kernel hands a connection to one worker's listener
(SO_REUSEPORT). The accept loop and its handlers talk over unbounded channels;
workers share only the semaphore and the shutdown watch channel; `main` joins
the tasks. A handler calls `handle_request` through hyper; responses carry a
`TimedBody` that reports to the log task when hyper is done with it. An HTTP/3
connection is a task of its own, with its own pool of handlers.

What is hard about it:

- permits travel with connections through `select!`, a cancellable acquire, a
  channel send that can fail and a task that can panic;
- shutdown races with every one of these, and with clients that never close;
- the end of a task drops what it owns: a backlog, a channel, streams;
- the prefix byte is handed out by a read that may then be pending;
- HTTP/3 streams must outlive the task that served them, but not for ever;
- the build derives bodies, lengths, hashes, headers and routes in several
  passes over shared directories; they have to fit together;
- browsers cache what an older build served, and two builds may answer in turn
  during a deploy;
- everything that prints may block or panic on stderr, the log task and `main`
  in its drain included.

What correctness means, per component:

- TCP workers: at most `MAX_CONNS` connections in service, no permit lost, no
  lost wake-up, one owner per connection, every connection served or turned
  away, dispatched connections survive shutdown.
- Shutdown: "exited cleanly" is only said when nothing is in service; the drain
  ends if clients close; accept loops stop whatever clients do.
- Sniffing: what the reader gets is what the client sent.
- HTTP/3: one answer per request, streams kept until their last packet is sent.
- Negotiation: the encoding is one the client accepts and the build embeds, and
  headers describe the body that is sent.
- Logging: one entry per response, none lost between body and stderr while the
  log task runs, lines in order.
- Asset pipeline: a route serves its own file, with its length, coding, digest;
  a page is allowed by its policy what it refers to.
- Version check: what the server was asked for is current; after the last deploy
  every open page ends up on the build that stays.

## Modules

### TcpWorkers

`TcpWorkers.tla` models `tcp_worker.rs` with the part of `main` and
`wait_for_shutdown` that starts and ends it. A step is what a task does between
two points where a task on another thread can see a difference.

| Variable | Code |
| --- | --- |
| `backlog[w]` | the kernel's queue of worker w's listener |
| `loop[w]` | where the accept loop is suspended: in `accept`, before or inside `acquire_owned` (`waiting`: queued in the semaphore; `granted`: a release has assigned a permit, the task has not run yet), or `stopped` |
| `held[w]` | `stream` between the two `select!`s |
| `next[w]` | `next_handler`, which wraps at `CounterSpan` for 2^64 |
| `permits`, `waiters` | `conn_semaphore`; tokio's semaphore is fair and assigns a released permit to the first waiter |
| `queue[p]`, `handler[p]`, `cur[p]` | a handler task's channel, where it is, its connection; `unwinding` and `dead` are a panicked task before and after its receiver closes the channel |
| `stage[c]` | how far a connection is; from `queued` on it carries its permit |
| `phase` | `main`: running, draining, or how the process ended |

| Action | Code |
| --- | --- |
| `Connect` | a client connects; the kernel picks a listener |
| `Accept`, `AcceptError`, `AcceptErrorAborts` | first `select!`; an accept error is printed, and a print that fails ends the loop too, or the process in the release profile |
| `AcquireAndDispatch`, `AwaitPermit`, `DispatchGranted` | second `select!`, round robin, `send` and its failure |
| `ObserveShutdown` | the `changed()` branch of either `select!`; a cancelled acquire leaves the semaphore's queue or passes its permit on |
| `Receive`, `Sniff`, `HandshakeDone`, `Finish` | the handler's `recv` loop and `handle_tcp_connection`; `Finish` covers its error returns |
| `PanicUnwinds`, `CloseChannel`, `DropQueued` | a handler panics in the dev profile, in a print while it sniffs or in the handshake, or later: its connection, then its channel and what is queued there, are dropped |
| `PanicAborts` | the same in the release profile (`panic = "abort"`) |
| `Exit` | `recv` returns `None` |
| `CtrlC`, `DrainDone`, `GiveUp`, `Sigterm` | `wait_for_shutdown`, and the signal it does not handle |

`ConnectionLimiter.tla` is what this promises without tasks and channels: a set
of connections in service bounded by `MaxConnections`, each admitted at most
once, and a gate that closes. `RefinesLimiter` is the refinement mapping.

Semaphore, channels, watch channel and task unwinding are modelled from their
use and marked external in the map where a definition is only that
(`Release`). HTTP inside a connection is hyper's and is one step.

`Panics` is the set of things a panic may do; the runs take both profiles at
once, so that every behaviour of either build is included.

### PrefixedStream

`PrefixedStream.tla` models the byte `handle_tcp_connection` reads ahead and
`PrefixedStream::poll_read`, which gives it back to rustls or hyper. A byte is
named by its position in what the client sends.

| Variable | Code |
| --- | --- |
| `sent`, `client` | the socket's receive buffer: bytes that have arrived, and whether a FIN or RST follows |
| `taken` | bytes read from the socket, the one read ahead included |
| `prefix` | `PrefixedStream::prefix` |
| `reader` | whether the first byte is still to be read, or rustls/hyper polls |
| `delivered` | what completed polls have given the reader |

| Action | Code |
| --- | --- |
| `Arrive`, `Leave` | segments, FIN, RST |
| `Sniff`, `SniffFails` | `read_exact` of one byte, and its error |
| `PollRead(n)` | `poll_read` with room for n bytes: `prefix.take()` and `put_slice`, then the inner poll, which is ready (`ReadReady`), has no room (`ReadNothing`), is at the end (`ReadEnd`), pending (`ReadPending`) or fails (`ReadError`) |

What a poll puts into the buffer counts only if the poll is ready; after
`Pending` the caller forgets it, as the contract of `AsyncRead` lets it.

`ByteStream.tla` is what a reader expects: more bytes are sent, more of them are
delivered, in order, none missing. `RefinesByteStream` says that
`PrefixedStream` implements it. That is so only if a second byte is there with
the first one: `FirstSegment`, the bytes that arrive at once at the start, is 2
in that run, and 1 where the loss of the first byte is the question.

### H3Connection

`H3Connection.tla` models one HTTP/3 connection: `handle_h3_connection`, its
handler pool and `h3_handle_one_request`.

| Variable | Code |
| --- | --- |
| `conn` | the QUIC connection, as the client's GOAWAY and anybody's close leave it |
| `stage[r]` | where request r's stream is: opened by the client, in a channel, with a handler, in `finished_rx` ("finished"), in `pending_streams` ("pending"), or dropped |
| `fin[r]` | the end of the answer: not written, in Quinn's buffer, transmitted |
| `incoming` | streams `accept` has not returned yet |
| `loop`, `next` | where the accept loop is; `next_handler` |
| `queue[h]`, `handler[h]`, `cur[h]` | a handler's channel, where it is, its request |

| Action | Code |
| --- | --- |
| `Open`, `Goaway`, `Close`, `Transmit` | the client and Quinn; `Close` is also the idle timeout and `endpoint.close` |
| `DrainFinished` | the `try_recv` loop over `finished_rx` |
| `AcceptRequest` | `accept` returns a request: `pending_streams.clear()`, round robin, `send` or the break when it fails |
| `AcceptNone`, `AcceptFails` | the other two results of `accept`, and what the function drops at its end |
| `Receive`, `Answer`, `Fail`, `HandBack` | a handler's loop body: take a request, answer up to `finish`, fail with an early return, send the stream back |
| `PanicUnwinds`, `DropChannel`, `Exit` | how a handler ends |

A handle of a stream in the server keeps it open for Quinn and for h3. So
`Held` counts against the client's stream limit, and `accept` returns `None`
after a GOAWAY only when nothing is held.

### AcceptEncoding

`AcceptEncoding.tla` models `parse_accept_encoding`: `ReadToken` is one round of
its loop. `best` is `best_encoding` with `best_q` (`best_pref` is a function of
the encoding), `embedded` the `EMBED_*` flags, `seen` the tokens read so far, a
history the code does not keep. Splitting and trimming are left out; a token is
a name and a quality. Qualities are ranks, because the code only compares them,
with one value outside the order for the NaN that `parse::<f32>` accepts.

### Site

`Site.tla` models the build script's `run` and what the compiler makes of its
result: from the files in `public/` to the responses of the running server.

| Variable | Code |
| --- | --- |
| `files` | what `collect_source_files` returns |
| `embed`, `sri` | `EMBED_BROTLI`, `EMBED_GZIP`, `EMBED_ZSTD`; not `DISABLE_SRI` |
| `pass`, `at` | where `run` is: which loop over the files, at which file |
| `disk` | the output directories in `OUT_DIR`: per name, the content all three compressed files and the `.raw` file are made of |
| `hashes`, `lens` | `file_hashes`, `uncompressed_lens` |
| `meta` | the length vectors `build_asset_metadata` returns |

| Action | Code |
| --- | --- |
| `CollectFile` | `collect_source_files`: of all names, in the order of `sort()`, each is in `public/` or not |
| `MinifyAsset` | a round of `minify_compute_sha_and_compress`; a minifier may fail, and the content stays |
| `InjectPage` | a round of `update_html_sri_and_inject_update_js`; a page gets the digests known by then |
| `CollectMetadata`, `MetadataPanics` | a round of `build_asset_metadata`; a name without extension panics |
| `EndPass` | the end of a loop |
| `BuildVersion` | `build_version_headers`, which writes `v.txt` into the same directories |
| `Compile` | `generate` and `include_bytes!`, which reads the directories as they are then; two constants of one name, or a file's and a special asset's, do not compile |

The generated program is a set of operators on the state it is compiled from:
`FileAsset`, `VersionAsset`, `NotFound`, `ChromeDevtools` are the `Asset`s,
`Route` is the generated `match`, `Response` is `response_for_asset`. A content
is a value that says what it was made of; a body is a content and the coding it
really is in, a `content-length` is the length of some content in some coding.
So `Fits` says that headers and body are about the same thing. A file name is a
sequence of words and separators, because aliases, constants and extensions
take it apart; `Upper` is `to_uppercase` of a word and `Numeric` the words that
begin with a digit, for the names of constants. Content types, cache headers and the sharing of equal header sets
are left out.

### Csp

`Csp.tla` extends `Site` by `csp.rs`. The policies are a function of the state
the build ends in: `CollectHashes` are the digests of a kind of files,
`CspValue` is `build_csp_values`, `Policy` is `build_csp_for_source`. Which words
a page's source mentions is the constant `Mentions`. `AllowsFile` and
`AllowsInline` are what browsers make of a policy: a script runs only if all
digests in its tag are in the policy, since there is no `'self'` for scripts.

### RequestLog, Shutdown and AccessLog

`RequestLog.tla` models `logging.rs` and `log_h3_outcome`, `Shutdown.tla` extends
it by `shutdown.rs`, `main.rs` and the loop of `quic_worker.rs`. So the log task
is one of the tasks that `main` joins, and responses are still produced while it
stops.

| Variable | Code |
| --- | --- |
| `mode` | `LogMode` |
| `body[r]`, `info[r]` | how far hyper, or the HTTP/3 handler, is with a response; whether its `TimingInfo` is still there |
| `counter`, `count` | summary mode: the `AtomicU64`, and the value swapped out of it |
| `channel`, `batch`, `at` | detailed mode: the entries sent, the task's vector, how much of it is printed |
| `task` | the background task: in `select!`, in one of its loops, gone |
| `stderr`, `stop` | the pipe's reader: reading, stalled or gone; the watch channel |
| `flushed`, `printed`, `reported` | histories of what was logged and shown |
| `phase`, `forcer` | `main` and the `force_quit` task |
| `accepting`, `conn[r]`, `endpoint[w]` | TCP loops, a response's TCP connection (`left`: over, but the task of an HTTP/2 stream still owns the body), a QUIC worker's endpoint |

| Action | Code |
| --- | --- |
| `Respond`, `PollData`, `PollEnd`, `DropBody` | `TimedBody`: hyper polls it or drops it; `FlushLog` is `flush_log` |
| `H3Finish`, `H3Fail` | the HTTP/3 handler logs after `finish`, and not after an early return |
| `TickDetailed`, `Collect`, `CollectEnd`, `PrintEntry`, `PrintEnd` | a round of the detailed task |
| `TickSummary`, `ReportCount` | a round of the summary task: swap, then print |
| `StopTask`, `PrintFails` | the `changed()` branch; a print that panics |
| `Listen`, `Interrupt`, `Announce`, `DrainDone`, `GiveUp`, `Exit`, `PrintCrashes` | `wait_for_shutdown` and the end of `main` |
| `StartForcer`, `ForceQuit` | the `force_quit` task, which listens from its first poll on |
| `Connect`, `CloseConn`, `StopAccepting`, `RespondTcp`, `SendTcp` | TCP, of which `TcpWorkers` has the detail; the end of a connection drops the body (HTTP/1) or leaves it to the stream's task (HTTP/2) |
| `RespondH3`, `FinishH3`, `FailH3`, `StopEndpoint`, `LoseEndpoint` | QUIC: an endpoint that closes ends its connections, whose tasks nobody joins |
| `Terminate`, `StderrChanges`, `StderrResumes` | SIGTERM, and the reader of stderr |

`AccessLog.tla` is what a log promises: responses are entered once, lines follow
the order of the entries, nothing is shown after its end. `RefinesAccessLog` is
the mapping, for both modes at once.

### VersionReload

`VersionReload.tla` models a browser against deploys: the polling script
`version_script.rs`, the version tag, the 304 before routing and the caching
headers. `Site` has the digests and routes of one build; here a build is the set
of its pages that poll and the body behind each script's name.

| Variable | Code |
| --- | --- |
| `site[b]` | what build b embeds |
| `live` | the builds whose process answers; two during an overlap |
| `cached[f]`, `fresh` | the browser's cache: whose answer it keeps, and may it be used without asking |
| `shown[t]`, `got[t]` | a tab's document, and where its scripts came from |
| `pending[t]` | what the document's `check()` waits for; several may be under way |

| Action | Code |
| --- | --- |
| `Start`, `Stop` | a process of a build starts or ends |
| `Visit`, `Reload`, `Fail`, `LoadScript` | the browser: documents and what they refer to, from the cache or asked for with `If-None-Match` |
| `Expire`, `Evict` | `max-age` of a page; a cache may forget |
| `Tick`, `CheckVersion`, `Refetch`, `ReloadItself`, `CheckFails` | `setInterval`, the fetch of `/v`, the refetch past the cache, `location.reload()`, and a rejected promise |

`Ask` is `is_not_modified` with the browser's side of it; a 304 carries
`no-store`, so what it confirms is used once and asked for again. Deploys, the
cache and the browser's rules are external: they are modelled from the headers
and the script in `src/`.

## Runs

| Run | Question | Instance |
| --- | --- | --- |
| `tcp_safety` | permits, wake-ups, ownership, bounds, clean shutdown, what a stop may drop, refinement of the limiter | 2 workers x 2 handlers, 5 connections, 2 permits; 0.56 million states |
| `tcp_liveness` | do the accept loops stop whatever clients do; does everything end if clients close | 2 workers x 2 handlers, 3 connections, 1 permit |
| `prefix_stream` | which bytes may be lost; refinement of the byte stream; is everything read | 7 bytes, buffers of 0 to 4, `FirstSegment = 2` |
| `prefix_split_doc` | the documented first byte (violated) | same, `FirstSegment = 1` |
| `h3_safety` | when streams are dropped, how many are kept | 8 requests, 2 at a time, 2 handlers; 2.4 million states |
| `h3_liveness` | do requests and tasks end | 4 requests, 4 at a time, 2 handlers |
| `encoding` | is the result the best option | all headers of 3 different tokens, 5 ranks and NaN, all 8 builds |
| `site` | do headers fit bodies, pages their subresources and policies, paths their files | every set of files out of eleven names, three sets of encodings, with and without SRI; 0.78 million states |
| `site_headers_doc` | the documented headers (violated) | same, all encodings embedded, so that the last state has the wrong coding beside the wrong length |
| `shutdown` | is the log complete, does it implement the access log, are entries printed, does a shutdown end | a TCP and an HTTP/3 response, one QUIC worker, all log modes, both panic profiles; 0.21 million states |
| `version` | is what was asked for current, do pages end on the build that stays | 2 builds, a tab, two pages, a script; 0.24 million states |
| `version_doc` | does the documented refresh give a page the scripts it was built with (violated) | same, builds replace each other in order |

Why these bounds are enough. TCP: two workers for contention on the semaphore
and for a waiter that is cancelled while another is queued; two handlers for a
round robin; one connection more than permits and loops together, or
`AcceptedBound` could not fail. With one permit both loops wait at once.
`CounterSpan = 4` lets `next_handler` wrap. PrefixedStream: a buffer may be
empty, hold the prefix only, or more; seven bytes need several polls of every
size. HTTP/3: `KeptBound` is 2*2+2+1 = 7, so eight requests; `CounterSpan = 3`
is no multiple of the pool. AcceptEncoding: a state is a set of tokens and the
best so far, so a counterexample to `BestOfSeen` needs the best, one token more
and one they are compared with. Site: the eleven names are chosen to be in each
other's way, in pairs: a file and a page whose alias is that file, two names of
one constant, by their case and by their separators, a name whose constants are
those of the 404 asset, a page `v` and a file `v.txt` beside the version asset,
two index pages, a 404 page or none, a name without extension. A property is
about one or two files and the special assets, and every pair is there with
every rest. The eleven names have styles among them, so that a policy may lack
the directive of a file. Shutdown: an entry can only be lost, doubled or
overtaken relative to another one, so two responses show it, one of each
protocol; what happens for more is proved. VersionReload: tabs share the cache
and nothing else, and the cache is filled, expired and evicted by the second
page and the environment as well; two builds give replacement, overlap and
rollback, and each build may be without the script or with a page that does not
poll.

Deadlock is not checked: all these systems may stop, when the process, the
connection, the stream or the header ends, or rest without clients. It is checked
in `VersionReload`, where a user can always do something.

## Fairness

TCP: `TaskFairness` is weak fairness of every step a runnable task takes. Tokio
polls every woken task, and `select!` starts with a random branch, so the
`changed()` branch, ready for good once the signal is sent, is taken in the end
even while connections keep arriving. There is no fairness for clients, accept
errors, panics, the timeout or signals. `EveryConnectionEnds` and
`DrainCompletes` have `ClientFairness`, that a client which is being served
closes in the end, as their premise; `LoopsStop` does without it.

HTTP/3: the same for the loop, the handlers and Quinn's driver. A handler whose
connection is closed fails at its next read or write, so `Fail` is fair then,
and only then. `RequestsEnd` has clients that do not stall as its premise;
`TasksEnd` does without it.

PrefixedStream: a task whose socket becomes readable is polled again, with room
in its buffer.

Shutdown: `TaskFairness` is that of the TCP workers. `StopTask` is strongly fair:
the log task returns to its `select!` at every tick, where `changed()` and the
tick may both be ready, and tokio picks at random. Premises are named and used
where a property needs them: `ReaderReads` (stderr is not stalled for good),
`ClientsClose` or `TimerFires` for `ShutdownEnds`, `UserPersists` for
`ImpatientUserLeaves`. Signals, clients and the reader owe nothing otherwise.
`ImpatientUserLeaves` also assumes a stderr that is not closed: `force_quit`
prints before it exits, and panics if it cannot.

VersionReload: the timers of a page fire (`Tick`), and a request that can be
answered again and again is answered (strong fairness, as no process may be
there for a while). `UpToDate` has as premises that one build stays in the end
(`Settled`) and that users leave the tab alone then (`Undisturbed`).

## Proofs

No theorem assumes more than the named assumptions of its module's constants,
except where it says so.

### TCP workers

`TcpWorkersProofs.tla` proves the inductive invariant, `TcpWorkersTheorems.tla`
the theorems, from `ParametersAssumption`: any finite set of workers and
connections, any number of permits (0 included), at least one handler per
worker.

`PermitConservation` is not inductive. A step that changes the stage of the
connection in `held`, in `queue` or in `cur` moves a permit only if that
connection is where its stage says and nowhere else. `IInv` therefore adds

- `OwnInv`: backlog, `held`, queues and `cur` hold connections of the matching
  stage, none is in two places, and every connection of a stage is in the place
  of that stage;
- `WaitInv`: exactly the waiting workers are in `waiters`, once, and none waits
  while a permit is free;
- `CleanInv`: in phase `clean` all loops have stopped and all handlers are done.

Each action has a lemma per part it can disturb; `NextInvariant` puts them
together. From `IInv` follow the type invariant, `PermitConservation`,
`NoLostWakeup`, `OneOwner`, `AcceptedBound`, `CleanMeansDrained`, the action
property `DispatchedIsServed` and the refinement `RefinesLimiter`: a dispatch is
`Admit`, the end of a connection `Leave`, the end of a loop `TurnAway`, all
other steps stutter.

`NothingStuck` is the safety half of `DrainCompletes` and `EveryConnectionEnds`.
`AllRest` spells out, task by task, that no step with fairness is possible. In
such a state only clients are awaited: a queued connection is behind one that is
served, a connection without a handler waits because all permits are with
connections (`WaitingMeansFull`: none is free by `NoLostWakeup`, none on its way
to a worker, so `PermitConservation` leaves only connections), and the drain
waits for a busy handler. What is left to liveness is that the tasks come to
rest. On the instance of `tcp_safety` TLC agrees that `AllRest` is the negation of
`ENABLED` of these steps.

### PrefixedStream

`PrefixedStreamProofs.tla`, for all lengths and buffers. `StreamInv` adds to
`OnlyFirstByteLost` that nothing is taken before the first byte is read ahead,
and something after; it gives `StreamTypes` and `AtMostFirstByteLost`. With
`FirstSegment > 1` as a premise, `WholeInv` says that there is never exactly one
byte in the socket and that no byte is missing while the reader goes on;
`ImplementsByteStream` follows: a ready poll is `Deliver`, a segment `SendMore`.

`EndFound` (`EndInv`), again for all segments: a reader that is done with a closed
stream has left no byte in the socket or in the prefix, since the poll that finds
the end has room and nothing to put in it. With `FirstSegment > 1`, `ReadToTheEnd`
is the safety half of `EverythingRead`.

### H3Connection

`H3ConnectionProofs.tla`, for any number of requests and handlers. A stream
changes hands in every step, so `H3Inv` says who has it: `incoming`, the
channels and `cur` hold exactly the requests of the matching stage, each once;
nothing is answered before a handler has it; the end of the loop closes the
connection. `H3Types` and the action property `StreamsKept`
(`KeptUntilNextRequest`) follow.

`KeptBounded` counts, from `CountInv`: `H3Inv`, that every handled request is a
busy handler's, and bounds for three sets, what the client waits for, what is in
service, what has been accepted and not dropped. Of what a drain leaves in
service, the client waits for all but what handlers are about to send back, one
request each (an injection into `Handlers`); until the next drain one request
more is accepted. Steps that only move streams on make no set larger, so only
`Open`, `DrainFinished` and a dispatch need an argument of their own.
`StreamsNeverRunOut` says what the bound is for: with `MaxStreams` above it,
`Open` never finds all streams taken.

`PlacedInv` is the converse of `H3Inv`: an opened stream is in `incoming`, a queued
one in a channel, kept ones are there only while the loop is, and a task that has
ended left nothing in its channel. With it, `NothingStuck`: if no task can go on
(`AllRest`, as for the TCP workers), no stream waits to be accepted, a queued one
is behind a request whose client is awaited, and a closed connection has ended.
And `StreamsReleased`: when loop and handlers have ended, no stream is held,
although each of them drops only its own. They are the safety halves of
`RequestsEnd` and `TasksEnd`.

### AcceptEncoding

`AcceptEncodingProofs.tla`, for any set of qualities and any number of tokens.
`BestOfSeen` is inductive together with `TypeOK`, because `Better` is transitive
(`BetterTransitive`) and a token offers one encoding at most (`OffersOne`).
`BestIsUnique` adds that two different options are never equally good, so that
the result depends on the set of tokens and not on their order.

### Site

`SiteProofs.tla`, for all sets of names, references and choices of encodings.
What `ResponsesFit` relates is written in different passes, so `SiteInv` says of
every moment of the build that what is hashed was measured and is in `OUT_DIR`
(`Consistent`; `v.txt` only until the version is written), that a pass has hashed
the files it has left behind (`Processed`), and that the metadata are the
lengths of what is hashed, in the order of the files (`Lengths`). `StoreInv` is
the step that writes; the passes after it only read. `HeadersFit`,
`VersionIsServed` and `SiteTypes` follow.

`PageInv` adds what holds of pages: no file is listed twice (`ListedOnce`), what
a pass has not reached is as it was in `public/` (`Unwritten`), and a page that
was written has the digests that are final for everything it refers to
(`Tagged`), since assets are hashed in an earlier pass. `PagesFit`
(`PagesMatchSubresources`) and `PoliciesAllowPages` (`PoliciesAllow`) follow, the
latter because the digests of a policy and those of a tag are then the same.
`SiteAssumption` says that the names are listed once in their order
(`IsInjective(Sorted)`), which `sort()` on paths of one directory tree gives.

`OwnNamesWin` (`OwnNameWins`) needs to know one thing more of that order, and
`NamesAssumption` says it: a name comes before the longer names it begins. The
generated `match` takes the first arm with the path, so the path of a file is lost
only to an earlier one. A page in `public/` itself claims its path and its name
without extension; if the latter is the path of a file, that file's name begins
the page's, and is in front of it as the files stay in the order of `sort()`
(`InOrder`). The first arm with a path exists by the least element of a set of
numbers (`LeastNat`).

### Shutdown and the log

`ShutdownProofs.tla`, for any number of responses and QUIC workers, all modes and
both panic profiles. `LogInv` is `LogTypeOK` and `TaskComplete` (what `LogComplete`
says of the running task) with: what is shown is a prefix of what was entered
(`PrefixOK`; it outlives the task, `TaskComplete` does not), an entry is made once because the `TimingInfo` is gone afterwards
(`OnceOK`), and a task of one mode is never in a loop of the other (`TaskOK`).
Every step of `Shutdown` is one of `RequestLog` or leaves the log alone, so
`Spec => LogSpec`, and the theorems `ShutdownTypes`, `NothingUnlogged`
(`LogComplete`) and `ImplementsAccessLog` (`RefinesAccessLog`) hold of the server
that shuts down. The last part of `LogComplete`, that the responses logged are
those that are over, has an invariant of its own, `BodyInv`: a body is logged in
the step that ends it, through its `TimingInfo`.

`EndsAsReported` (`EndMeans`) is about the end of the process. `EndInv` says what is
so in each phase of `main`, and that a response whose TCP connection took its body
with it is over (`ConnBodies`). A clean end then leaves no accept loop, no open
connection, no endpoint and no log task; a timeout or a forced exit comes only
after the workers were told; a crash only with a closed stderr. A response that was
begun and is not logged at a clean end is `Detached`: that of a task nobody joins,
a task of HTTP/3 or of an HTTP/2 stream whose connection ended before it. Both
happen, so the code gives no more.

`ImplementsGate`: the TCP connections of `Shutdown` implement `ConnectionLimiter`,
the specification `TcpWorkers` implements, with a permit for each of the finitely
many responses. So the two modules agree on what the TCP side does, though
`Shutdown` has neither handlers nor permits.

### VersionReload

`VersionReloadProofs.tla`, for any builds, tabs, pages and scripts. `TypeOK` is
inductive by itself; `VersionReloadTypes` and `AskedDocumentsAreCurrent`
(`AskedIsCurrent`) follow. The second says that a 304 is no weaker than a fresh
answer: a build is confirmed only by a process of the same build, however the
cache was filled.

`ChecksCatchUp` (`CatchingUp`) is the safety half of `UpToDate`. While one build
answers, no step but a user's takes a tab away from it, and a page of another
build that polls keeps its document and its check: the answer to `/v` is never a
304, the refetch follows it, the reload the refetch, and the reload shows the
build. Only a request that fails ends a check, and it does not take back a reload
that is due.

### Model-checked only

Everything under fairness: `EveryConnectionEnds`, `DrainCompletes`, `LoopsStop`,
`EverythingRead`, `RequestsEnd`, `TasksEnd`, `EntriesPrinted`, `ShutdownEnds`,
`ImpatientUserLeaves`, `UpToDate` (TLAPS does not reason about `ENABLED`). For
those of TCP, HTTP/3, the stream and the version check the theorems above have
the safety half: where the system can rest, and what steps cannot undo.

## What the documentation says and the code does not do

- `tls_stream.rs:5-6` promises the first byte first. `poll_read` gives it up
  before it knows whether the socket has more: if the first byte arrives alone,
  the poll is pending and the byte is lost (`prefix_split_doc`).
- `MAX_CONNS` is documented as the maximum of concurrent TCP connections. Every
  accept loop may hold one accepted connection more while it waits for a permit.
  No run of its own: `AcceptedBound` is what holds, and its bound is reached.
- `version_script.rs` refreshes pages, and `README.md:14` says that every file gets
  a content-hashed URL. Files keep their names and are `immutable` for a year, so
  the refreshed page finds the old script in the cache and refuses it
  (`version_doc`).
- `handlers.rs:267` says streams are kept until their FIN is transmitted. They
  are kept until another request arrives, which may have arrived long
  before; `KeptUntilNextRequest` is what holds.
- `response.rs:20` says the encoding is supported by the client. The wildcard
  selects one the header refuses with quality 0; `BestOfSeen` is what holds.
- `response.rs:133` says the headers include the length and coding of the body.
  The inline 404 page, which this repository's own `public/` makes the build use,
  has 24 bytes and is never compressed, but its headers are `content-length: 30`
  and the coding the client prefers (`site_headers_doc`). A `public/v.txt` is
  answered with the version, under the length and digest of the file.

Without a run of their own, as the modules make them plain:

- `README.md:113` and `shutdown.rs:8` document the drain for SIGINT and SIGTERM,
  and a timeout of 30 seconds where `config_gen.rs` has 3. Only SIGINT
  is caught (`Sigterm` of `TcpWorkers`, `Terminate` of `Shutdown`).
- `quic_worker.rs:28-29` and `shutdown.rs:17` let requests in flight finish. Those
  over HTTP/3 are cut: `endpoint.close` comes with the signal and nobody joins the
  tasks of the connections (`StopEndpoint`, `FailH3`). The tasks hyper spawns for
  HTTP/2 streams are not joined either: "All workers exited cleanly" may be printed
  before the body of one that outlived its connection is dropped (`CloseConn`).
- A second Ctrl+C before `force_quit` is polled for the first time is swallowed;
  `ImpatientUserLeaves` needs a user who goes on.
- The log task stops at the signal, and requests answered while draining are not
  logged (`StopTask`). `logging.rs:38-39` says an entry is made when the body is
  fully consumed; it is also made when the body is dropped half sent. HTTP/3
  responses that fail are not logged at all (`H3Fail`).
- Idle keep-alive connections are not told to close, and make a drain run into
  its timeout (`DrainCompletes` needs clients that close).
- `README.md:15` says every HTML response polls. The inline 404 page and pages
  without `</body>` do not (`Polls`, and the exception in `UpToDate`).
- `README.md:210` calls the version a fingerprint of all files. It is a hash of
  the build time: a rebuild of unchanged files reloads every page.
- `.mjs` files are served as scripts and their digests are in no policy; what a
  script imports, and fonts and images only a style sheet refers to, are refused
  as well, unless the page mentions their kind. `PoliciesAllow` is about what
  pages refer to themselves, by the extensions `csp.rs` collects.
- `config_gen.rs` has comments with other defaults than its code (4096 for
  `MAX_CONNS`, a floor of 64 handlers), and accepts `WORKERS=0`, by which it then
  divides, and 0 handlers, modulo which the round robin is taken. The assumption
  `NumHandlers \in Nat \ {0}` of `TcpWorkers` and `H3Connection` excludes the
  latter.

## What is not modelled, and why

- HTTP/1, HTTP/2, TLS and QUIC themselves (hyper, rustls, quinn, h3) are
  external: a connection or a request is one or a few steps, whose results are
  the ones the code of `src/` distinguishes.
- The kernel, tokio's semaphore, channels, watch channel and task unwinding are
  modelled from their use, and marked external in the map where a definition is
  nothing else (`Release`).
- Socket options, TLS certificates, the banner, the help text, the layout of log
  lines and the clock are I/O and formatting without state.
- Build configuration is parsing of environment variables into constants. Its
  results are the parameters of the other modules.
- The start of endpoints and the QUIC handshake are I/O; an endpoint that could
  not be created is one that is closed at the start (`Init` of `Shutdown`).
- Of the asset pipeline: content types, the constant security headers, the
  sharing of equal header sets (`codegen.rs`), the minifiers and compressors, the
  printed summary. They are maps from a file to a value in which no order of
  steps plays a part.
- The response cache of a browser is modelled for one browser; proxies between
  browser and server are not.
- Benchmarks, test drivers, the example front end and the servers it is compared
  with are not part of the program.

## What could be added

`Shutdown` takes each TCP connection for one response. Putting `TcpWorkers` and
`Shutdown` into one module would show nothing the two do not, at a state space
TLC cannot cover: they share the watch channel only, and `HandlersDone` is what
`DrainCompletes` and `CleanMeansDrained` establish. That both implement
`ConnectionLimiter` is proved.
