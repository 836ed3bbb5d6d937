# KrpcPlus: TLA+ models, model checking and proofs

KrpcPlus is a C++ RPC framework: a client channel and a server that exchange
protobuf messages over TCP in one of two frame formats, with ZooKeeper for
service discovery. This directory holds its TLA+ models, the TLC
configurations that check them on small instances, and TLAPS proofs.
`PROJECT.json` lists components, runs, mutants, findings, hazards and
theorems, and maps every definition to the lines it models.

## 1. Inventory

| Component | State | Operations | Talks to |
|---|---|---|---|
| Codec layer (`src/src/codec`) | none (frames, byte order, sizes) | `ZeroCopyEncode`, `CheckAndPick`, `ZeroCopyDecode`, `CreateServerCodec` | called by channel and server |
| `NoncontiguousBuffer` | list of blocks, read offset | `Append`, `Peek`, `Skip` | codec layer |
| `RpcServer` (`rpc/server.cc`) | `service_map`, one `_serverCodec`; per connection muduo's input buffer | `OnMessage`, `SendRpcResponse`, `OnConnection`, `NotifyService`, `Run` | muduo's IO loops (4), services, ZooKeeper |
| `RpcChannel` (`rpc/channel.cc`) | `m_clientfd`, `m_ip`, cached names, codec | constructors, `CallMethod`, destructor | TCP, `QueryServiceHost`, `Controller` |
| `Controller` | `m_failed`, `m_errText` | `Reset`, `SetFailed`, `Failed` | channel, application |
| `RouteManager` | map behind an atomic pointer, `_writeMutex` | `GetRouteNodes`, `UpdateRouteTable` | channels, watcher threads |
| `ZookeeperClient` | session handle, `is_connected` | `Start`, `GetChildren`, `Create`, `GetData`, `global_watcher`, destructor | ZooKeeper, `RouteManager` |
| `LoadBalancer` | round-robin index (a fresh object per lookup) | `Select` | `QueryServiceHost` |
| `RuntimeStats` | atomics: counts, sums, maxima, histogram | `Record`, `ComputePercentiles`, reports | every stage of `CallMethod` |
| `Config`, `Application` | key/value map | `LoadConfigFile`, `Load`, `Init` | everything, at start-up |
| Load programs (`example/caller`, `tools/qps_benchmark.cc`, `tools/benchmark_stats.cc`) | shared counters, sampled history, running flag | workers, monitor thread, report | stub, `RuntimeStats` |
| Logger, test servers and micro-benchmarks under `tools/` | - | - | - |

What is hard here: four IO loops share one unlocked codec pointer; TCP cuts
and joins frames anywhere; responses are matched to calls by position only;
a server may die at any byte; callers and watcher threads update one
copy-on-write table, holding two mutexes and joining each other; a server
registers node by node over a session that may break or expire under it, next
to the leftovers of the process before it; timers of all threads meet in
separate atomics.
What makes each part correct:

- codec: accepts exactly the whole frame, refuses the other protocol, decodes
  what was encoded;
- server: keeps frame boundaries, answers each request once, in order, and
  eventually;
- channel: returns the response of its own request, leaks no socket, leaves
  no stale bytes, returns unless the server leaves its request unanswered,
  reports the failure of the current call (if the caller resets the controller);
- discovery: loses no update, caches only lists the registry had, never
  blocks, keeps the cache up to date;
- registration: a serving process is registered, routes belong to live
  sessions and go with them, shared parents stay, start-up ends;
- buffer: behaves as one queue of bytes;
- statistics and load programs: no sample and no call lost or counted twice,
  percentiles those of the samples as far as buckets of doubles tell them
  apart, the program ends.

## 2. Modules

| Module | Models |
|---|---|
| `FrameCodec` | both wire formats as operators on sizes and header fields |
| `FrameArrival` | a request frame arriving in segments; the codec's properties |
| `RpcMessages` | the protobuf messages, by method and size |
| `Tcp` | sockets and muduo connections (external) |
| `RpcServer` | `OnMessage`, `SendRpcResponse`, `OnConnection` on the IO loops |
| `RpcServerLoad` | the server under pipelining clients |
| `RpcChannel` | the stages of `CallMethod`, constructors, destructor, controller |
| `RpcSystem` | channels and server together, with crash and restart |
| `RouteCache` | abstract: a table whose entries are replaced atomically |
| `RouteManager` | the copy-on-write table, step by step |
| `Discovery` | `QueryServiceHost`, ZooKeeper sessions, watches, watcher threads |
| `ByteQueue` | abstract: a queue of bytes |
| `NoncontiguousBuffer` | the deque of blocks, shown to implement `ByteQueue` |
| `RuntimeStats` | `Record`, atomic by atomic; percentiles and report |
| `LoadTest` | workers, monitor and main of the four load programs, over `RuntimeStats` |
| `Config` | parsing of configuration file and command line, as operators |
| `Registration` | `main`, `NotifyService`, `Run`, `ZookeeperClient::Start` and `Create`; processes killed, cut off, expired, restarted |
| `MC*` | instances for TLC |
| `CodecProofs`, `DiscoveryProofs`, `RpcServerProofs`, `RpcServerLoadProofs`, `RpcSystemProofs`, `RegistrationProofs`, `LoadTestProofs` | theorems |
| `SequenceLemmas` | lemmas about sequences and sums that the proofs share |

`RpcSystem` composes `RpcChannel` and `RpcServer` over `Tcp`; `Discovery`
composes `RouteManager` with the callers and the registry; `RouteManager`
is shown to implement `RouteCache` and `NoncontiguousBuffer` to implement
`ByteQueue`; `LoadTest` composes `RuntimeStats` with the programs that use it;
`Registration` starts from what `Config` makes of the command line.

How state and steps correspond to the code:

- **Frames.** A payload is `[val, size]`. A `FixedHeader` is its field values
  and the byte order they lie in, so converting it twice gives swapped values
  (`PeekFixedHeader`). The 16-bit `header_size` is kept `% 65536`. A header
  read from too few bytes is parsed nondeterministically. `size_t` arithmetic
  on `total_size` is not wrapped: payloads are assumed below 20 MB each.
- **Server.** `task[l]` is the `OnMessage` call loop `l` is executing. It is
  cut at every access to `_serverCodec`: `Probe` (the null test), `Install`
  (the assignment), `Pick`, `Decode`, `SendRpcResponse`. Everything else in
  the handler touches one connection, which belongs to one loop, and stays in
  the same action. A second assignment destroys a codec another loop may be
  calling; the model lets the process die there or go on. `arrived[c]` counts
  the bytes in the input buffer; `Cuts` says where inside a frame TCP may cut.
  Services answer synchronously, as the example does. A memory failure while
  decoding a frame with the wrong codec is not modelled.
- **Channel.** `pc[ch]` is the stage of the blocking call, cut at every system
  call. `CloseAndFail` is the code's repeated close / `-1` / `SetFailed`.
  `RecvFails` is `recv_exact` returning 0 or -1. A response travels as the two
  parts `recv_exact` reads. `call.id` and the id in a payload are history
  that tells requests apart: the code has no such field on the Legacy wire and
  never sets `request_id`. `Routes` stands for `QueryServiceHost` in this
  composition; `""` and `" "` are what `m_ip` becomes when there is no
  provider, or an address without a colon. The connecting constructor tries up
  to four times in a row (`channel.cc:339-344`); `Construct` is the last try.
- **Discovery.** `stage[t]` is where a thread is in `UpdateRouteTable`; the
  call to ZooKeeper (`Fetched`) is before the lock, as in the code. `pc[c]` is
  the caller's place in `QueryServiceHost`; `routeNodes[c]` its local copy.
  Provider lists are sets; `Select` picks any member. `EndClose` waits for the
  watcher thread (`Joined`): that `zookeeper_close` joins it is assumed of the
  library, and without it the callback could use a client that is gone.
- **Buffer.** `blocks` is the deque, a block its bytes and its read offset,
  `readable` the code's separate count. The loops of `Peek` and `Skip` are
  recursive functions of the number of blocks seen, whose values are the
  loop's variables (`PeekBlocks`, `SkipBlocks`).
- **Statistics.** `recPc[t]` is the thread's place in `Record`: the two
  additions, the load of the maximum, one turn of the compare-and-exchange
  loop (which may fail spuriously), the bucket. `samples` is history: how
  often each duration was recorded. A percentile is the number of its bucket;
  the report prints its midpoint. A timer measures whole nanoseconds, which
  reach `Record` as a double of milliseconds. `Ns` and `Quotient` are its two
  conversions, cut to an integer: the nanoseconds (`runtime_stats.cc:26`) are
  those measured or, for some (`CutShort`, such as 251 ns), one nearer to zero;
  the quotient by the bucket's width (`runtime_stats.cc:38`) is the exact one
  or, on some bucket boundaries (`RoundedDown`, such as 0.3 ms), one less. Which
  durations those are is left to the two constants; the run has one of each. The
  ranks of the percentiles are the integer quotients: IEEE doubles agree with
  them up to two million calls.
- **Load programs.** `todo[w]` is what the worker's current call has still to
  do: the timers to stop, innermost first, then counting. A call is its
  outcome and its duration; that it returns is the matter of `RpcSystem`. The monitor's
  two loads are two steps. `failed[w]` is the worker's controller, which
  `bench_client.cc` resets and `client.cc` does not.
- **Registration.** A znode is its path, with the process that owns it.
  `todo[p]` are the nodes `Run` has still to create, in any order of the two
  unordered maps. `Create` is `zoo_exists` and `zoo_create` as two steps;
  `CreateUnheard` is the answer that is lost. `told[p]` are session events on
  their way to `global_watcher`. `Expire` is ZooKeeper's: it also ends the
  session of a process that is alive and cut off. A line of the configuration
  file is a sequence of words, spaces among them, and fits the 1024-byte buffer
  of `fgets` (`config.cc:14`): the pieces a longer line is parsed in are not
  modelled.

Operators commented `Wrong:` are the deliberately broken variants the mutants
of `PROJECT.json` substitute for the definition that follows them; each shows
that a property notices a plausible mistake. No specification uses them.

## 3. Runs

Passing runs:

| Run | Question |
|---|---|
| `FrameArrival` | every prefix of a frame, sizes on both sides of 0, of the 64 KB a header may have and of 16 MB |
| `Server` | clients of one protocol, or of both racing on the shared codec, pipeline registered and unknown methods in split segments and hang up; with one protocol every request for a registered method is answered |
| `System` | a Legacy channel and a direct XRpc channel against one server, with the detection race, crashes, bad addresses, oversized requests and responses; every call returns, except those named in `MayBePassedOver` |
| `Discovery` | two callers, two watcher threads, failing ZooKeeper calls: safety, refinement of `RouteCache`, every lookup ends |
| `Buffer` | appends and skips of any length over blocks of 3 bytes: one queue, and `Peek` its window |
| `LoadTest` | two workers, monitor and main of each load program at every atomic: exact maximum, count and sum; histogram and percentiles exact but for boundaries of buckets and rank 0; every call counted once, intervals that add up, segments without gap or overlap, an end |
| `Registration` | two server processes, restarted or side by side, killed, cut off and expired at any step: registered while serving unless `Create` skipped the node, gone when dead, started in the end; the configuration read as the file means it |

Runs that end in a violation, each a disagreement between the code and what a
doc, a comment or a recorded test says (quoted in `PROJECT.json`):

| Run | What TLC shows |
|---|---|
| `SystemXRpc` | the XRpc client swaps the header twice, every call fails |
| `SystemTwoMethods` | the second method is sent under the first one's name |
| `ControllerReuse` | with a controller that is not reset, `Failed` still says failed after a call that succeeded |
| `DiscoveryRefresh` | the watch ends with the call, a stale route stays |
| `RegistrationRestart` | a server restarted within the session timeout takes the old node for its own and ends up unregistered |

More disagreements came up and have no run of their own:

- The one codec of the server refuses a client of the second protocol
  (`server.cc:115`), and two loops may both install one (`server.cc:117`), with
  the process dying or a codec in use replaced. Both happen in `Server` and
  `System`, where nothing is promised of the requests they cost.
- A request for an unknown method, or whose response does not encode, gets no
  answer (`server.cc:158`, `server.cc:216`), and `recv_exact` has no timeout: its
  caller waits for ever. `CallReturns` names the requests this can happen to
  (`MayBePassedOver`) and allows a caller to wait only for those, and only on a
  live connection on which nothing is under way (`PassedOver`).
- A first segment of one byte makes `CreateServerCodec` choose Legacy
  (`codec_factory.cc:20`); TC03 of `docs/测试与压测报告.md` says "半包 → return 0".
  Hence the `n >= 2` of `ProbeDetects`.
- A variable header of 64 KB or more is truncated by the 16-bit `header_size`
  (`xrpc_codec.cc:293`) and is not decoded as it was encoded; TC02 says
  "所有字段与原始值完全一致". Hence `HeaderFits` in `RoundTrip`.
- `runtime_stats.h:20` says "固定桶直方图 → P50/P95/P99/Max 精确计算". The
  maximum is exact; a percentile is the midpoint of a 0.1 ms bucket, a duration
  on a boundary may be counted one bucket low, and when a rank is cut to 0 (P50
  of one call) the first bucket is reported, 0.05 ms, whatever was measured.
  Hence `rank > 0` and the closed buckets in `PercentilesOfSamples`.
- `client.cc:261` says "分段 QPS 分析 (将测试过程分成 5 段)". The segments are of
  equal integer size, so up to four samples at the end of the test are in none
  (9 samples: only 5 are analysed). `SegmentsPartition` states which.
- `client.cc` counts successful calls after a failed one as failures, as it
  never resets its controllers (`ControllerReuse`): hence `<=` for it in
  `CallsAccounted`.

**Bounds.** Two loops, connections or callers are enough for each race, which
is between two of them; two or three calls or requests reach a reused
connection, a sticky packet and a call after a failure; two paths and two
registry changes reach a lost update and a stale list. `MaxRequests`,
`MaxCalls`, `MaxQueries` and `MaxChanges` bound counters; `MCConns` gives a
channel a connection per call and one for its constructor, the most it opens.
Deadlock is not checked: with a bound reached, or with nobody calling, the
system rightly stops. `Server` cuts frames at offset 8,
inside the 16-byte fixed header of XRpc and after the length prefix of Legacy
(every offset is in `FrameArrival`, and the proofs have any cuts). In `System`
the XRpc channel is the direct one and also sends what does not encode, in
either direction. One lookup per caller is enough in
`Discovery`: a further lookup of the same caller opens a fresh session, like
another caller's. `Buffer` appends up to 7 bytes to blocks of 3 (4096
in the code), so that there are three blocks with a read offset in the first.
`LoadTest` has four buckets of 0.1 ms and a negative duration, one in the first
bucket that loses a nanosecond, one on a boundary that is rounded down and one
past the last bucket, and two calls for each of one or two workers, so that a stage is
recorded from once (the rank of its percentiles is 0) to four times. In
`Registration` two processes are a server and its restart or two servers; one
service (and a second of the same name, which `NotifyService` ignores) gives
every kind of node.

**Fairness.** Weak fairness of each IO loop, of each stage of `CallMethod`,
and of each caller and watcher thread: the kernel runs threads that can run.
Nothing is assumed of applications (they need not call), of clients, of the
registry, or of a dead server (it need not restart). Waiting for a mutex needs
no more in these instances because only finitely many lookups compete.
`LoadTest` adds each worker, the monitor and main. `Registration` adds the
server process and the threads of ZooKeeper's client library, and two facts of
ZooKeeper: a client reconnects in the end (`Start` has no timeout, so
`StartEnds` needs it) and the session of a dead client expires. Nobody needs
to start a process and no connection needs to break.

## 4. Proofs

`CodecProofs`, first part (any messages below 20 MB a part, any segmentation):
`PickCorrect`, `RefusalCorrect`, `ProbeCorrect`, `RoundTripCorrect`. They follow
in every state of an arrival by cases on the protocol, from lemmas that compute
what each codec sees at the head of a frame.

`CodecProofs`, second part (any block limit, chunks and lengths):
`BufferTypeCorrect`, `PeekCorrect`, `BufferRefinement`. `BufferTypeOK` is
inductive: every block has an unread byte, and `readable`, kept apart from the
blocks, is the length of what they hold together (`Contents`). Peek and Skip
are loops, so each has a loop invariant over the blocks seen so far: Skip has
dropped, and Peek copied, what the queue of the first `i` blocks' bytes would
give (`SkippedOver`, `PeekedOver`), which `FlattenPrefixes` and the lemmas on
cutting a concatenation (`CutConcat`, `CutOfCut`) carry from one block to the
next. With `Contents` for the queue, Append and Skip are then steps of
`ByteQueue`.

`RpcServerProofs` and `RpcServerLoadProofs` (any loops, connections, methods,
message sizes and cuts, every mix of protocols): `LoadTypeCorrect`,
`AnswersInOrderCorrect`, `BufferAlignedCorrect`. The last two are not inductive:
a response written now belongs to a request taken off the buffer steps ago.
`ServerInv` says what each stage of `OnMessage` knows (a loop works on its own
connections, on a frame that is complete at the head of the stream) and that the
requests answered, the one being answered and those still on the wire follow
each other. It is proved step by step for whoever the clients are, and used
twice: `RpcServerLoad` adds pipelining clients, `RpcSystem` channels.

`RpcSystemProofs` (any channels, protocols and number of calls, with crashes and
restarts): `ChannelTypeCorrect`, `SocketsOwnedCorrect`,
`QuietBetweenCallsCorrect`, `ResponseMatchesCorrect`.
`SystemInv` says where the request of a waiting call is: on the wire, in the
hands of the connection's loop, or in the response, of which a crash may have
cut any part off; never in two places, and between calls in none
(`Conversation`). That the wire carries no request id is harmless for this
reason alone. `SocketKept` is the other half: no socket is open that its channel
does not hold. `ServerWithChannelsCorrect` shows that the server keeps frame
boundaries in the composition too. `XRpcCallsFailCorrect` proves the finding of
`SystemXRpc` for every instance: no XRpc call ever succeeds, because the
client has turned the fixed header round (`ReadFrame`).

`DiscoveryProofs`, first part (any threads, paths and providers):
`RouteInvariant`, `NoUpdateLost`, `RouteRefinement`. `NoStaleCopy` alone is not
inductive: a `StoreTable` of one thread would falsify it for another.
`WritersExclude` (only the holder of `_writeMutex` is between load and store)
rules that out, and the refinement follows, as storing a current copy with one
entry changed is `Replace`.

`DiscoveryProofs`, second part (any callers, paths, providers, bounds and failures):
`DiscoveryTypes`; `DiscoveryUsesRouteManager` shows that every step of a lookup, a watcher or the
registry is a `RouteManager` step or leaves the table alone, so that
`DiscoveryRefinement` follows from `RouteRefinement`. `CacheHoldsRegistryLists`
and `EmptyListsAreAsked` rest on `DiscoveryInv`, which adds to the types what
makes each inductive: every list on its way into the cache was its path's list
(`ListsPublished`, which needs `NoStaleCopy` for the entries a store copies); an
empty list is in a caller's hands only after it asked (`AskedWhenEmpty`).

`RegistrationProofs` (any processes, services and methods, however processes
are killed and sessions lost): `RegTypeCorrect`, `ParentsFirstCorrect`,
`RouteOwnedCorrect`, `ServingIsRegisteredCorrect`. That a serving process is
registered is about the end of `Run`; `RegInv` says it of every moment of it:
while the session is open, each route of the process is still to be created, or
is there and its own, or was skipped because a node was there (`Registered`).
Of the nodes it says that only routes are ephemeral, with an open session and
among the routes of their owner, and that a parent is there and persistent
(`NodeState`), hence never removed under a child.

`ConfigMeansFileCorrect`, in the same module (any files, of any lines, and any
command lines): a running process reads what its file and its command line say.
`LineMeans` shows that what `ParseLine` takes from a line is what the line
assigns: Trim cuts off spaces and nothing else (`TrimCuts`), so neither the
first `=` nor the newline is lost with them (`AssignsCore`, `AssignedCore`).
`FirstOf` is the invariant of the loop over the lines: the first assignment
stays. `ConfigInv` carries the result from `main` through the life of the
process: no later step writes `config_map`, and none brings a dead process
back.

`LoadTestProofs` (any threads, stages, calls, buckets and durations):

- `MaximumExact`. `MaxIsExact` alone is not inductive: a thread leaves the loop
  when its duration is at most the maximum it loaded, maybe long ago.
  `OldMaxBehind` says that the maximum has not fallen below it since, which
  follows because an exchange only succeeds upwards (`MaxGrows`). `CallsInv`
  ties the programs to it: what they record are `Durations` (`StatSteps`).
- `IntervalsNotNegative`, `IntervalsAddUpCorrect`: inductive with the counters'
  types; the sum of the intervals grows by what the monitor appends.
- `CallsAccountedCorrect`. `AccountInv` holds at every moment: calls counted,
  and calls a worker has not counted yet (`Uncounted`, a sum over the threads),
  are all calls; `OkPending` does the same for successes. `OutcomeInv` says
  what `failed[w]` is worth in each program, and `WorkInv` that a call is
  counted once and that main goes on only when nothing is left.
- `ReportExactCorrect`. `RecordedInv`: a duration in the count and the sum of a
  stage is in its histogram or still with the thread that records it; `TimedInv`:
  a call is in the count of `TOTAL` or still to be measured. `BucketHolds` shows
  what the cut quotient is worth: a duration is in the bucket whose range holds
  it, or, on a boundary, maybe in the one below. `HistogramBounds` sums that up.
- `PercentilesCorrect`: the histogram summed from below is thus at least the
  number of durations shorter than the bucket's end and at most that of those
  no longer, so the first bucket that reaches a rank holds its duration.
- `SegmentsCorrect`: arithmetic, for every number of samples.

`SequenceLemmas` proves what these need of sequences (pieces of pieces, the two
ends of a cut, a loop as a function of its rounds), of `FlattenSeq` and
`SetToSeqs` and of sums over finite sets (`SumFunctionOnSet` does not depend on
the order in which the set is walked). Instead of an induction, which the
provers cannot use, each takes a least counterexample: finite sets under strict
inclusion are well founded (`LeastNat`, `LeastSet`).

Assumptions on constants, each named in the module that declares it: message
sizes are at most 20 MB; a registered method has a response, and a garbled name is not
one; connections have one loop and one owning channel, and `NoFd` is none of
them; every session has a watcher thread of its own, no caller is a watcher,
no provider's address is empty, `NoThread` is no thread and there is a path;
services have finitely many methods and `Persistent` is no process; a
configuration file is a sequence of lines, a line a sequence of words; what is
appended to a buffer is a sequence of bytes, what is skipped a natural number; threads and
durations are finitely many, and a step of a call other than a timer does not have a
stage's name; the numbers of buckets and of segments and the width of a bucket
are positive; a duration that loses a nanosecond is not 0, and the quotient
comes out low only on positive multiples of the width. `Conns` bounds how many sockets a channel may open.

Only model-checked: the liveness properties (`RequestsAnswered`, `CallReturns`,
`LookupEnds`, `LoadTestEnds`, `StartEnds`, `ExpiredEnds`, `DeadRoutesExpire`),
as the prover has neither fairness nor `ENABLED`. Every invariant, action
property and refinement that a passing run checks is also a theorem.

## 5. Not modelled, and the plan

Not modelled:

- the logger, a wrapper of glog; the text of errors and reports;
- `tools/mini_server.cc` and `tools/mini_server_reactor.cc`, test servers with
  a socket loop of their own that share no code with `RpcServer`;
  `tools/real_benchmark.cc` and `tools/rcu_benchmark.cc`, which measure the
  codec and `RouteManager` and add no behaviour to them;
- `ZookeeperClient::GetData`, which nothing calls;
- the fields of the wire messages that neither side reads (`request_id`,
  timeout, caller, `trans_info`);
- session expiry in a client: the process ends, as in `Registration`.

Next: a composition of `RpcChannel` with `Discovery`: whether a channel ever
reaches another provider after its first one is gone (`m_ip` is kept,
`channel.cc:87`), with the docs' claim of no single point of failure.
