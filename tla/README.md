# TLA+ models of the nextdns local DNS proxy

This directory holds TLA+ models of the proxy in `src/`, the TLC configurations
that check them, and `PROJECT.json`. `PROJECT.json` lists the components, the runs,
the mutants, the map from definitions to source lines, the findings and the hazards.

## 1. Inventory

The repository contains three implementation files:

- `src/proxy/bufferpool.go`
- `src/proxy/tcp.go`
- `src/resolver/endpoint/transport_h2.go`

It also contains tests for code that is not in it: the DNS53 resolver, the
discovery helper, the service lifecycle (`run_test.go`) and the ctl IPC. For those
parts, `spec.md` and the tests are the only sources.

| Component | Source | State | Operations | Interacts with |
|---|---|---|---|---|
| TieredBufferPool | `proxy/bufferpool.go` | three `sync.Pool` freelists (512, 4096 and 65536 B) | `Get(size)`, `GetLarge`, `Put` (nil ignored, exact capacity only), `sync.Pool` New and GC drop | shared by every TCP connection of a listener |
| TCP listener | `proxy/tcp.go` | per connection: a `WaitGroup`, the reader's `buf`, the loop position; per query goroutine: `buf` (captured), `rbuf`, `rsize`, `err` | Accept; the read loop (acquire token, `GetLarge`, `readTCP`, reject ≤ 14 B, spawn); the goroutine (parse, `GetLarge`, `Resolve`, SERVFAIL fallback, `writeTCP`, deferred recover/Put/release/log, `wg.Done`); deferred `wg.Wait`, `Close` | admission channel `inflightRequests` (shared with UDP), pool, resolver, client socket |
| Admission control | `inflightRequests` channel passed to `serveTCP` | the number of tokens held | send (acquire, blocking), receive (release) | TCP reader loops, query goroutines, UDP path |
| UDP listener | not in the repository (spec 4.2) | none beyond a query | one task per datagram, same token and pool | admission, pool, resolver |
| DNS53 resolver | not in the repository (`resolver/dns53_test.go`, spec 4.3) | socket, retry counter, cache | write the query, read up to `maxRetries` = 5 datagrams, check length and ID, handle the deadline, clamp the TTL, cache by (name, type, class), except PTR | upstream (lossy, forged), cache |
| Discovery | not in the repository (`discovery/dns_test.go`) | same loop as DNS53 | PTR lookups with bounded retries | LAN resolvers |
| DoH transport | `resolver/endpoint/transport_h2.go` | `http.Transport`, addresses | `newTransportH2` (parallel dial, 5 s write-deadline wrapper, curve list), `RoundTrip` (rewrites host and path), `endpointAddrs` | EndpointManager, TLS, HTTP/2 |
| EndpointManager | not in the repository (spec 4.4) | candidates, health, latency, preferred endpoint | probe loop (each iteration has its own cancelable context), selection | DoH transport |
| Service lifecycle | not in the repository (`run_test.go`) | `stopFunc` under `stopMu`, `stopped` channel, `OnInit` | `stop()` returns true once and waits for `stopped` | ctl, OS service |
| ctl IPC, ARP/NDP, build scripts, test helpers | tests, scripts and documents only | | | out of scope (spec 1) |

**What makes it hard.** On each connection, one reader loop runs alongside many
query goroutines. Connections share one bounded channel of tokens and one pool of
buffers with identity. A buffer passes from the reader to the goroutine that
captured it. Every query has these exit paths:

- a read error or EOF;
- a short frame;
- a Resolve error or timeout;
- an oversized answer;
- a failed write;
- a recovered panic.

Each exit path must release exactly what it took. The socket may only be closed
after a join. Each response is written in two writes. DNS53 must bound its
retries against forged or stale datagrams, and it must respect the deadline.

**What makes each component correct.**

- **Pool:** a buffer is handed out with the capacity of its tier. It returns
  only to its own tier, and it is never owned by two parties.
- **TCP:** tokens are acquired and released exactly once per admission. The
  connection is closed only after every goroutine has ended. Every frame
  announces its true size, and every frame is contiguous. Every query is
  answered, with SERVFAIL on failure. Every goroutine and every connection
  eventually finishes.
- **DNS53:** a result is accepted only with a matching ID. The loop ends after at
  most 6 reads, or at the deadline. PTR answers are never cached.
- **EndpointManager:** it selects only healthy endpoints, prefers the lowest
  latency, and cancels every probe context.
- **Lifecycle:** `stop` returns true exactly once per start.

## 2. Plan

Modules are listed in order of importance. Items 1 to 7 are built (item 7 without the EndpointManager). Item 8 and the EndpointManager are not built: section 6 says why.

1. `TieredBufferPool`: the pool's operations, as actions on a bag per tier.
   *(done)*
2. `Admission`: the abstract semaphore. It has a count and a set of holders,
   and each unit releases once. *(done)*
3. `TcpServer`: composes the pool (`INSTANCE ... WITH Cap`). It is shown to
   implement `Admission` through a refinement mapping, checked in `Proxy`
   together with the UDP side. *(done)*
4. `BufferPoolClients`: callers of `Get(size)` and `Put` at every tier boundary.
   Callers with sizes are spec-modelled. *(done)*
5. `UdpServer` (spec-modelled, since udp.go is absent), and a composition
   `Proxy` in which TCP and UDP share the admission channel. *(done; the UDP
   buffers are left out)* Its runs:
   - a refinement of `Admission` across both transports;
   - a liveness run, expected to be violated, where idle TCP readers hold every
     token and starve UDP.
6. `Dns53Resolve` (spec-modelled from spec 4.3 and `dns53_test.go`). The
   upstream sends forged, stale, short, duplicated or late datagrams against a
   deadline. Properties:
   - at most `maxRetries + 1` reads;
   - success only on an ID match;
   - N < 5 mismatches then a match succeeds in N+1 reads;
   - the deadline overrides the counter.

   *(done as `Dns53`, except the third item)* Then an abstract `Resolve` spec (answer, or one of two stable errors) with a
   refinement, and a cache with the PTR exclusion. *(done as `DnsResolve`)*
7. `DohTransport`: the parallel dial race over `endpointAddrs` (the first
   handshake wins and the losers are closed), and the write-deadline wrapper.
   *(done as `DohTransport`; the race itself is one step)* Also `EndpointManager` (spec-modelled): the probe loop with a
   per-iteration cancel, and selection (healthy, lowest latency, exclusion
   after failed probes).
8. `ProxyLifecycle` (spec-modelled from `run_test.go`): concurrent `stop`, with
   `stop` returning true once.

## 3. Modules and how they map to the code

### `TieredBufferPool.tla` (`bufferpool.go`)

`pooled[t]` is a bag, because a `sync.Pool` can hold the same pointer twice.
`allocated` is the set of buffer identities that `New` has made.

- `GetFromTier` returns either a pooled buffer or a fresh one of the tier's
  capacity. `sync.Pool.Get` may call `New` even when buffers are pooled.
- `TierFor` is the switch in `Get`.
- `PutPooled` and `Put` are the nil check and the capacity switch. A foreign
  capacity is dropped.
- `Evict` is a GC dropping a pooled buffer. The identity is reused only when
  no goroutine still references it.

### `Admission.tla` (abstract spec)

The variables are `tokens`, `holders` and `released`. `Acquire(u)` needs a free
token and a fresh unit. `Release(u)` is allowed once, by a holder.

### `TcpServer.tla` (`tcp.go`)

The connections are a constant set. Each starts in the listen backlog
(`rpc = "backlog"`). The k-th goroutine of connection c is the task `<<c, k>>`.

The accept loop `serveTCP` has `lpc`: `"accept"`, or the error it returned.

- `Accept(c)`: `l.Accept()` returns c, and `go serveTCPConn` starts its reader.
- `AcceptError(e)`: a timeout is retried (`continue`). Any other error ends
  `serveTCP`, and the connections it already accepted keep running. Accept
  returns (a connection or an error) only while a connection is pending.
  A non-timeout error with nothing pending is the listener being closed,
  which ends the service anyway.

The reader of each connection has these states, with one action each:

- `Acquire`: the channel send and `GetLarge`.
- `ReadFrame`: `readTCP`, which branches to one of:
  - `RejectFrame`: `qsize <= 14`;
  - `StartQuery`: `wg.Add(1)` and `go`.
- `ReadFail`: the error and EOF path.
- `Close`: the deferred `wg.Wait(); c.Close()`.

Each goroutine has these steps:

- `Parse`: `query.New` and `GetLarge(rbuf)`. A parse error is only logged and
  the code goes on, so both outcomes are this one step.
- `Resolve`: the resolve call and the SERVFAIL fallback, with `ResponseSize`
  taken from the code's condition. Alternatively `ResolvePanic`.
- `WriteLen`, then `WriteBody`: the two writes of `writeTCP`. An error on the
  prefix skips the body.
- `Cleanup`: the deferred Put of both buffers, the token release and
  `wg.Done`.

The environment is the client and the GC (`Collect`). The client may close at
any time and never has to send. It may also stop reading (`ClientStall`) and
read again later (`ClientResume`); the bound is one stall per connection, and none when `MaxStalls = 0`.
`WriteOK` needs a client that reads, because neither `writeTCP` nor
`serveTCPConn` sets a write deadline. The wire keeps `<<kind, k, value>>` for every
write that reached the socket. The length prefix is `rsize % 65536`, which
models `uint16(len(buf))`.

The refinement mapping to `Admission` (`AdmissionHolders`, `AdmissionReleased`; `Proxy` adds the UDP side and checks it) works as follows:

- The k-th admission of c is held by the reader while it reads, then by the
  goroutine it starts.
- It is released when that goroutine is `done`, or when the reader stopped on
  that admission.
- `tokens` is `len(inflightRequests)`.

`p.Timeout` is the constant `Timeout`. `ResolveTimeout` is the deadline of
the resolve context, which exists only when `Timeout > 0` (lines 104-109).
`Resolve` itself is the upstream's answer and is not fair.

### `DohTransport.tla` (`transport_h2.go`)

Requests are `Reqs`; connections are numbered up to `MaxConns`.

- `Init` is the transport `newTransportH2` returns, with no connection.
- `RoundTrip` is the request rewrite (URL host, Host, path when set). It then
  takes a pooled connection (`Usable`: open or stalled, since http2 cannot tell
  a stalled peer) or asks for a dial.
- `DialContext` is the dial: one of `endpointAddrs` wins, or the dial fails.
  A connection it returns is wrapped in `deadlineConn`, so `deadline[k]` is
  set.
- `Write` takes the connection's write mutex. To a stalled peer it blocks
  holding it, and a request waiting for the mutex ignores its context (the Go
  issue the comment at lines 39-47 cites).
- `WriteDeadline` is `deadlineConn`'s 5 s deadline: the write fails, http2
  closes the connection and every request on it fails.
- `IdleClose` is `IdleConnTimeout`. `Stall`, `Resume` and `Respond` are the
  peer; `Cancel` is the caller's context while a request awaits its response.

The parallel dialer, `deadlineConn` and the http2 pool are library code not in
the repository, modelled from spec.md 4.4 and the comment. The connect tracer
(`roundTripperConnectTracer`, lines 58-64) is not in the repository and only
reports connections, so it is left out.

### `UdpServer.tla` and `Proxy.tla` (spec 4.2)

`UdpServer` is the UDP read loop (`UdpAcquire`, `UdpRead`) and its tasks
(`UdpResolve`, `UdpReply`). `Arrive` is a client's datagram. The loop takes its
token before it reads, as `serveTCPConn` does; spec 4.2 only says the token is
taken before the task is spawned. `Proxy` puts `TcpServer` and `UdpServer`
side by side over the shared `inflight`: each step is a step of one listener.

### `Dns53.tla` (spec 4.3, `dns53_test.go`)

Calls share one cache of entries `[key, ttl]` keyed by `<<name, type>>`.

- `Start` is the cache hit, the write of the query, or a dial error.
- `Discard` is a short or mismatched datagram. It is counted, and past
  `MaxRetries` the call fails with an error naming a kind it discarded.
- `Answer` is a matching datagram: `Clamp` to MaxTTL, then cache unless PTR.
- `Deadline` is the context's deadline; `Expire` is CacheMaxAge passing.

The retry rule (fail on the discarded datagram that makes the count exceed
`maxRetries`) is the one the tests pin down: six bad datagrams fail, and five
bad ones followed by a match succeed.

### `DnsResolve.tla` (abstract spec of a resolve call)

The contract `Dns53` is checked to implement. Each call goes from `idle` to
`ok` or `err` once. `Begin` sends it upstream, and `Fetch` returns the answer
to its own key with the TTL clamped. `Hit` returns, with `fromCache` set, an
answer that an earlier call got from the network for the same key (never for
PTR). `Fail` returns one of a fixed set of errors. The mapping in `Dns53`
sends `read` to `busy` and `result` to `res`. Discards and expiries are
stuttering steps. So a cache entry that no network answer produced (one left
behind on an error path, say) breaks the refinement.

### `BufferPoolClients.tla`

Callers of `Get(size)` and `Put`, plus foreign and nil `Put`s. `RefTier` is the
spec's definition: the smallest tier at least as large as the size, otherwise
the large tier.

## 4. Runs

| Run | Bounds | Result |
|---|---|---|
| `tcp_accept_error` (`MCTcpServerAccept.cfg`) | 1 connection, 1 query, `ReadingSpec` | **violation** of `EveryConnAccepted` |
| `tcp_liveness` (`MCTcpServerLiveness.cfg`) | 1 connection, 2 queries, 2 tokens, 4 buffers, frames {12, 33}, resolve sizes {0, 65535, 65536}, error or panic, Accept timeouts and errors, no symmetry, `Timeout = 5`, `ReadingSpec` | pass, about 226k states in 3 minutes: `QueryCompletes`, `ConnCloses` (a client's close, or a short frame, ends in a closed socket unless the connection was never accepted) |
| `tcp_no_timeout` | as `tcp_liveness`, `Timeout = 0` | **violation** of `QueryCompletes` |
| `tcp_write_stall` (`MCTcpServerWriteStall.cfg`) | 1 connection, 1 query, `Timeout = 5`, `FairSpec` (the client need not read again) | **violation** of `QueryCompletes` |
| `proxy_shared` (`MCProxyShared.cfg`) | 2 TCP connections of 1 query, accepted in either order, 2 datagrams, 2 tokens, 4 buffers, resolve sizes {0, 65536}, `MaxStalls = 0` | pass, about 136k states in under a minute: `TypeOK`, `ExclusiveBuffers`, `JoinBeforeClose`, `FrameLengthMatches`, `BuffersWithinAdmission`, `SharedAdmissionRefinement` |
| `proxy_udp_starved` (`MCProxyStarved.cfg`) | 1 TCP connection, 1 datagram, 1 token, fair | **violation** of `UdpAnswered` |
| `doh_stall` (`MCDohTransport.cfg`) | 2 requests, 2 bootstrap IPs, 2 connections, fair | pass, about 1.2k states: `RoundTripReturns` |
| `dns53` (`MCDns53.cfg`) | 2 A and 2 PTR calls for one name, `maxRetries = 2`, any datagram mix, TTLs {30, 300}, MaxTTL 60 | pass, about 381k states: `ReadsBounded`, `ResolveRefinement` (the answer is for the call's question, its TTL clamped, no PTR answer from the cache, a cached answer an earlier network answer) |
| `tcp_interleaved_writes` | 1 connection, 2 queries | **violation** of `ResponsesContiguous` |
| `tcp_panic_no_servfail` | 1 connection, 2 queries, fair | **violation** of `EveryQueryAnswered` |
| `tcp_min_frame` | frames {14, 33} | **violation** of `MinFrameAccepted` |
| `bufferpool_tiers` | 2 callers, 2 buffers per tier plus 1 foreign, sizes at every boundary | pass: `GetFits`, `PooledTierMatches` |

**Why these bounds are enough.**

- Two tokens for two queries make the reader block on a full channel while
  its own goroutines hold tokens (`tcp_liveness`, `tcp_interleaved_writes`).
- Two connections sharing two tokens with the UDP loop race for tokens and
  for buffers that come back to the pool (`proxy_shared`). With two
  datagrams, UDP can hold both tokens while TCP readers wait.
- `MaxStalls` bounds how often a client stops reading: once in the TCP runs,
  never in `proxy_shared`. There a stall only delays a release, which no
  safety property can see, and it multiplied the state space by nine.
  Pipelining two queries on each of the two connections gave 2 million
  states in 15 minutes.
- Four buffers cover every holder that can be live: at most two token holders,
  each holding at most two buffers.
- The resolve sizes cover each branch of the SERVFAIL condition: zero, the
  largest legal size, and one byte over.
- The TCP safety invariants are checked in `proxy_shared`, across two
  connections. Three pipelined queries on one connection (an earlier run)
  added nothing those invariants need, and a connection's own goroutines
  still race each other in the liveness and interleaving runs. Checking the
  TCP liveness properties in `proxy_shared` too, without symmetry, ran for
  more than 30 minutes.
- One connection is enough for the accept loop. Its errors only matter while
  a connection is pending, and a second one would only wait the same way.
- Symmetry over connections and buffers is used only in the safety runs.
- One token and one idle TCP connection are enough to starve UDP; more
  connections only take more tokens the same way.
- Two requests on one HTTP/2 connection give a blocked writer and a request
  waiting behind it; two connections let a request dial again after the
  deadline closed the first.
- The DNS53 run uses `maxRetries = 2`, because with the code's 5 and four
  calls it passes 10^7 states. The loop's logic is the same for any ceiling,
  and 2 still lets a call discard both kinds of datagram before failing.

**Findings.** The seven violation runs each show a real disagreement; see
`PROJECT.json` "findings".

1. `writeTCP`'s two unsynchronised writes can interleave between goroutines of
   the same connection, which corrupts TCP framing.
2. A recovered panic sends no SERVFAIL, although spec 4.2 says it does.
3. A 14-byte frame is rejected, although spec 6 says 14 bytes is the minimum
   accepted frame.
4. With `p.Timeout = 0` (the field's zero value) Resolve has no deadline. A
   query whose upstream never answers keeps its goroutine, buffers and token
   for ever, although spec 5 says every query task carries a context canceled
   on timeout.
5. The TCP reader takes its token before `readTCP` and reads with no deadline.
   So as many idle TCP clients as there are tokens block every UDP query,
   although spec 4.2 and 5 describe backpressure from in-flight queries only.
6. `writeTCP` has no write deadline. A client that keeps its connection open
   but stops reading blocks its query goroutine in `Write` for ever. The
   goroutine keeps its token and both 64 KiB buffers, and `wg.Wait` keeps the
   connection open. Spec 5 says socket reads and writes have I/O deadlines.
   The other TCP liveness runs therefore use `ReadingSpec`, which assumes
   that a client that stopped reading reads again.
7. `serveTCP` retries only Accept errors that are timeouts. Any other error,
   a transient `EMFILE` included, returns. The TCP listener then stops for
   good, and a connection waiting in the backlog is never served. Spec 7 says
   only a failed bind is fatal, and that all else is per-query and
   self-healing. What the caller of `serveTCP` does with the error is not in
   the repository.

**Mutants.** Each property of a passing run is broken by a plausible code bug:

- a token leak on the short-frame path;
- a `return` on a `query.New` error, before the cleanup defer is registered;
- the buffer taken before the token;
- `Close` without `wg.Wait`;
- a double `wg.Done`;
- `Put(buf)` twice;
- an off-by-one in the `maxTCPSize` check or in the tier switch;
- a `default:` case in `Put`;
- writes serialised behind the reader;
- a dialled connection returned without `deadlineConn`;
- a short datagram not counted as a retry;
- an empty entry cached when the deadline ends a call.

## 5. Fairness

The fairness assumptions are these:

- **Accept loop.** `Accept` is weakly fair: the loop is a goroutine blocked
  in the kernel, and a pending connection wakes it. Whether it returns an
  error, and which one, is the kernel's choice and gets no fairness.
- **TCP goroutines.** Each query goroutine's steps are weakly fair: the Go
  scheduler runs runnable goroutines. The exception is `Resolve`, since the
  upstream may never answer. Only `ResolveTimeout`, the context deadline, is
  fair, and it exists only when `Timeout > 0`.
- **TCP writes.** A write that can proceed does. It can proceed only while the
  client reads, or fails once either side closed. `FairSpec` gives the client
  no fairness, so a client may stop reading for ever (`tcp_write_stall`).
  `ReadingSpec` adds `ReadingClients`, weak fairness on `ClientResume`: a
  client that stopped reading reads again. It is an assumption about the
  client that the server does not enforce. `Proxy`'s `FairSpec` includes it,
  so that the starvation run isolates idle readers.
- **TCP reader.** `ReadFail` (once the client has closed) and `Close` are
  weakly fair. `Acquire` is strongly fair: Go queues blocked channel senders,
  so a sender enabled infinitely often gets a token.
- **UDP.** `UdpServer` makes the loop's acquire strongly fair for the same
  reason.
- **DoH.** The write deadline and the caller's context are timers, so they
  are weakly fair.

The clients, the upstream and the DoH peer get no fairness. A TCP client may
stay idle for ever, and a peer may stall or never answer.

## 6. Not modelled, and why

- Logging and the contents of `QueryInfo`. The cleanup puts `buf` back
  before `logQuery` reads `q`, which matters only if `Query` aliases `buf`.
- A panic in `query.New`. It runs before the recover is registered, so it
  would end the process. The `query` package is not in the repository, so
  whether it can panic is unknown. Both are listed as hazards without a
  property.
- DNS message contents. Queries are abstracted to frame sizes.
- The number of connections: they are the constant `Conns`, already in the
  backlog. What the caller does when `serveTCP` returns is not in the
  repository.
- The UDP buffers, and the parallel dial race inside one `DialContext` step.
- DNS53's socket and datagram bytes.
- TLS settings: `ServerName`, the root CAs, the session cache and the
  curves. They are data checked by the TLS library, with no state of the
  transport.
- The ctl IPC and ARP/NDP, which are out of scope in the spec.
- The test helpers, scripts and documents.

- **Discovery.** Only its tests are in the repository. Spec 1 calls it the
  same correlation loop as DNS53, without a cache, and a PTR call of `Dns53`
  is that loop. The neighbour-table side is not modelled.
- **EndpointManager.** Its code is not in the repository. Spec 4.4 leaves
  three things open: how many failed probes exclude an endpoint, the probe
  period, and when selection reads the health table. A module would therefore
  be invented rather than translated.
- **Service lifecycle.** Only `run_test.go` is present. The tests pin `stop`
  from its callers' side (false without a `stopFunc`, true once, waits for
  `stopped`). They do not pin the order of its lock, cancel and wait, which is
  what a model would check.

With these, every line of the three implementation files is mapped except
imports, closing braces and the connect tracer. What remains unmodelled has
no source in the repository, or its source leaves open what a model would
check.
