------------------------------ MODULE TcpServer ------------------------------
(***************************************************************************)
(* The TCP listener of src/proxy/tcp.go: the serveTCP accept loop, one     *)
(* serveTCPConn loop per accepted connection and one goroutine per query   *)
(* it reads, all sharing the admission channel inflightRequests and one    *)
(* TieredBufferPool.                                                       *)
(*                                                                         *)
(* Connections are the constant set Conns, each waiting in the listen      *)
(* backlog until Accept returns it; the k-th query goroutine of            *)
(* connection c is the task <<c, k>>.  Each goroutine step below is one    *)
(* atomic step of the code between two points where another goroutine or  *)
(* the client can act: a channel operation, a socket read or write, or a   *)
(* pool operation.  Resolve is the upstream resolver (a collaborator): it  *)
(* returns a size and an error, or panics.  Query bytes are abstracted to  *)
(* their frame size; a response on the wire to <<kind, k, value>>.        *)
(***************************************************************************)
EXTENDS Naturals, Sequences, FiniteSets, Bags

CONSTANTS
    Conns,          \* connections clients open
    MaxQueries,     \* bound: queries a client sends on one connection
    Capacity,       \* cap(inflightRequests)
    Buffers,        \* identities of pooled byte slices
    NoBuffer,       \* no buffer held
    FrameSizes,     \* length prefixes a client may send
    ResolveSizes,   \* sizes p.Resolve may return (bounded by len(rbuf))
    ServfailSize,   \* size of the SERVFAIL reply replyRCode writes
    Timeout,        \* p.Timeout (0: no deadline)
    MaxStalls       \* bound: 1 if clients may stop reading (once), else 0

ASSUME /\ MaxQueries \in Nat \ {0}
       /\ Capacity \in Nat \ {0}
       /\ FrameSizes \subseteq 0..65535
       /\ ResolveSizes \subseteq 0..65536
       /\ ServfailSize \in 1..65535
       /\ Timeout \in Nat
       /\ MaxStalls \in 0..1

maxTCPSize == 65535

Tasks == Conns \X (1..MaxQueries)

VARIABLES
    lpc,        \* where serveTCP is: "accept", or the error it returned
    inflight,   \* len(inflightRequests): admission tokens taken
    rpc,        \* rpc[c]: where serveTCPConn(c) is
    qn,         \* qn[c]: query goroutines serveTCPConn(c) has started
    buf,        \* buf[c]: the buffer serveTCPConn(c) reads the next frame into
    rerr,       \* rerr[c]: what serveTCPConn(c) returned
    wg,         \* wg[c]: the WaitGroup counter of connection c
    tpc,        \* tpc[t]: where query goroutine t is
    qbuf,       \* qbuf[t]: the query buffer goroutine t captured
    rbuf,       \* rbuf[t]: its response buffer
    rsize,      \* rsize[t]: size of the response it writes
    wire,       \* wire[c]: writes that reached the socket, in order
    peerClosed, \* peerClosed[c]: the client closed its end
    reading,    \* reading[c]: "yes", "stopped" (the client stopped reading
                \* its socket), "again" (bound: it stops at most once)
    pooled, allocated

Pool == INSTANCE TieredBufferPool WITH Cap <- [b \in Buffers |-> 65536]

vars == <<lpc, inflight, rpc, qn, buf, rerr, wg, tpc, qbuf, rbuf, rsize, wire,
          peerClosed, reading, pooled, allocated>>

(* Values serveTCPConn returns: nil after io.EOF, a read error, or the    *)
(* "query too small: %d" error, which carries the frame size.             *)
Pending == <<"pending", 0>>
Results == ({"pending", "nil", "readErr"} \X {0}) \cup ({"tooSmall"} \X FrameSizes)

(* Errors l.Accept() returns: a net.Error timeout, or any other error.    *)
AcceptErrors == {"timeout", "other"}

Live == {"parse", "resolve", "writeLen", "writeBody", "cleanup"}

(* Every buffer some goroutine holds a reference to.                      *)
Held == {buf[c] : c \in Conns} \cup {qbuf[t] : t \in Tasks}
                               \cup {rbuf[t] : t \in Tasks}

-----------------------------------------------------------------------------
(* Actions of serveTCP.  Accept returns a connection or an error once one *)
(* is pending; a non-timeout error with nothing pending is the listener    *)
(* being closed, which ends the service anyway.                            *)

(* l.Accept() returns connection c: go p.serveTCPConn(c, ...), and loop.  *)
Accept(c) ==
    /\ lpc = "accept"
    /\ rpc[c] = "backlog"
    /\ rpc' = [rpc EXCEPT ![c] = "acquire"]
    /\ UNCHANGED <<lpc, inflight, qn, buf, rerr, wg, tpc, qbuf, rbuf, rsize,
                   wire, peerClosed, reading, pooled, allocated>>

(* l.Accept() fails with e: a net.Error whose Timeout() is true is        *)
(* retried (continue); any other error, a transient EMFILE included, ends *)
(* serveTCP, which returns it.  Accepted connections are not affected.    *)
AcceptError(e) ==
    /\ lpc = "accept"
    /\ \E c \in Conns : rpc[c] = "backlog"
    /\ lpc' = IF e = "timeout" THEN "accept" ELSE e
    /\ UNCHANGED <<inflight, rpc, qn, buf, rerr, wg, tpc, qbuf, rbuf, rsize,
                   wire, peerClosed, reading, pooled, allocated>>

-----------------------------------------------------------------------------
(* Actions of serveTCPConn(c).                                            *)

(* Variant of Acquire that takes the buffer before the token: the reader *)
(* holds buf while it blocks on the full channel.                          *)
AcquireBufferFirst(c) ==
    /\ rpc[c] = "acquire"
    /\ \/ /\ buf[c] = NoBuffer
          /\ \E b \in Buffers : Pool!GetLarge(b) /\ buf' = [buf EXCEPT ![c] = b]
          /\ UNCHANGED <<lpc, inflight, rpc>>
       \/ /\ buf[c] # NoBuffer
          /\ inflight < Capacity
          /\ inflight' = inflight + 1
          /\ rpc' = [rpc EXCEPT ![c] = "read"]
          /\ UNCHANGED <<lpc, buf, pooled, allocated>>
    /\ UNCHANGED <<lpc, qn, rerr, wg, tpc, qbuf, rbuf, rsize, wire, peerClosed, reading>>

(* inflightRequests <- struct{}{} blocks while the channel is full; then  *)
(* buf := *bpool.GetLarge().                                              *)
Acquire(c) ==
    /\ rpc[c] = "acquire"
    /\ inflight < Capacity
    /\ inflight' = inflight + 1
    /\ \E b \in Buffers : Pool!GetLarge(b) /\ buf' = [buf EXCEPT ![c] = b]
    /\ rpc' = [rpc EXCEPT ![c] = "read"]
    /\ UNCHANGED <<lpc, qn, rerr, wg, tpc, qbuf, rbuf, rsize, wire, peerClosed, reading>>

(* readTCP fails: io.EOF at a frame boundary or a truncated frame after   *)
(* the client closed.  The buffer goes back, the token is released and   *)
(* the loop returns (nil for EOF); the deferred wg.Wait then runs.        *)
ReadFail(c, e) ==
    /\ rpc[c] = "read"
    /\ peerClosed[c]
    /\ Pool!Put(buf[c])
    /\ inflight' = inflight - 1
    /\ rerr' = [rerr EXCEPT ![c] = <<e, 0>>]
    /\ buf' = [buf EXCEPT ![c] = NoBuffer]
    /\ rpc' = [rpc EXCEPT ![c] = "wait"]
    /\ UNCHANGED <<lpc, qn, wg, tpc, qbuf, rbuf, rsize, wire, peerClosed, reading>>

(* Variant of RejectFrame that forgets <-inflightRequests.                *)
RejectFrameKeepsToken(c, s) ==
    /\ Pool!Put(buf[c])
    /\ rerr' = [rerr EXCEPT ![c] = <<"tooSmall", s>>]
    /\ rpc' = [rpc EXCEPT ![c] = "wait"]
    /\ UNCHANGED <<inflight, qn, wg, tpc, qbuf>>

(* qsize <= 14: buf goes back, the token is released and the loop returns *)
(* "query too small", ending the connection as a read error does.        *)
RejectFrame(c, s) ==
    /\ Pool!Put(buf[c])
    /\ inflight' = inflight - 1
    /\ rerr' = [rerr EXCEPT ![c] = <<"tooSmall", s>>]
    /\ rpc' = [rpc EXCEPT ![c] = "wait"]
    /\ UNCHANGED <<qn, wg, tpc, qbuf>>

(* wg.Add(1) and go func(): the goroutine captures buf and inherits the   *)
(* token; the loop goes back to acquire the next one.                    *)
StartQuery(c) ==
    LET t == <<c, qn[c] + 1>> IN
    /\ wg' = [wg EXCEPT ![c] = @ + 1]
    /\ qn' = [qn EXCEPT ![c] = @ + 1]
    /\ tpc' = [tpc EXCEPT ![t] = "parse"]
    /\ qbuf' = [qbuf EXCEPT ![t] = buf[c]]
    /\ rpc' = [rpc EXCEPT ![c] = "acquire"]
    /\ UNCHANGED <<inflight, rerr, pooled, allocated>>

(* readTCP returns a frame of size s from a client that has not closed   *)
(* (and, by the bound, has a query left to send).                        *)
ReadFrame(c, s) ==
    /\ rpc[c] = "read"
    /\ ~peerClosed[c]
    /\ qn[c] < MaxQueries
    /\ IF s <= 14 THEN RejectFrame(c, s) ELSE StartQuery(c)
    /\ buf' = [buf EXCEPT ![c] = NoBuffer]
    /\ UNCHANGED <<lpc, rbuf, rsize, wire, peerClosed, reading>>

(* Variant of Close without the wg.Wait(): a plain defer c.Close().       *)
CloseWithoutWait(c) ==
    /\ rpc[c] = "wait"
    /\ rpc' = [rpc EXCEPT ![c] = "closed"]
    /\ UNCHANGED <<lpc, inflight, qn, buf, rerr, wg, tpc, qbuf, rbuf, rsize, wire,
                   peerClosed, reading, pooled, allocated>>

(* The deferred wg.Wait(); c.Close().                                     *)
Close(c) ==
    /\ rpc[c] = "wait"
    /\ wg[c] = 0
    /\ rpc' = [rpc EXCEPT ![c] = "closed"]
    /\ UNCHANGED <<lpc, inflight, qn, buf, rerr, wg, tpc, qbuf, rbuf, rsize, wire,
                   peerClosed, reading, pooled, allocated>>

-----------------------------------------------------------------------------
(* Actions of query goroutine t = <<c, k>>.                               *)

(* Variant of Parse that returns when query.New fails: only the deferred  *)
(* wg.Done() is registered yet, so buf and the token are never given back.*)
ParseReturnsOnError(t) ==
    \/ /\ tpc[t] = "parse"
       /\ \E b \in Buffers : Pool!GetLarge(b) /\ rbuf' = [rbuf EXCEPT ![t] = b]
       /\ tpc' = [tpc EXCEPT ![t] = "resolve"]
       /\ UNCHANGED <<lpc, inflight, rpc, qn, buf, rerr, wg, qbuf, rsize, wire,
                      peerClosed, reading>>
    \/ /\ tpc[t] = "parse"
       /\ tpc' = [tpc EXCEPT ![t] = "done"]
       /\ wg' = [wg EXCEPT ![t[1]] = @ - 1]
       /\ qbuf' = [qbuf EXCEPT ![t] = NoBuffer]
       /\ UNCHANGED <<lpc, inflight, rpc, qn, buf, rerr, rbuf, rsize, wire,
                      peerClosed, reading, pooled, allocated>>

(* query.New and rbuf := *bpool.GetLarge().  A parse error is only logged *)
(* (p.logErr): the goroutine goes on with the zero Query, so both outcomes *)
(* of query.New take this same step.                                      *)
Parse(t) ==
    /\ tpc[t] = "parse"
    /\ \E b \in Buffers : Pool!GetLarge(b) /\ rbuf' = [rbuf EXCEPT ![t] = b]
    /\ tpc' = [tpc EXCEPT ![t] = "resolve"]
    /\ UNCHANGED <<lpc, inflight, rpc, qn, buf, rerr, wg, qbuf, rsize, wire,
                   peerClosed, reading>>

(* Variant of ResponseSize that bounds the size by len(rbuf), 65536.      *)
ResponseSizeOffByOne(n, ok) ==
    IF ~ok \/ n <= 0 \/ n > maxTCPSize + 1 THEN ServfailSize ELSE n

(* What the goroutine writes after p.Resolve returned n and err: the      *)
(* response, or a SERVFAIL when resolution failed or its size is out of   *)
(* range for a TCP frame.                                                 *)
ResponseSize(n, ok) ==
    IF ~ok \/ n <= 0 \/ n > maxTCPSize THEN ServfailSize ELSE n

(* p.Resolve returns (a context timeout is one of its errors).            *)
Resolve(t, n, ok) ==
    /\ tpc[t] = "resolve"
    /\ rsize' = [rsize EXCEPT ![t] = ResponseSize(n, ok)]
    /\ tpc' = [tpc EXCEPT ![t] = "writeLen"]
    /\ UNCHANGED <<lpc, inflight, rpc, qn, buf, rerr, wg, qbuf, rbuf, wire,
                   peerClosed, reading, pooled, allocated>>

(* p.Timeout > 0: the context of p.Resolve has a deadline, and once it    *)
(* passes Resolve returns the context's error.  With p.Timeout <= 0 the   *)
(* context is context.Background() and only the upstream ends Resolve.    *)
ResolveTimeout(t) ==
    /\ Timeout > 0
    /\ Resolve(t, 0, FALSE)

(* p.Resolve panics: the deferred recover turns the panic into err and    *)
(* the cleanup runs; writeTCP is never reached.                           *)
ResolvePanic(t) ==
    /\ tpc[t] = "resolve"
    /\ tpc' = [tpc EXCEPT ![t] = "cleanup"]
    /\ UNCHANGED <<lpc, inflight, rpc, qn, buf, rerr, wg, qbuf, rbuf, rsize, wire,
                   peerClosed, reading, pooled, allocated>>

(* A socket write: reaches the wire while the socket is open and the     *)
(* client reads; fails when the server closed it or, possibly, when the  *)
(* client did.  Neither writeTCP nor serveTCPConn sets a write deadline,   *)
(* so to a client that stopped reading it blocks until one of these.    *)
WriteOK(c) == rpc[c] # "closed" /\ reading[c] # "stopped"
WriteFails(c) == rpc[c] = "closed" \/ peerClosed[c]

(* Variant of WriteLen that waits for a connection lock the reader holds  *)
(* across readTCP, as serialising the writes with the reads would.       *)
WriteLenUnderReadLock(t) ==
    /\ tpc[t] = "writeLen"
    /\ rpc[t[1]] # "read"
    /\ \/ /\ WriteOK(t[1])
          /\ wire' = [wire EXCEPT ![t[1]] =
                        Append(@, <<"len", t[2], rsize[t] % 65536>>)]
          /\ tpc' = [tpc EXCEPT ![t] = "writeBody"]
       \/ /\ WriteFails(t[1])
          /\ tpc' = [tpc EXCEPT ![t] = "cleanup"]
          /\ UNCHANGED wire
    /\ UNCHANGED <<lpc, inflight, rpc, qn, buf, rerr, wg, qbuf, rbuf, rsize,
                   peerClosed, reading, pooled, allocated>>

(* writeTCP: binary.Write of the uint16 length prefix.  On error the     *)
(* body is not written.                                                  *)
WriteLen(t) ==
    /\ tpc[t] = "writeLen"
    /\ \/ /\ WriteOK(t[1])
          /\ wire' = [wire EXCEPT ![t[1]] =
                        Append(@, <<"len", t[2], rsize[t] % 65536>>)]
          /\ tpc' = [tpc EXCEPT ![t] = "writeBody"]
       \/ /\ WriteFails(t[1])
          /\ tpc' = [tpc EXCEPT ![t] = "cleanup"]
          /\ UNCHANGED wire
    /\ UNCHANGED <<lpc, inflight, rpc, qn, buf, rerr, wg, qbuf, rbuf, rsize,
                   peerClosed, reading, pooled, allocated>>

(* writeTCP: c.Write of rbuf[:rsize].                                     *)
WriteBody(t) ==
    /\ tpc[t] = "writeBody"
    /\ \/ /\ WriteOK(t[1])
          /\ wire' = [wire EXCEPT ![t[1]] = Append(@, <<"body", t[2], rsize[t]>>)]
       \/ /\ WriteFails(t[1])
          /\ UNCHANGED wire
    /\ tpc' = [tpc EXCEPT ![t] = "cleanup"]
    /\ UNCHANGED <<lpc, inflight, rpc, qn, buf, rerr, wg, qbuf, rbuf, rsize,
                   peerClosed, reading, pooled, allocated>>

(* Variant of Cleanup with wg.Done() called twice.                        *)
CleanupDoneTwice(t) ==
    /\ tpc[t] = "cleanup"
    /\ Pool!PutBoth(qbuf[t], rbuf[t])
    /\ inflight' = inflight - 1
    /\ wg' = [wg EXCEPT ![t[1]] = @ - 2]
    /\ tpc' = [tpc EXCEPT ![t] = "done"]
    /\ qbuf' = [qbuf EXCEPT ![t] = NoBuffer]
    /\ rbuf' = [rbuf EXCEPT ![t] = NoBuffer]
    /\ rsize' = [rsize EXCEPT ![t] = 0]
    /\ UNCHANGED <<lpc, rpc, qn, buf, rerr, wire, peerClosed, reading>>

(* Variant of Cleanup that puts buf twice and never rbuf.                 *)
CleanupPutsBufTwice(t) ==
    /\ tpc[t] = "cleanup"
    /\ Pool!PutBoth(qbuf[t], qbuf[t])
    /\ inflight' = inflight - 1
    /\ wg' = [wg EXCEPT ![t[1]] = @ - 1]
    /\ tpc' = [tpc EXCEPT ![t] = "done"]
    /\ qbuf' = [qbuf EXCEPT ![t] = NoBuffer]
    /\ rbuf' = [rbuf EXCEPT ![t] = NoBuffer]
    /\ rsize' = [rsize EXCEPT ![t] = 0]
    /\ UNCHANGED <<lpc, rpc, qn, buf, rerr, wire, peerClosed, reading>>

(* The deferred cleanup, then the deferred wg.Done(): both buffers go     *)
(* back to the pool and the token is released.                           *)
Cleanup(t) ==
    /\ tpc[t] = "cleanup"
    /\ Pool!PutBoth(qbuf[t], rbuf[t])
    /\ inflight' = inflight - 1
    /\ wg' = [wg EXCEPT ![t[1]] = @ - 1]
    /\ tpc' = [tpc EXCEPT ![t] = "done"]
    /\ qbuf' = [qbuf EXCEPT ![t] = NoBuffer]
    /\ rbuf' = [rbuf EXCEPT ![t] = NoBuffer]
    /\ rsize' = [rsize EXCEPT ![t] = 0]
    /\ UNCHANGED <<lpc, rpc, qn, buf, rerr, wire, peerClosed, reading>>

-----------------------------------------------------------------------------
(* The environment: the client and the garbage collector.                 *)

ClientClose(c) ==
    /\ ~peerClosed[c]
    /\ peerClosed' = [peerClosed EXCEPT ![c] = TRUE]
    /\ UNCHANGED <<lpc, inflight, rpc, qn, buf, rerr, wg, tpc, qbuf, rbuf, rsize,
                   wire, reading, pooled, allocated>>

(* The client stops reading its socket (its receive window fills) while  *)
(* keeping the connection open, and later may read again.                *)
ClientStall(c) ==
    /\ MaxStalls > 0
    /\ reading[c] = "yes"
    /\ reading' = [reading EXCEPT ![c] = "stopped"]
    /\ UNCHANGED <<lpc, inflight, rpc, qn, buf, rerr, wg, tpc, qbuf, rbuf, rsize,
                   wire, peerClosed, pooled, allocated>>

ClientResume(c) ==
    /\ reading[c] = "stopped"
    /\ reading' = [reading EXCEPT ![c] = "again"]
    /\ UNCHANGED <<lpc, inflight, rpc, qn, buf, rerr, wg, tpc, qbuf, rbuf, rsize,
                   wire, peerClosed, pooled, allocated>>

(* A GC drops a pooled buffer; an unreferenced one may be made again.    *)
Collect(b) ==
    /\ Pool!Evict(65536, b, b \notin Held)
    /\ UNCHANGED <<lpc, inflight, rpc, qn, buf, rerr, wg, tpc, qbuf, rbuf, rsize,
                   wire, peerClosed, reading>>

(* Every accepted connection is closed, and the listener waits in Accept *)
(* or has returned, leaving the rest in the backlog.                      *)
Served ==
    /\ \A c \in Conns : rpc[c] = "closed" \/ (rpc[c] = "backlog" /\ lpc # "accept")
    /\ UNCHANGED vars

-----------------------------------------------------------------------------
Init ==
    /\ lpc = "accept"
    /\ inflight = 0
    /\ rpc = [c \in Conns |-> "backlog"]
    /\ qn = [c \in Conns |-> 0]
    /\ buf = [c \in Conns |-> NoBuffer]
    /\ rerr = [c \in Conns |-> Pending]
    /\ wg = [c \in Conns |-> 0]
    /\ tpc = [t \in Tasks |-> "none"]
    /\ qbuf = [t \in Tasks |-> NoBuffer]
    /\ rbuf = [t \in Tasks |-> NoBuffer]
    /\ rsize = [t \in Tasks |-> 0]
    /\ wire = [c \in Conns |-> <<>>]
    /\ peerClosed = [c \in Conns |-> FALSE]
    /\ reading = [c \in Conns |-> "yes"]
    /\ Pool!PoolInit

Reader(c) ==
    \/ Acquire(c)
    \/ \E e \in {"nil", "readErr"} : ReadFail(c, e)
    \/ \E s \in FrameSizes : ReadFrame(c, s)
    \/ Close(c)

Query(t) ==
    \/ Parse(t)
    \/ \E n \in ResolveSizes, ok \in BOOLEAN : Resolve(t, n, ok)
    \/ ResolvePanic(t)
    \/ WriteLen(t)
    \/ WriteBody(t)
    \/ Cleanup(t)

Listener ==
    \/ \E c \in Conns : Accept(c)
    \/ \E e \in AcceptErrors : AcceptError(e)

Next ==
    \/ Listener
    \/ \E c \in Conns : Reader(c) \/ ClientClose(c)
                       \/ ClientStall(c) \/ ClientResume(c)
    \/ \E t \in Tasks : Query(t)
    \/ \E b \in Buffers : Collect(b)
    \/ Served

(* Accept returns while a connection is pending (the accept loop is a     *)
(* goroutine blocked in the kernel, woken by it); which error, if any, it  *)
(* returns is the kernel's choice and is not fair.                         *)
(* Goroutines that can run are eventually scheduled; a reader blocked on  *)
(* the channel is served in turn once tokens come back (Go queues blocked *)
(* senders), and a read fails once the client has closed.  A write that  *)
(* can proceed does.  The upstream is not fair: it may never answer, and  *)
(* Resolve then returns only at the deadline of its context.  The client  *)
(* is not fair either: it may keep an idle connection open, or stop       *)
(* reading, forever.                                                      *)
Fairness ==
    /\ WF_vars(\E c \in Conns : Accept(c))
    /\ \A t \in Tasks : /\ WF_vars(Parse(t)) /\ WF_vars(ResolveTimeout(t))
                       /\ WF_vars(WriteLen(t)) /\ WF_vars(WriteBody(t))
                       /\ WF_vars(Cleanup(t))
    /\ \A c \in Conns : /\ SF_vars(Acquire(c))
                       /\ WF_vars(\E e \in {"nil", "readErr"} : ReadFail(c, e))
                       /\ WF_vars(Close(c))

Spec == Init /\ [][Next]_vars

FairSpec == Spec /\ Fairness

(* The assumption under which the liveness runs hold: a client that       *)
(* stopped reading reads again (nothing in the server enforces it).       *)
ReadingClients == \A c \in Conns : WF_vars(ClientResume(c))

ReadingSpec == FairSpec /\ ReadingClients

-----------------------------------------------------------------------------
(* Properties.                                                             *)

TypeOK ==
    /\ lpc \in {"accept"} \cup (AcceptErrors \ {"timeout"})
    /\ inflight \in 0..Capacity
    /\ rpc \in [Conns -> {"backlog", "acquire", "read", "wait", "closed"}]
    /\ qn \in [Conns -> 0..MaxQueries]
    /\ buf \in [Conns -> Buffers \cup {NoBuffer}]
    /\ rerr \in [Conns -> Results]
    /\ wg \in [Conns -> 0..MaxQueries]
    /\ tpc \in [Tasks -> {"none", "done"} \cup Live]
    /\ qbuf \in [Tasks -> Buffers \cup {NoBuffer}]
    /\ rbuf \in [Tasks -> Buffers \cup {NoBuffer}]
    /\ rsize \in [Tasks -> 0..65536]
    /\ \A c \in Conns : wire[c] \in Seq({"len", "body"} \X (1..MaxQueries) \X (0..65536))
    /\ peerClosed \in [Conns -> BOOLEAN]
    /\ reading \in [Conns -> {"yes", "stopped", "again"}]
    /\ Pool!PoolTypeOK

(* A buffer is owned by one goroutine at a time and is never in the pool  *)
(* while a goroutine still holds it: the reader hands buf to the query    *)
(* goroutine and must not put it back, and the goroutine puts each of its *)
(* two buffers back once.  Otherwise a later GetLarge hands the same      *)
(* slice to a second reader while the first goroutine still parses it.    *)
ExclusiveBuffers ==
    LET holds(b) == {c \in Conns : buf[c] = b}
                    \cup {t \in Tasks : qbuf[t] = b}
                    \cup {<<t, "r">> : t \in {u \in Tasks : rbuf[u] = b}}
    IN \A b \in Buffers :
         /\ Cardinality(holds(b)) <= 1
         /\ holds(b) # {} => ~BagIn(b, pooled[65536])
         /\ CopiesIn(b, pooled[65536]) <= 1

(* The memory the TCP listener holds is bounded by admission: a 64 KiB   *)
(* buffer is taken only after a token (buf after the channel send, rbuf  *)
(* in the goroutine that inherited it), so no more than two buffers are  *)
(* held per token taken, however many connections wait on the channel.  *)
BuffersWithinAdmission ==
    Cardinality(Held \ {NoBuffer}) <= 2 * inflight

(* Join before close: serveTCPConn closes the socket only after every     *)
(* query goroutine it started has finished, so no goroutine can still     *)
(* write its response to a closed connection.                             *)
JoinBeforeClose ==
    \A t \in Tasks : rpc[t[1]] = "closed" => tpc[t] \in {"none", "done"}

(* Every response frame on the wire has a length prefix equal to its body *)
(* size: writeTCP writes uint16(len(buf)), so a body of 65536 bytes would *)
(* be announced as 0.  The rsize > maxTCPSize check prevents it.          *)
FrameLengthMatches ==
    \A c \in Conns : \A i, j \in 1..Len(wire[c]) :
        (/\ wire[c][i][1] = "len" /\ wire[c][j][1] = "body"
         /\ wire[c][i][2] = wire[c][j][2]) => wire[c][i][3] = wire[c][j][3]

(* Each response is one contiguous frame on the wire: a length prefix is  *)
(* followed by the body it announces, not by another goroutine's write.  *)
ResponsesContiguous ==
    \A c \in Conns : \A i \in 1..Len(wire[c]) :
        wire[c][i][1] = "len" /\ i < Len(wire[c]) =>
            wire[c][i + 1] = <<"body", wire[c][i][2], wire[c][i + 1][3]>>

(* spec.md 6: the minimum accepted frame is 14 bytes; a connection is    *)
(* only ended as "query too small" by a frame below it.                  *)
MinFrame == 14
MinFrameAccepted ==
    \A c \in Conns : rerr[c][1] = "tooSmall" => rerr[c][2] < MinFrame

(* Holders of the admission channel's tokens, for the refinement of     *)
(* Admission that Proxy checks: the k-th admission of connection c is     *)
(* held by the reader while it reads the frame, then by the goroutine it *)
(* starts, and released on every exit path (read error, short frame,     *)
(* cleanup after a panic).                                               *)
AdmissionHolders ==
    {<<c, qn[c] + 1>> : c \in {d \in Conns : rpc[d] = "read"}}
        \cup {t \in Tasks : tpc[t] \in Live}
AdmissionReleased ==
    {t \in Tasks : tpc[t] = "done"}
        \cup {<<c, qn[c] + 1>> : c \in {d \in Conns : rpc[d] \in {"wait", "closed"}}}

(* Every query goroutine finishes and gives its token back: neither a     *)
(* resolve error nor a panic nor a failed write keeps it alive.          *)
QueryCompletes ==
    \A t \in Tasks : tpc[t] = "parse" ~> tpc[t] = "done"

(* A connection whose client closed, or whose reader stopped on a short  *)
(* frame, is eventually closed: the reader gets a token back from its own *)
(* goroutines even when they hold them all, its read fails, and the join *)
(* on the WaitGroup does not wait forever.  A connection still in the    *)
(* backlog when serveTCP returned is never served.                        *)
ConnCloses ==
    \A c \in Conns :
        (peerClosed[c] \/ rpc[c] = "wait")
            ~> (rpc[c] = "closed" \/ (rpc[c] = "backlog" /\ lpc # "accept"))

(* spec.md 7: only a failed bind is fatal to the process, every other    *)
(* error stays with its connection and heals, so every connection a       *)
(* client opens is eventually handed to serveTCPConn.  serveTCP returns   *)
(* on any Accept error that is not a timeout (tcp.go:30).                  *)
EveryConnAccepted ==
    \A c \in Conns : rpc[c] = "backlog" ~> rpc[c] # "backlog"

(* spec.md 4.2: a query whose resolution fails or panics still gets a    *)
(* SERVFAIL: every query read from an open connection is answered.       *)
Answered(t) == \E i \in 1..Len(wire[t[1]]) : wire[t[1]][i][1] = "body" /\ wire[t[1]][i][2] = t[2]
EveryQueryAnswered ==
    \A t \in Tasks : tpc[t] = "parse" ~> (Answered(t) \/ peerClosed[t[1]])
=============================================================================
