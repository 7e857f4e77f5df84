------------------------------ MODULE UdpServer ------------------------------
(***************************************************************************)
(* The UDP listener of spec.md 4.2 (its source, proxy/udp.go, is not in    *)
(* the repository).  One read loop takes an admission token from the      *)
(* channel it shares with the TCP listener, reads one datagram and hands  *)
(* the token to a query task; the task resolves, writes its answer (the   *)
(* query's own or a SERVFAIL) and gives the token back.  Datagrams are    *)
(* numbered in arrival order; their contents and buffers are left out.    *)
(***************************************************************************)
EXTENDS Naturals

CONSTANTS
    Capacity,       \* cap(inflightRequests)
    MaxDatagrams,   \* bound: datagrams clients send
    Timeout         \* p.Timeout (0: no deadline)

ASSUME MaxDatagrams \in Nat \ {0}

Datagrams == 1..MaxDatagrams

VARIABLES
    inflight,   \* len(inflightRequests), shared with the TCP listener
    upc,        \* where the UDP read loop is
    arrived,    \* datagrams that reached the socket
    nread,      \* datagrams the loop has read
    utask       \* utask[i]: where the task of datagram i is

udpVars == <<upc, arrived, nread, utask>>

UdpInit ==
    /\ upc = "acquire"
    /\ arrived = 0
    /\ nread = 0
    /\ utask = [i \in Datagrams |-> "none"]

(* inflightRequests <- struct{}{}: blocks while the channel is full.      *)
UdpAcquire ==
    /\ upc = "acquire"
    /\ inflight < Capacity
    /\ inflight' = inflight + 1
    /\ upc' = "read"
    /\ UNCHANGED <<arrived, nread, utask>>

(* A client sends a datagram.                                              *)
Arrive ==
    /\ arrived < MaxDatagrams
    /\ arrived' = arrived + 1
    /\ UNCHANGED <<inflight, upc, nread, utask>>

(* The loop reads the next datagram and starts its task, which inherits   *)
(* the token.                                                              *)
UdpRead ==
    /\ upc = "read"
    /\ nread < arrived
    /\ nread' = nread + 1
    /\ utask' = [utask EXCEPT ![nread + 1] = "resolve"]
    /\ upc' = "acquire"
    /\ UNCHANGED <<inflight, arrived>>

(* Resolve returns (an error or an oversized answer becomes a SERVFAIL).  *)
UdpResolve(i) ==
    /\ utask[i] = "resolve"
    /\ utask' = [utask EXCEPT ![i] = "write"]
    /\ UNCHANGED <<inflight, upc, arrived, nread>>

(* The answer is written to the client's address; the buffers and the    *)
(* token are released.                                                     *)
UdpReply(i) ==
    /\ utask[i] = "write"
    /\ utask' = [utask EXCEPT ![i] = "done"]
    /\ inflight' = inflight - 1
    /\ UNCHANGED <<upc, arrived, nread>>

UdpNext ==
    \/ UdpAcquire \/ Arrive \/ UdpRead
    \/ \E i \in Datagrams : UdpResolve(i) \/ UdpReply(i)

(* The loop and the tasks are scheduled.  The loop's send on the channel  *)
(* is enabled only while a token is free; Go queues blocked senders, so a *)
(* sender that is enabled infinitely often gets a token (strong fairness).*)
(* Resolve returns by the deadline of its context when p.Timeout > 0.      *)
UdpFairness ==
    /\ SF_<<inflight, udpVars>>(UdpAcquire)
    /\ WF_<<inflight, udpVars>>(UdpRead)
    /\ \A i \in Datagrams :
          /\ WF_<<inflight, udpVars>>(Timeout > 0 /\ UdpResolve(i))
          /\ WF_<<inflight, udpVars>>(UdpReply(i))

UdpTypeOK ==
    /\ upc \in {"acquire", "read"}
    /\ arrived \in 0..MaxDatagrams
    /\ nread \in 0..arrived
    /\ utask \in [Datagrams -> {"none", "resolve", "write", "done"}]
=============================================================================
