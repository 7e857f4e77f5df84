-------------------------------- MODULE Proxy --------------------------------
(***************************************************************************)
(* The proxy's two listeners side by side: the TCP listener of            *)
(* src/proxy/tcp.go and the UDP listener of spec.md 4.2 share the          *)
(* admission channel inflightRequests, spec.md's only cross-transport     *)
(* backpressure.  Every step is a step of one listener; the other's state *)
(* stays as it is, except the shared token count.                          *)
(***************************************************************************)
EXTENDS Naturals

CONSTANTS Conns, MaxQueries, Capacity, Buffers, NoBuffer, FrameSizes,
          ResolveSizes, ServfailSize, Timeout, MaxStalls, MaxDatagrams

VARIABLES
    lpc, inflight, rpc, qn, buf, rerr, wg, tpc, qbuf, rbuf, rsize, wire,
    peerClosed, reading, pooled, allocated,
    upc, arrived, nread, utask

Tcp == INSTANCE TcpServer
Udp == INSTANCE UdpServer

tcpVars == <<lpc, rpc, qn, buf, rerr, wg, tpc, qbuf, rbuf, rsize, wire,
             peerClosed, reading, pooled, allocated>>
udpVars == <<upc, arrived, nread, utask>>
vars == <<inflight, tcpVars, udpVars>>

Init == Tcp!Init /\ Udp!UdpInit

Next ==
    \/ Tcp!Next /\ UNCHANGED udpVars
    \/ Udp!UdpNext /\ UNCHANGED tcpVars

Spec == Init /\ [][Next]_vars

(* The TCP clients that stop reading read again (TcpServer's             *)
(* ReadingClients), so that a token is held only by a reader waiting for *)
(* a frame, never by a write to a client that does not read.              *)
FairSpec == Spec /\ Tcp!Fairness /\ Tcp!ReadingClients /\ Udp!UdpFairness

-----------------------------------------------------------------------------
TypeOK == Tcp!TypeOK /\ Udp!UdpTypeOK

(* TcpServer's JoinBeforeClose: no connection's socket is closed while   *)
(* one of its query goroutines can still write to it.                    *)
JoinBeforeClose == Tcp!JoinBeforeClose

(* TcpServer's FrameLengthMatches: every length prefix on the wire        *)
(* equals the body it announces, oversized resolve results included.     *)
FrameLengthMatches == Tcp!FrameLengthMatches

(* TcpServer's BuffersWithinAdmission: the TCP side holds at most two    *)
(* buffers per token taken, however many readers wait on the channel.    *)
BuffersWithinAdmission == Tcp!BuffersWithinAdmission

(* TcpServer's ExclusiveBuffers over connections that race each other   *)
(* and the UDP loop for tokens: no buffer has two owners, and none is     *)
(* pooled while a goroutine of any connection still holds it.             *)
ExclusiveBuffers == Tcp!ExclusiveBuffers

(* The channel implements the abstract semaphore across both transports:  *)
(* the i-th UDP admission is held by the read loop while it waits for a   *)
(* datagram, then by its task until the reply, and every TCP and UDP     *)
(* admission is released exactly once.                                    *)
UdpHolders ==
    (IF upc = "read" THEN {<<"udp", nread + 1>>} ELSE {})
        \cup {<<"udp", i>> : i \in {j \in Udp!Datagrams : utask[j] \in {"resolve", "write"}}}
UdpReleased ==
    {<<"udp", i>> : i \in {j \in Udp!Datagrams : utask[j] = "done"}}
Adm == INSTANCE Admission
         WITH Units <- (Conns \X (1..MaxQueries + 1)) \cup ({"udp"} \X (1..MaxDatagrams + 1)),
              tokens <- inflight,
              holders <- Tcp!AdmissionHolders \cup UdpHolders,
              released <- Tcp!AdmissionReleased \cup UdpReleased
SharedAdmissionRefinement == Adm!Spec

(* spec.md 4.2 and 5: a UDP query is held back only by the global         *)
(* admission limit, which in-flight queries hold and give back: every     *)
(* datagram that reaches the socket is eventually answered.  The TCP      *)
(* reader takes its token before readTCP (tcp.go:51) and waits without a  *)
(* deadline, so idle TCP clients can hold every token.                     *)
UdpAnswered ==
    \A i \in Udp!Datagrams : arrived >= i ~> utask[i] = "done"
=============================================================================
