----------------------------- MODULE MCTcpServer -----------------------------
(* Model-checking instances of TcpServer, all of one connection (the     *)
(* liveness runs use no symmetry).                                        *)
(*   Liveness, NoTimeout, Panic, Interleave: two queries that race each   *)
(*   other and the reader (one for WriteStall and MinFrame);              *)
(*   two tokens, so that the reader blocks on a full channel.             *)
(*   Accept: one query, the accept loop's errors.                         *)
(* Connections racing each other for tokens and buffers are checked in    *)
(* MCProxy.  Four buffers: at most Capacity holders exist, each with at   *)
(* most two.                                                               *)
EXTENDS TcpServer, TLC

CONSTANTS c1, c2, b1, b2, b3, b4

OneConn == {c1}
MCBuffers == {b1, b2, b3, b4}

(* A short frame (12), a well-formed query (33).                          *)
MCFrameSizes == {12, 33}

(* Resolve's results: nothing, a response of the largest TCP size, and   *)
(* one a byte larger than a TCP frame can carry (len(rbuf) is 65536).    *)
MCResolveSizes == {0, 65535, 65536}

(* The shortest frame spec.md 6 says the proxy accepts, and a longer one. *)
MinFrameSizes == {14, 33}

BufferSymmetry == Permutations(MCBuffers)
=============================================================================
