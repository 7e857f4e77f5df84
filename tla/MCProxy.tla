------------------------------- MODULE MCProxy -------------------------------
(* Model-checking instances of Proxy: TCP connections beside the UDP     *)
(* read loop.                                                              *)
(*   Shared: two tokens for two TCP connections of one query and two     *)
(*   datagrams, so that connections and the two transports take each      *)
(*   other's tokens (UDP can hold both) and the connections each other's  *)
(*   buffers.  Clients keep reading (MaxStalls = 0): a stalled write only *)
(*   delays a release, which the safety properties do not see.            *)
(*   Starved: one token, so that an idle TCP reader holds all of them.    *)
EXTENDS Proxy, TLC

CONSTANTS c1, c2, b1, b2, b3, b4

OneConn == {c1}
TwoConns == {c1, c2}
MCBuffers == {b1, b2, b3, b4}
MCFrameSizes == {12, 33}
MCResolveSizes == {0, 65536}
BufferSymmetry == Permutations(MCBuffers)
ConnBufferSymmetry == Permutations(TwoConns) \cup Permutations(MCBuffers)
=============================================================================
