---------------------------- MODULE MCDohTransport ----------------------------
(* Model-checking instance of DohTransport: two RoundTrips sharing one    *)
(* HTTP/2 connection, so that a write blocked on a stalled peer makes the *)
(* other wait for the write mutex; two bootstrap IPs to race; two         *)
(* connections, so that a request after a closed connection dials again. *)
EXTENDS DohTransport

CONSTANTS r1, r2, ip1, ip2

MCReqs == {r1, r2}
MCBootstrap == {ip1, ip2}
=============================================================================
