----------------------------- MODULE DohTransport -----------------------------
(***************************************************************************)
(* The DoH round tripper of src/resolver/endpoint/transport_h2.go.         *)
(*                                                                         *)
(* newTransportH2 builds an http.Transport whose DialContext ignores the   *)
(* address http asks for, races the endpoint's candidate addresses         *)
(* (endpointAddrs) with a parallelDialer, and wraps every connection it    *)
(* returns in a deadlineConn that gives each Write a 5 s deadline.         *)
(* RoundTrip rewrites the request to the transport's address, hostname   *)
(* and path before handing it to that http.Transport.                      *)
(*                                                                         *)
(* HTTP/2 multiplexes every request of the transport on one connection.   *)
(* Writes to a connection are serialised by its write mutex; a request     *)
(* waiting for that mutex does not observe its context (golang/go#23559). *)
(* The peer may stop reading (a stall) at any time, and then a Write     *)
(* blocks until a deadline ends it.  The parallel dialer and the http2    *)
(* connection pool are library code; they are modelled from spec.md 4.4  *)
(* and the comment at transport_h2.go:39-47.                               *)
(***************************************************************************)
EXTENDS Naturals, FiniteSets

CONSTANTS
    Reqs,       \* RoundTrip calls made on the transport
    Bootstrap,  \* e.Bootstrap: the endpoint's bootstrap IPs (may be empty)
    Hostname,   \* e.Hostname
    TAddr,      \* t.addr: the address RoundTrip puts in the URL
    TPath,      \* t.path, or NoPath for ""
    NoPath,     \* the empty path
    CallerPath, \* the path of the request the caller built
    MaxConns,   \* bound: connections the transport dials
    None        \* no request, no connection

ASSUME MaxConns \in Nat \ {0}

ConnIds == 1..MaxConns

VARIABLES
    pc,         \* pc[r]: where RoundTrip r is
    sent,       \* sent[r]: the request r after RoundTrip's rewrite
    on,         \* on[r]: the connection r was assigned
    cst,        \* cst[k]: state of connection k
    deadline,   \* deadline[k]: connection k is wrapped in a deadlineConn
    raddr,      \* raddr[k]: the candidate address connection k was dialled to
    wmu         \* wmu[k]: the request whose Write holds k's write mutex

vars == <<pc, sent, on, cst, deadline, raddr, wmu>>

(* endpointAddrs(e): every bootstrap IP with port 443, or the hostname    *)
(* with port 443 when there is no bootstrap.  net.JoinHostPort is the      *)
(* pair <<host, port>>.                                                    *)
endpointAddrs(boot) ==
    IF boot # {} THEN {<<a, 443>> : a \in boot} ELSE {<<Hostname, 443>>}

Addrs == endpointAddrs(Bootstrap)

Dialled == {k \in ConnIds : cst[k] # "none"}

(* http2 reuses a connection it has not seen fail: a stalled peer looks   *)
(* healthy to it.                                                          *)
Usable == {k \in ConnIds : cst[k] \in {"open", "stalled"}}

InFlight == {"dial", "write", "blocked", "read"}

Users(k) == {r \in Reqs : on[r] = k /\ pc[r] \in InFlight}

-----------------------------------------------------------------------------
Init ==
    /\ pc = [r \in Reqs |-> "idle"]
    /\ sent = [r \in Reqs |-> None]
    /\ on = [r \in Reqs |-> None]
    /\ cst = [k \in ConnIds |-> "none"]
    /\ deadline = [k \in ConnIds |-> FALSE]
    /\ raddr = [k \in ConnIds |-> None]
    /\ wmu = [k \in ConnIds |-> None]

(* transport.RoundTrip: URL host := t.addr, Host := t.hostname, URL path  *)
(* := t.path when t.path is set; then http.Transport.RoundTrip takes a    *)
(* connection from its pool, or dials when it has none.                   *)
RoundTrip(r) ==
    /\ pc[r] = "idle"
    /\ sent' = [sent EXCEPT ![r] =
                  [urlHost |-> TAddr, host |-> Hostname,
                   path |-> IF TPath # NoPath THEN TPath ELSE CallerPath]]
    /\ \/ \E k \in Usable :
             /\ on' = [on EXCEPT ![r] = k]
             /\ pc' = [pc EXCEPT ![r] = "write"]
       \/ /\ Usable = {}
          /\ pc' = [pc EXCEPT ![r] = "dial"]
          /\ UNCHANGED on
    /\ UNCHANGED <<cst, deadline, raddr, wmu>>

(* Variant of DialContext that returns the dialled connection unwrapped.  *)
DialContextUnwrapped(r) ==
    /\ pc[r] = "dial"
    /\ \/ \E a \in Addrs, k \in ConnIds :
             /\ k = Cardinality(Dialled) + 1
             /\ cst' = [cst EXCEPT ![k] = "open"]
             /\ raddr' = [raddr EXCEPT ![k] = a]
             /\ on' = [on EXCEPT ![r] = k]
             /\ pc' = [pc EXCEPT ![r] = "write"]
             /\ UNCHANGED deadline
       \/ /\ pc' = [pc EXCEPT ![r] = "err"]
          /\ UNCHANGED <<on, cst, deadline, raddr>>
    /\ UNCHANGED <<sent, wmu>>

(* DialContext: d.DialParallel races addrs and returns the first          *)
(* connection that succeeds, or an error when all fail; a non-nil         *)
(* connection is wrapped in deadlineConn{timeout: 5s}.  Past the bound    *)
(* MaxConns only the failure is explored.                                 *)
DialContext(r) ==
    /\ pc[r] = "dial"
    /\ \/ \E a \in Addrs, k \in ConnIds :
             /\ k = Cardinality(Dialled) + 1
             /\ cst' = [cst EXCEPT ![k] = "open"]
             /\ deadline' = [deadline EXCEPT ![k] = TRUE]
             /\ raddr' = [raddr EXCEPT ![k] = a]
             /\ on' = [on EXCEPT ![r] = k]
             /\ pc' = [pc EXCEPT ![r] = "write"]
       \/ /\ pc' = [pc EXCEPT ![r] = "err"]
          /\ UNCHANGED <<on, cst, deadline, raddr>>
    /\ UNCHANGED <<sent, wmu>>

(* The request's frames are written under the connection's write mutex.  *)
(* To an open peer the write completes; to a stalled one it blocks with   *)
(* the mutex held; on a closed connection it fails.                       *)
Write(r) ==
    LET k == on[r] IN
    /\ pc[r] = "write"
    /\ wmu[k] = None
    /\ \/ /\ cst[k] = "open"
          /\ pc' = [pc EXCEPT ![r] = "read"]
          /\ UNCHANGED wmu
       \/ /\ cst[k] = "stalled"
          /\ pc' = [pc EXCEPT ![r] = "blocked"]
          /\ wmu' = [wmu EXCEPT ![k] = r]
       \/ /\ cst[k] = "closed"
          /\ pc' = [pc EXCEPT ![r] = "err"]
          /\ UNCHANGED wmu
    /\ UNCHANGED <<sent, on, cst, deadline, raddr>>

(* deadlineConn.Write: the 5 s deadline expires on a blocked write; the    *)
(* write fails, http2 closes the connection and every request on it       *)
(* returns an error.                                                      *)
WriteDeadline(k) ==
    /\ deadline[k]
    /\ wmu[k] # None
    /\ cst' = [cst EXCEPT ![k] = "closed"]
    /\ wmu' = [wmu EXCEPT ![k] = None]
    /\ pc' = [r \in Reqs |-> IF r \in Users(k) THEN "err" ELSE pc[r]]
    /\ UNCHANGED <<sent, on, deadline, raddr>>

(* The peer answers a request whose frames it received.                   *)
Respond(r) ==
    /\ pc[r] = "read"
    /\ cst[on[r]] = "open"
    /\ pc' = [pc EXCEPT ![r] = "done"]
    /\ UNCHANGED <<sent, on, cst, deadline, raddr, wmu>>

(* The caller's context ends a request that waits for its response.       *)
Cancel(r) ==
    /\ pc[r] = "read"
    /\ pc' = [pc EXCEPT ![r] = "err"]
    /\ UNCHANGED <<sent, on, cst, deadline, raddr, wmu>>

(* The peer stops reading: its receive window stays full.                 *)
Stall(k) ==
    /\ cst[k] = "open"
    /\ cst' = [cst EXCEPT ![k] = "stalled"]
    /\ UNCHANGED <<pc, sent, on, deadline, raddr, wmu>>

(* The peer reads again: a write blocked on it completes.                 *)
Resume(k) ==
    /\ cst[k] = "stalled"
    /\ cst' = [cst EXCEPT ![k] = "open"]
    /\ pc' = IF wmu[k] = None THEN pc ELSE [pc EXCEPT ![wmu[k]] = "read"]
    /\ wmu' = [wmu EXCEPT ![k] = None]
    /\ UNCHANGED <<sent, on, deadline, raddr>>

(* IdleConnTimeout (90 s) closes a connection no request uses.            *)
IdleClose(k) ==
    /\ cst[k] \in {"open", "stalled"}
    /\ Users(k) = {}
    /\ cst' = [cst EXCEPT ![k] = "closed"]
    /\ UNCHANGED <<pc, sent, on, deadline, raddr, wmu>>

(* Every RoundTrip has returned.                                          *)
Finished ==
    /\ \A r \in Reqs : pc[r] \in {"done", "err"}
    /\ UNCHANGED vars

Next ==
    \/ \E r \in Reqs : \/ RoundTrip(r) \/ DialContext(r) \/ Write(r)
                       \/ Respond(r) \/ Cancel(r)
    \/ \E k \in ConnIds : WriteDeadline(k) \/ Stall(k) \/ Resume(k)
                            \/ IdleClose(k)
    \/ Finished

(* A runnable goroutine runs; a timer (a write deadline, the caller's     *)
(* context) eventually fires.  The peer is not fair: it may never answer  *)
(* and may stall for ever.                                                *)
Fairness ==
    /\ \A r \in Reqs : WF_vars(DialContext(r)) /\ WF_vars(Write(r))
                       /\ WF_vars(Cancel(r))
    /\ \A k \in ConnIds : WF_vars(WriteDeadline(k))

Spec == Init /\ [][Next]_vars

FairSpec == Spec /\ Fairness

-----------------------------------------------------------------------------
TypeOK ==
    /\ pc \in [Reqs -> {"idle", "done", "err"} \cup InFlight]
    /\ on \in [Reqs -> ConnIds \cup {None}]
    /\ cst \in [ConnIds -> {"none", "open", "stalled", "closed"}]
    /\ deadline \in [ConnIds -> BOOLEAN]
    /\ raddr \in [ConnIds -> Addrs \cup {None}]
    /\ wmu \in [ConnIds -> Reqs \cup {None}]

(* Every RoundTrip returns, with a response or an error, even when the    *)
(* peer stalls: a write blocked on a stalled HTTP/2 connection holds the  *)
(* write mutex that every other request on it waits for without seeing   *)
(* its context, so only the deadlineConn that DialContext wraps around    *)
(* the connection ends the wait.                                          *)
RoundTripReturns ==
    \A r \in Reqs : pc[r] \in InFlight ~> pc[r] \in {"done", "err"}
=============================================================================
