-------------------------------- MODULE Dns53 --------------------------------
(***************************************************************************)
(* The DNS53 resolver of spec.md 4.3 (its source, resolver/dns53.go, is   *)
(* not in the repository; resolver/dns53_test.go pins its behaviour).     *)
(*                                                                         *)
(* Concurrent resolve calls share one cache keyed by (name, type, class). *)
(* A call that misses the cache writes its query to the upstream and      *)
(* reads datagrams: a short one or one with another transaction ID is     *)
(* discarded and counted, and past maxRetries the call fails with a       *)
(* stable error; the context deadline ends the read at any time.  A       *)
(* matching answer has its TTL clamped to MaxTTL and, unless the query is *)
(* PTR, is cached.  Keys are <<name, type>> (the class is always IN);     *)
(* the network is an adversary that may send any datagram.                 *)
(***************************************************************************)
EXTENDS Naturals, FiniteSets

CONSTANTS
    Calls,      \* resolve calls
    CallKey,    \* CallKey[r]: the <<name, type>> call r asks for
    PTR,        \* the PTR type
    MaxRetries, \* maxRetries
    MaxTTL,     \* r.MaxTTL (0: no clamp)
    TTLs,       \* TTLs upstream answers carry
    None

ASSUME MaxRetries \in Nat /\ MaxTTL \in Nat /\ TTLs \subseteq Nat

Keys == {CallKey[r] : r \in Calls}

BadKinds == {"short", "mismatch"}

VARIABLES
    rpc,        \* rpc[r]: where call r is
    retries,    \* retries[r]: datagrams call r discarded
    reads,      \* reads[r]: datagrams call r read
    bad,        \* bad[r]: kinds of datagram call r discarded
    result,     \* result[r]: what call r returned
    cache       \* the cache: a set of entries [key, ttl]

vars == <<rpc, retries, reads, bad, result, cache>>

(* spec.md 4.3 and TestDNS53_Resolve_PTRNotCached: PTR answers are never  *)
(* cached.                                                                 *)
Cacheable(k) == k[2] # PTR

(* The cache's Get(key): the entry stored under exactly this key.         *)
Lookup(k) == {e \in cache : e.key = k}

(* On success answer TTLs are clamped to MaxTTL when one is set.          *)
Clamp(ttl) == IF MaxTTL > 0 /\ ttl > MaxTTL THEN MaxTTL ELSE ttl

Init ==
    /\ rpc = [r \in Calls |-> "idle"]
    /\ retries = [r \in Calls |-> 0]
    /\ reads = [r \in Calls |-> 0]
    /\ bad = [r \in Calls |-> {}]
    /\ result = [r \in Calls |-> None]
    /\ cache = {}

(* resolve: a cache hit returns the cached answer with FromCache set;     *)
(* otherwise the query is written to the upstream (or the dial fails).    *)
Start(r) ==
    LET k == CallKey[r] IN
    /\ rpc[r] = "idle"
    /\ \/ \E e \in Lookup(k) :
             /\ rpc' = [rpc EXCEPT ![r] = "ok"]
             /\ result' = [result EXCEPT ![r] = [key |-> e.key, ttl |-> e.ttl, fromCache |-> TRUE]]
       \/ /\ Lookup(k) = {}
          /\ rpc' = [rpc EXCEPT ![r] = "read"]
          /\ UNCHANGED result
       \/ /\ Lookup(k) = {}
          /\ rpc' = [rpc EXCEPT ![r] = "err"]
          /\ result' = [result EXCEPT ![r] = "dial"]
    /\ UNCHANGED <<retries, reads, bad, cache>>

(* Variant of Discard that does not count a short datagram.               *)
DiscardShortUncounted(r, kind) ==
    LET n == IF kind = "short" THEN retries[r] ELSE retries[r] + 1 IN
    /\ rpc[r] = "read"
    /\ reads' = [reads EXCEPT ![r] = @ + 1]
    /\ retries' = [retries EXCEPT ![r] = n]
    /\ bad' = [bad EXCEPT ![r] = @ \cup {kind}]
    /\ IF n > MaxRetries
       THEN \E m \in bad'[r] : /\ rpc' = [rpc EXCEPT ![r] = "err"]
                              /\ result' = [result EXCEPT ![r] = m]
       ELSE UNCHANGED <<rpc, result>>
    /\ UNCHANGED cache

(* A datagram shorter than a header, or with another ID, is discarded and *)
(* counted; past maxRetries the call fails with "max retries exceeded:    *)
(* DNS ID mismatch" or "... waiting for valid response", naming a kind of *)
(* datagram it discarded.                                                  *)
Discard(r, kind) ==
    /\ rpc[r] = "read"
    /\ reads' = [reads EXCEPT ![r] = @ + 1]
    /\ retries' = [retries EXCEPT ![r] = @ + 1]
    /\ bad' = [bad EXCEPT ![r] = @ \cup {kind}]
    /\ IF retries[r] + 1 > MaxRetries
       THEN \E m \in bad'[r] : /\ rpc' = [rpc EXCEPT ![r] = "err"]
                              /\ result' = [result EXCEPT ![r] = m]
       ELSE UNCHANGED <<rpc, result>>
    /\ UNCHANGED cache

(* Variant of Deadline that caches an empty answer for the question the   *)
(* call gave up on.                                                        *)
DeadlineCachesEmpty(r) ==
    /\ rpc[r] = "read"
    /\ rpc' = [rpc EXCEPT ![r] = "err"]
    /\ result' = [result EXCEPT ![r] = "timeout"]
    /\ cache' = IF Cacheable(CallKey[r])
                THEN {e \in cache : e.key # CallKey[r]} \cup {[key |-> CallKey[r], ttl |-> 0]}
                ELSE cache
    /\ UNCHANGED <<retries, reads, bad>>

(* A datagram with the query's ID: its TTLs are clamped, it is cached     *)
(* under the query's key unless the query is PTR, and returned.           *)
Answer(r, ttl) ==
    LET k == CallKey[r] IN
    /\ rpc[r] = "read"
    /\ reads' = [reads EXCEPT ![r] = @ + 1]
    /\ rpc' = [rpc EXCEPT ![r] = "ok"]
    /\ result' = [result EXCEPT ![r] = [key |-> k, ttl |-> Clamp(ttl), fromCache |-> FALSE]]
    /\ cache' = IF Cacheable(k)
                THEN {e \in cache : e.key # k} \cup {[key |-> k, ttl |-> Clamp(ttl)]}
                ELSE cache
    /\ UNCHANGED <<retries, bad>>

(* The context's deadline passes while the call reads.                    *)
Deadline(r) ==
    /\ rpc[r] = "read"
    /\ rpc' = [rpc EXCEPT ![r] = "err"]
    /\ result' = [result EXCEPT ![r] = "timeout"]
    /\ UNCHANGED <<retries, reads, bad, cache>>

(* An entry older than CacheMaxAge is no longer served.                   *)
Expire(e) ==
    /\ e \in cache
    /\ cache' = cache \ {e}
    /\ UNCHANGED <<rpc, retries, reads, bad, result>>

Done ==
    /\ \A r \in Calls : rpc[r] \in {"ok", "err"}
    /\ UNCHANGED vars

Next ==
    \/ \E r \in Calls :
          \/ Start(r) \/ Deadline(r)
          \/ \E kind \in BadKinds : Discard(r, kind)
          \/ \E ttl \in TTLs : Answer(r, ttl)
    \/ \E e \in cache : Expire(e)
    \/ Done

Spec == Init /\ [][Next]_vars

-----------------------------------------------------------------------------
TypeOK ==
    /\ rpc \in [Calls -> {"idle", "read", "ok", "err"}]
    /\ retries \in [Calls -> 0..MaxRetries + 1]
    /\ bad \in [Calls -> SUBSET BadKinds]

(* spec.md 4.3: a flood of short or mismatched datagrams pins a call for *)
(* at most maxRetries + 1 reads: whatever mix the network sends, the      *)
(* loop never reads more.                                                  *)
ReadsBounded ==
    \A r \in Calls : reads[r] <= MaxRetries + 1

(* Dns53 implements the resolve contract DnsResolve: a call reading      *)
(* datagrams is busy, and discarded datagrams and expiries are invisible. *)
(* So every answer is for the call's own (name, type), its TTL is clamped *)
(* to MaxTTL, a PTR answer never comes from the cache, and every answer   *)
(* served from the cache is one an earlier call got from the network for  *)
(* the same question: the clamp comes before the cache write, and no      *)
(* error path and no other key leaves an entry behind.                    *)
AbsState == [r \in Calls |-> IF rpc[r] = "read" THEN "busy" ELSE rpc[r]]
Abs == INSTANCE DnsResolve WITH st <- AbsState, res <- result,
                                Errors <- BadKinds \cup {"dial", "timeout"}
ResolveRefinement == Abs!Spec
=============================================================================
