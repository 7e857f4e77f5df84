------------------------------ MODULE DnsResolve ------------------------------
(***************************************************************************)
(* What a resolve call of the DNS53 resolver promises (spec.md 4.3 and 6,  *)
(* its Resolver boundary): each call returns once, either the answer to   *)
(* its own (name, type) with the TTL clamped to MaxTTL, or one of a fixed  *)
(* set of errors.  An answer "from the cache" is one that an earlier call *)
(* got from the network for the same question, and a PTR question is      *)
(* never answered from the cache.  How many datagrams a call reads, and   *)
(* when entries expire, are not visible here.                             *)
(***************************************************************************)
EXTENDS Naturals

CONSTANTS
    Calls,      \* resolve calls
    CallKey,    \* CallKey[r]: the <<name, type>> call r asks for
    PTR,        \* the PTR type
    MaxTTL,     \* 0: answers keep the upstream's TTL
    TTLs,       \* TTLs upstream answers carry
    Errors,     \* the errors a call may return
    None        \* no result yet

VARIABLES
    st,         \* st[r]: "idle", "busy", "ok" or "err"
    res         \* res[r]: the answer or error call r returned

vars == <<st, res>>

Clamped(ttl) == IF MaxTTL > 0 /\ ttl > MaxTTL THEN MaxTTL ELSE ttl

(* Answers that calls returned from the network for question k.           *)
NetAnswers(k) ==
    {res[q] : q \in {x \in Calls : st[x] = "ok" /\ ~res[x].fromCache
                                   /\ res[x].key = k}}

Init ==
    /\ st = [r \in Calls |-> "idle"]
    /\ res = [r \in Calls |-> None]

(* The call goes to the upstream.                                          *)
Begin(r) ==
    /\ st[r] = "idle"
    /\ st' = [st EXCEPT ![r] = "busy"]
    /\ UNCHANGED res

(* The call is answered from the cache without reaching the upstream.     *)
Hit(r) ==
    LET k == CallKey[r] IN
    /\ st[r] = "idle"
    /\ k[2] # PTR
    /\ st' = [st EXCEPT ![r] = "ok"]
    /\ \E a \in NetAnswers(k) :
          res' = [res EXCEPT ![r] = [a EXCEPT !.fromCache = TRUE]]

(* The upstream answers the call's own question.                          *)
Fetch(r) ==
    /\ st[r] = "busy"
    /\ st' = [st EXCEPT ![r] = "ok"]
    /\ \E ttl \in TTLs :
          res' = [res EXCEPT ![r] = [key |-> CallKey[r], ttl |-> Clamped(ttl),
                                     fromCache |-> FALSE]]

(* The call fails, before or after it reached the upstream.               *)
Fail(r) ==
    /\ st[r] \in {"idle", "busy"}
    /\ st' = [st EXCEPT ![r] = "err"]
    /\ \E e \in Errors : res' = [res EXCEPT ![r] = e]

Next == \E r \in Calls : Begin(r) \/ Hit(r) \/ Fetch(r) \/ Fail(r)

Spec == Init /\ [][Next]_vars
=============================================================================
