------------------------------ MODULE Admission ------------------------------
(***************************************************************************)
(* What the admission semaphore promises (spec.md sections 3 and 4.2): a   *)
(* bounded counting semaphore of Capacity tokens.  Every unit of work      *)
(* (one admission of one query) acquires one token, holds it while it is   *)
(* in flight, and gives it back exactly once; the count of tokens taken is *)
(* always the number of units holding one.                                 *)
(***************************************************************************)
EXTENDS Naturals, FiniteSets

CONSTANTS
    Units,      \* every admission the system can make
    Capacity    \* cap(inflightRequests)

VARIABLES
    tokens,     \* tokens taken from the semaphore
    holders,    \* units holding a token
    released    \* units that have given their token back

vars == <<tokens, holders, released>>

Init ==
    /\ tokens = 0
    /\ holders = {}
    /\ released = {}

(* A fresh unit takes a token when one is left.                           *)
Acquire(u) ==
    /\ u \notin holders \cup released
    /\ tokens < Capacity
    /\ tokens' = tokens + 1
    /\ holders' = holders \cup {u}
    /\ UNCHANGED released

(* A holder gives its token back, once.                                    *)
Release(u) ==
    /\ u \in holders
    /\ tokens' = tokens - 1
    /\ holders' = holders \ {u}
    /\ released' = released \cup {u}

Next == \E u \in Units : Acquire(u) \/ Release(u)

Spec == Init /\ [][Next]_vars

(* The count of taken tokens is the number of holders.                    *)
TokensCountHolders == tokens = Cardinality(holders)
=============================================================================
