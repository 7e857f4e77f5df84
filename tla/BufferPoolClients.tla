--------------------------- MODULE BufferPoolClients ---------------------------
(***************************************************************************)
(* Callers of the TieredBufferPool of src/proxy/bufferpool.go that use     *)
(* every operation: Get(size) for any size, Put of the buffer they got,   *)
(* Put of a foreign slice or of nil.  The listener of src/proxy/tcp.go only *)
(* uses GetLarge (see TcpServer); the callers that size their buffers      *)
(* (the UDP path) are not in the repository and follow spec.md 4.1.        *)
(***************************************************************************)
EXTENDS Naturals, FiniteSets, Bags, FiniteSetsExt

CONSTANTS
    Clients,    \* goroutines using the pool
    Buffers,    \* byte slices: those New makes and foreign ones
    Cap,        \* capacity of each
    NoBuffer,   \* nil
    Sizes       \* sizes callers ask for

VARIABLES
    holding,    \* holding[cl]: <<buffer, size asked for>>, or None
    pooled, allocated

vars == <<holding, pooled, allocated>>

Pool == INSTANCE TieredBufferPool

None == <<NoBuffer, 0>>

Foreign == {b \in Buffers : Cap[b] \notin Pool!Tiers}

Held == {holding[cl][1] : cl \in Clients}

Init ==
    /\ holding = [cl \in Clients |-> None]
    /\ Pool!PoolInit

Get(cl, s) ==
    /\ holding[cl] = None
    /\ \E b \in Buffers : Pool!Get(s, b) /\ holding' = [holding EXCEPT ![cl] = <<b, s>>]

PutBack(cl) ==
    /\ holding[cl] # None
    /\ Pool!Put(holding[cl][1])
    /\ holding' = [holding EXCEPT ![cl] = None]

PutForeign(b) ==
    /\ b \in Foreign
    /\ Pool!Put(b)
    /\ UNCHANGED holding

PutNil ==
    /\ Pool!Put(NoBuffer)
    /\ UNCHANGED holding

Collect(t, b) ==
    /\ Pool!Evict(t, b, b \notin Held)
    /\ UNCHANGED holding

Next ==
    \/ \E cl \in Clients : PutBack(cl) \/ \E s \in Sizes : Get(cl, s)
    \/ \E b \in Buffers : PutForeign(b) \/ \E t \in Pool!Tiers : Collect(t, b)
    \/ PutNil

Spec == Init /\ [][Next]_vars

-----------------------------------------------------------------------------
TypeOK ==
    /\ holding \in [Clients -> (Buffers \X Sizes) \cup {None}]
    /\ Pool!PoolTypeOK

(* spec.md 4.1 and 8: Get(n) returns the smallest tier whose ceiling is   *)
(* at least n, and a large buffer when n exceeds every ceiling.           *)
RefTier(size) ==
    IF \E t \in Pool!Tiers : t >= size
    THEN Min({t \in Pool!Tiers : t >= size})
    ELSE Pool!Large

(* Every buffer a caller got has exactly the capacity of the tier its     *)
(* size calls for, whether New made it or an earlier Put pooled it: Put   *)
(* must sort returned and foreign slices by exact capacity, and Get must  *)
(* pick the tier the reference picks.                                     *)
GetFits ==
    \A cl \in Clients :
        holding[cl] # None => Cap[holding[cl][1]] = RefTier(holding[cl][2])

(* A buffer in the pool of tier t has capacity exactly t: foreign slices  *)
(* and nil never enter a pool.                                            *)
PooledTierMatches ==
    \A t \in Pool!Tiers : \A b \in BagToSet(pooled[t]) : Cap[b] = t
=============================================================================
