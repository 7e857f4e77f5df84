--------------------------- MODULE TieredBufferPool ---------------------------
(***************************************************************************)
(* The tiered buffer pool of src/proxy/bufferpool.go.                      *)
(*                                                                         *)
(* Three sync.Pool freelists, one per tier.  A sync.Pool is a multiset of  *)
(* pointers: Put of the same pointer twice makes it available to two Gets, *)
(* Get may call New even when the pool holds buffers (per-P caches), and   *)
(* the runtime drops pooled buffers at a garbage collection.  Buffers are  *)
(* identities from the constant set Buffers; Cap gives each its capacity,  *)
(* fixed when New made it (or foreign, a capacity that is no tier).        *)
(*                                                                         *)
(* The module defines the pool's operations as actions on its two          *)
(* variables; a composing module conjoins them with its own steps.         *)
(***************************************************************************)
EXTENDS Naturals, Bags, BagsExt

CONSTANTS
    Buffers,    \* identities of byte slices the pool may hand out
    Cap,        \* Cap[b]: cap(*b), the capacity the slice was made with
    NoBuffer    \* a nil *[]byte

VARIABLES
    pooled,     \* pooled[t]: bag of buffers in the sync.Pool of tier t
    allocated   \* buffers some New has made and the program may still reach

poolVars == <<pooled, allocated>>

Small  == 512
Medium == 4096
Large  == 65536
Tiers  == {Small, Medium, Large}

(* Variant of TierFor with size < 512 and size < 4096.                     *)
TierForOffByOne(size) ==
    IF size < Small THEN Small
    ELSE IF size < Medium THEN Medium
    ELSE Large

(* Get(size): the tier whose pool the switch on size picks.               *)
TierFor(size) ==
    IF size <= Small THEN Small
    ELSE IF size <= Medium THEN Medium
    ELSE Large

PoolInit ==
    /\ pooled = [t \in Tiers |-> EmptyBag]
    /\ allocated = {}

(* pool.Get() of tier t hands out buffer b: a pooled one, or one New      *)
(* makes with the tier's capacity.                                         *)
GetFromTier(t, b) ==
    \/ /\ BagIn(b, pooled[t])
       /\ pooled' = [pooled EXCEPT ![t] = BagRemove(@, b)]
       /\ UNCHANGED allocated
    \/ /\ b \in Buffers \ allocated
       /\ Cap[b] = t
       /\ allocated' = allocated \cup {b}
       /\ UNCHANGED pooled

Get(size, b) == GetFromTier(TierFor(size), b)

GetLarge(b) == GetFromTier(Large, b)

(* Variant of PutPooled whose switch ends in default: instead of case    *)
(* 65536, so every other non-nil slice goes to the large pool.           *)
PutPooledDefaultLarge(p, b) ==
    IF b = NoBuffer THEN p
    ELSE IF Cap[b] \in {Small, Medium}
    THEN [p EXCEPT ![Cap[b]] = BagAdd(@, b)]
    ELSE [p EXCEPT ![Large] = BagAdd(@, b)]

(* Put(buf): a nil pointer is ignored; otherwise the buffer goes to the   *)
(* pool whose tier equals its exact capacity, and any other capacity is   *)
(* dropped for the garbage collector.                                      *)
PutPooled(p, b) ==
    IF b # NoBuffer /\ Cap[b] \in Tiers
    THEN [p EXCEPT ![Cap[b]] = BagAdd(@, b)]
    ELSE p

Put(b) ==
    /\ pooled' = PutPooled(pooled, b)
    /\ UNCHANGED allocated

(* Two Puts in one step, as a deferred cleanup that returns two buffers.  *)
PutBoth(b1, b2) ==
    /\ pooled' = PutPooled(PutPooled(pooled, b1), b2)
    /\ UNCHANGED allocated

(* A garbage collection drops buffer b from the pool of tier t.  When no  *)
(* copy is left and the program holds no reference (unheld), its identity *)
(* is free for a later New.                                                *)
Evict(t, b, unheld) ==
    /\ BagIn(b, pooled[t])
    /\ pooled' = [pooled EXCEPT ![t] = BagRemoveAll(@, b)]
    /\ allocated' = IF unheld THEN allocated \ {b} ELSE allocated

PoolTypeOK ==
    /\ DOMAIN pooled = Tiers
    /\ \A t \in Tiers : IsABag(pooled[t]) /\ BagToSet(pooled[t]) \subseteq Buffers
    /\ allocated \subseteq Buffers
=============================================================================
