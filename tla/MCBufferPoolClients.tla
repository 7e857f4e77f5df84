------------------------- MODULE MCBufferPoolClients -------------------------
(* Two callers; two buffers per tier (one per caller), one foreign slice *)
(* of a capacity no tier has; sizes on both sides of every tier ceiling. *)
EXTENDS BufferPoolClients, TLC

CONSTANTS cl1, cl2, s1, s2, m1, m2, l1, l2, f1

MCClients == {cl1, cl2}
MCBuffers == {s1, s2, m1, m2, l1, l2, f1}
MCCap == (s1 :> 512) @@ (s2 :> 512) @@ (m1 :> 4096) @@ (m2 :> 4096)
           @@ (l1 :> 65536) @@ (l2 :> 65536) @@ (f1 :> 1000)
MCSizes == {0, 512, 513, 4096, 4097, 65536, 70000}

Symmetry == Permutations(MCClients) \cup Permutations({s1, s2})
              \cup Permutations({m1, m2}) \cup Permutations({l1, l2})
=============================================================================
