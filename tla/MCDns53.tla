-------------------------------- MODULE MCDns53 --------------------------------
(* Model-checking instance of Dns53: two A calls and two PTR calls for one *)
(* name, so that a later call of each type can hit what an earlier one     *)
(* cached, against a network that sends any mix of short, mismatched and  *)
(* matching datagrams.  maxRetries is 2 rather than the code's 5: the      *)
(* loop's logic is the same for any ceiling, and 5 with four calls is      *)
(* past 10^7 states.                                                        *)
EXTENDS Dns53, TLC

CONSTANTS r1, r2, r3, r4, name, A

MCCalls == {r1, r2, r3, r4}
MCCallKey == [r \in MCCalls |-> IF r \in {r1, r2} THEN <<name, A>> ELSE <<name, PTR>>]

SameKeySymmetry == Permutations({r1, r2}) \cup Permutations({r3, r4})
=============================================================================
