---------------------------- MODULE MCSobTreeV1 ----------------------------
(* TLC instances of SobTreeV1.                                             *)
EXTENDS SobTreeV1

CONSTANTS c1, c2, w1, w2

\* Two clients whose keys interleave: both end up in the same leaves.
Interleaved == [t \in Foreground |-> IF t = c1 THEN {1, 4} ELSE {2, 3}]

=============================================================================
