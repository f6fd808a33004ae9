-------------------------------- MODULE MCKV --------------------------------
EXTENDS KV

CONSTANTS c1, c2, k1, v1, v2, v3

Put(v) == [op |-> "put", key |-> k1, expect |-> Empty, value |-> v]
CAS(e, v) == [op |-> "cas", key |-> k1, expect |-> e, value |-> v]

\* One client writes twice, and its first request leaves the dedup table with the
\* second; the other client swaps.
Programs == (c1 :> <<Put(v1), Put(v2)>>) @@ (c2 :> <<CAS(v1, v3)>>)

=============================================================================
