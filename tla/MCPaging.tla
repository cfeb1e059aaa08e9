------------------------------ MODULE MCPaging ------------------------------
\* An instance of Paging for TLC: five records, two of which have one sort key.
EXTENDS Paging, TLC

CONSTANTS d1, d2, d3, d4, d5

MCSortKey == (d1 :> 1) @@ (d2 :> 2) @@ (d3 :> 2) @@ (d4 :> 3) @@ (d5 :> 4)

=============================================================================
