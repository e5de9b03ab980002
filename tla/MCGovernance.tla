--------------------------- MODULE MCGovernance ---------------------------
EXTENDS Governance

CONSTANTS e1, e2, k1

MCScopes == {{"reviews"}, {"extracts"}, {"attempts", "text"}}
=============================================================================
