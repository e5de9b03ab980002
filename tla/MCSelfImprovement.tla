-------------------------- MODULE MCSelfImprovement --------------------------
EXTENDS SelfImprovement

CONSTANTS r1, r2

MCBroken == {"score"}
=============================================================================
