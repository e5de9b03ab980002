-------------------------- MODULE MCCertification --------------------------
EXTENDS Certification

CONSTANTS t1, t2, k1

MCTasks == {t1, t2}
MCUpstream == (t1 :> {}) @@ (t2 :> {t1})
MCCritical == {t2}
MCSelfImproving == {t2}
MCPatches == {<<"enabled", FALSE>>}
MCClients == {[task |-> t2, key |-> k1, blank |-> b] : b \in BOOLEAN}
MCConfig == {[enabled |-> TRUE, frequency |-> "always", dual |-> FALSE, resubmit |-> TRUE],
             [enabled |-> TRUE, frequency |-> "critical_only", dual |-> TRUE, resubmit |-> FALSE]}
=============================================================================
