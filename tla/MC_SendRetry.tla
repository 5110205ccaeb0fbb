---------------------------- MODULE MC_SendRetry ----------------------------
EXTENDS SendRetry

\* One send with the default retry configuration and one without a policy.
MCCalls == {"c1", "c2"}
MCPolicy == [c \in MCCalls |-> IF c = "c1" THEN "retry" ELSE "none"]

=============================================================================
