----------------------------- MODULE MCFeedback -----------------------------
EXTENDS Feedback

MCSong == {"s1", "s2", "x"}
MCMbid == [s \in MCSong |-> IF s = "x" THEN "none" ELSE "m"]
MCLookup == [s \in MCSong |-> IF s = "x" THEN "n" ELSE "none"]
=============================================================================
