------------------------- MODULE MCElementLifecycle -------------------------
(* A small instance of ElementLifecycle: two contributors, an attribute    *)
(* that both may carry with different values and one that may be dropped.  *)
EXTENDS ElementLifecycle

CONSTANTS a, b, x, y

MCElements == {[n \in Attributes |-> IF n = a THEN x ELSE Null],
               [n \in Attributes |-> IF n = a THEN y ELSE Null],
               [n \in Attributes |-> x]}

(* A savepoint in which contributor 2 was observed before the index. *)
MCLegacy ==
    {[c \in Contributors |->
        IF c = 2 THEN [observedAt |-> 1, eventExpiresAt |-> 1 + Ttl,
                       processingExpiresAt |-> Ttl,
                       element |-> [n \in Attributes |-> x]]
        ELSE Null]}

(* The clock runs long enough for what is received last to expire. *)
ASSUME ClockRunsOut == CoalescedTimer(QuietAfter + Ttl) <= MaxProcessingTime
=============================================================================
