---------------------- MODULE MCContributionCoalescer -----------------------
(* ContributionCoalescer with one pair: pairs share nothing but the clock. *)
EXTENDS ContributionCoalescer

(* Redeployments that keep coalescing on, and one that turns it off. *)
KeepCoalescing == {u \in Intervals \X Intervals : u[1] > 0 => u[2] > 0}

TurnOff == {u \in Intervals \X Intervals : u[2] = 0}
=============================================================================
