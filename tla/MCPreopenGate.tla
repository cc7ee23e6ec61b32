---------------------------- MODULE MCPreopenGate ----------------------------
(* Two overlapping runs over a market buy, a market sell and a limit buy.  *)
EXTENDS PreopenGate, TLC

CONSTANTS g1, g2, buy, sell, limitbuy

GateSymmetry == Permutations({g1, g2})

MCKeys == [cancelled: SUBSET Orders, failed: SUBSET Orders]

MCTaxonomies == {"PREOPEN_CANCEL", "PREOPEN_CANCEL_PARTIAL", "PREOPEN_CANCEL_FAILED",
                 "PREOPEN_GATE_DEGRADED"}

Feed(latest, age, prior, sigma, n_obs) ==
    [latest |-> latest, age |-> age, prior |-> prior, sigma |-> sigma, n_obs |-> n_obs]

\* Severe up, severe down by exactly the threshold, calm, no deviation, stale, no bar
\* at the close, too short a history.
MCFeeds == {Feed(130, 0, 100, 10, 60), Feed(80, 2, 100, 10, 60), Feed(119, 0, 100, 10, 10),
            Feed(130, 0, 100, 0, 60), Feed(130, 3, 100, 10, 60), Feed(130, 0, 0, 10, 60),
            Feed(130, 0, 100, 10, 9)}
=============================================================================
