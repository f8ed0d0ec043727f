----------------------------- MODULE MCScoring ------------------------------
(* Instance of Scoring for TLC.                                            *)
EXTENDS Scoring, TLC

CONSTANTS c1, c2

MCSEGMENTS == <<"BANK", "DEFAULT">>
MCCalls    == {c1, c2}

Deployment(production, training, developmentOnly, bank, default) ==
  [production |-> production, training |-> training,
   developmentOnly |-> developmentOnly, otherChecks |-> TRUE,
   rollout |-> [BANK |-> bank, DEFAULT |-> default]]

\* Development; production, trusted and not; one whose start is refused.  One
\* rollout mode is misspelt, and one is disabled.
MCSettings ==
  { Deployment(FALSE, TRUE, TRUE, "ML_ASSISTED", "SHADOW"),
    Deployment(TRUE, FALSE, FALSE, "ML_ASSISTED", "SHADOWED"),
    Deployment(TRUE, FALSE, TRUE, "ML_ASSISTED", "DISABLED"),
    Deployment(TRUE, TRUE, TRUE, "SHADOW", "SHADOW") }

\* A citizen with a swap and three wrong PINs, and a member with the swap only.
MCRequests ==
  { [kind |-> "score", org |-> "GRA", features |->
       [late |-> 0, overdue |-> 2, service |-> 3, location |-> 1, compliance |-> 0,
        pins |-> 3, swap |-> TRUE]],
    [kind |-> "member", org |-> "BANK", features |-> MemberFeatures(0, TRUE, "unasked")] }

=============================================================================
