----------------------------- MODULE MCApplyBot -----------------------------
EXTENDS ApplyBot, TLC
CONSTANTS j1, j2, c1
MCTenant == j1 :> "board1" @@ j2 :> "board1"
MCCompany == j1 :> c1 @@ j2 :> c1
MCCap == c1 :> 2
MCRank == j1 :> 1 @@ j2 :> 2
=============================================================================
