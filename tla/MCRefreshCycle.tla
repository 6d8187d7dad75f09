--------------------------- MODULE MCRefreshCycle ---------------------------
(* RefreshCycle with interchangeable refreshes: a refresh is only the place    *)
(* that a background task takes while it lives.                                *)
EXTENDS RefreshCycle, TLC

RefreshSymmetry == Permutations(Refresh)
==============================================================================
