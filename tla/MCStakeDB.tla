----------------------------- MODULE MCStakeDB -----------------------------
(* The stake database on a few tickets and blocks; the configurations choose *)
(* which of crashes, reorganizations and faults happen.                      *)
EXTENDS StakeDB

Symmetric == Permutations(Tickets)
\* Readers ask for a negative height too, and for one above the tip.
AnyHeight == -1..MaxHeight
=============================================================================
