---------------------------- MODULE MCTicketPool ----------------------------
(* The ticket pool under one chain: every chain of at most MaxHeight blocks, *)
(* readers asking for any height between any two steps of it.                *)
EXTENDS TicketPool
\* Readers ask for a negative height too, and for one above the tip.
AnyHeight == -1..MaxHeight
=============================================================================
