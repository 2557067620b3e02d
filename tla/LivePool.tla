------------------------------ MODULE LivePool ------------------------------
(***************************************************************************)
(* What the stake database promises its readers about the live ticket      *)
(* pool: blocks are connected and disconnected at the tip of one chain,    *)
(* and a query for a height is answered with exactly the tickets that were *)
(* live at that height of the chain at the moment of the answer.           *)
(***************************************************************************)
EXTENDS Integers, Sequences

CONSTANT Tickets

VARIABLES live,   \* live[h+1] is the set of tickets live at height h
          ans     \* the latest answer given to a reader

vars == <<live, ans>>

NoAnswer == [height |-> -1, pool |-> {}]

Init == live = <<{}>> /\ ans = NoAnswer

Connect == /\ \E new \in SUBSET Tickets : live' = Append(live, new)
           /\ UNCHANGED ans

Disconnect == /\ Len(live) > 1
              /\ live' = SubSeq(live, 1, Len(live) - 1)
              /\ UNCHANGED ans

Query == /\ \E h \in 0..(Len(live) - 1) :
              ans' = [height |-> h, pool |-> live[h + 1]]
         /\ UNCHANGED live

Next == Connect \/ Disconnect \/ Query

Spec == Init /\ [][Next]_vars
=============================================================================
