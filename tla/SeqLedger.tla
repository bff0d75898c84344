------------------------------ MODULE SeqLedger ------------------------------
(***************************************************************************)
(* What the sequence centre promises its clients (README, "全局唯一ID"): an *)
(* id is claimed from an ever growing cursor, delivered to a client at most *)
(* once, and may be lost on the way but never comes back.                  *)
(***************************************************************************)
EXTENDS Integers

VARIABLES
  cursor,    \* every id below it has been claimed
  live,      \* the ids claimed and neither delivered nor lost
  issued     \* the ids delivered

ledger == <<cursor, live, issued>>

Init ==
  /\ cursor \in Nat
  /\ live = {}
  /\ issued = {}

(* Take fresh ids off the cursor; held ones may get lost in the same step. *)
Claim ==
  /\ \E n \in cursor .. cursor' : n # cursor
  /\ live' \subseteq live \cup (cursor .. cursor' - 1)
  /\ UNCHANGED issued

Lose ==
  /\ live' \subseteq live
  /\ UNCHANGED <<cursor, issued>>

(* Give live ids to a client: they are gone from whoever held them.        *)
Deliver ==
  /\ issued \subseteq issued'
  /\ live' = live \ (issued' \ issued)
  /\ issued' \ issued \subseteq live
  /\ issued' # issued
  /\ UNCHANGED cursor

Next == Claim \/ Lose \/ Deliver

Spec == Init /\ [][Next]_ledger
=============================================================================
