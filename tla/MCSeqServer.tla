----------------------------- MODULE MCSeqServer -----------------------------
(* Small instances of SeqServer.                                           *)
EXTENDS SeqServer, TLC

Row(max, step, cache, alert) ==
  [min |-> 1, max |-> max, step |-> step, cache |-> cache, alert |-> alert,
   status |-> 0, batchCache |-> 2, batchFetch |-> 1, cycle |-> FALSE]

MixedCount == {1, 2}

SingleRules == {Row(6, 1, 2, 1)}

(* Console updates: another step and prefetch size, a smaller map of       *)
(* batches, a disabled sequence.                                           *)
ConsoleRules == {Row(8, 1, 3, 2), Row(6, 2, 2, 2),
                 [Row(8, 1, 3, 2) EXCEPT !.status = 1, !.batchCache = 1]}

Symmetry == Permutations(Server) \cup Permutations(Thread)
=============================================================================
