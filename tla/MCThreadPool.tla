----------------------------- MODULE MCThreadPool -----------------------------
(* Small instances of ThreadPool.                                          *)
EXTENDS ThreadPool, TLC

NoResize  == {}
AnyResize == {<<1, 1>>, <<1, 2>>, <<1, 3>>}

Symmetry == Permutations(Thread) \cup Permutations(Task)
===============================================================================
