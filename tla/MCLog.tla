-------------------------------- MODULE MCLog --------------------------------
(* A small instance of Log: two threads of a process, one of another.      *)
EXTENDS Log, TLC

CONSTANTS a, b, c, p1, p2

MCThreads == {a, b, c}
MCProcesses == {p1, p2}
MCOwner == a :> p1 @@ b :> p1 @@ c :> p2
Perms == Permutations({a, b})
=============================================================================
