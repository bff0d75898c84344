-------------------------------- MODULE MCWorker --------------------------------
(* A small instance of Worker: one interceptor, two output plugins.         *)
EXTENDS Worker, TLC

CONSTANTS t1, t2, c1, c2, db, i1, o1, o2

MCThreads == {t1, t2}
MCConns == {c1, c2}
MCInterceptors == <<i1>>
MCOutputs == <<o1, o2>>

=============================================================================
