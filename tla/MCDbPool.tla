-------------------------------- MODULE MCDbPool --------------------------------
(* Small instances of DbPool.                                              *)
EXTENDS DbPool, TLC

CONSTANTS t1, t2, c1, c2

MCThreads == {t1, t2}
MCConns == {c1, c2}

=============================================================================
