------------------------------- MODULE MCSession -------------------------------
(***************************************************************************)
(* Small instances of Session.                                             *)
(***************************************************************************)
EXTENDS Session, TLC

CONSTANTS s1, s2, w1, w2

MCSessions == {s1, s2}
MCWorkers == {w1, w2}
OneWorker == {w1}
MCKeepAlive == {s1}

(* What follows the use of a freed session is not the program's to say.    *)
(* TravelSessions reads every session in the set.                          *)
BeforeMisuse == UseLive /\ \A s \in listed : mem[s] = "live"

================================================================================
