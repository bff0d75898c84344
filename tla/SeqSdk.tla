--------------------------------- MODULE SeqSdk ---------------------------------
(***************************************************************************)
(* The client library of the sequence server: src/src/sdk/seq_sdk.  Threads *)
(* of an application call GetSequence; ids come out of ranges kept for each *)
(* name, which are fetched by the calling thread when there are none and by *)
(* the one thread of a pool when few are left.  A request goes to one of    *)
(* the configured hosts and is tried again at another when that one fails.  *)
(*                                                                         *)
(* The hosts are external: they take ids off a cursor, as SeqServer does,   *)
(* and may fail or keep silent at any point.  Ids are counted in steps.     *)
(***************************************************************************)
EXTENDS Integers, Sequences, FiniteSets, FiniteSetsExt, SequencesExt

CONSTANTS
  Caller, Pool,    \* application threads, the thread of the pool
  Name, Host,
  Url,             \* server urls: sequences over Host and Bad
  Bad,             \* an entry that is no ip:port
  ConnectTimeout, Timeout, FusingTime,   \* seconds: 4, 60, 60
  ClientCache, ClientAlertDiff,  \* of the row, as the server answers them
  Factor,          \* the server rounds a count above 1 up to a multiple of it
  Calls,           \* bound: calls of the process
  Faults,          \* bound: failures of any kind
  None

ASSUME SeqSdkAssumption ==
  /\ Pool \notin Caller /\ None \notin Caller \cup {Pool}
  /\ None \notin [value : Nat, count : Nat, cache : Nat, alert : Nat]
  /\ Url \subseteq Seq(Host \cup {Bad})
  /\ ClientCache \in Nat /\ ClientAlertDiff \in Nat /\ Factor \in Nat \ {0}
  /\ Calls \in Nat /\ Faults \in Nat

VARIABLES
  url, hosts,      \* m_server_url, m_vector_host
  fused,           \* hosts whose activeTimestamp is still to come
  mapLock, known,  \* m_map_batseq_lock, the names in m_map_batseq
  lock,            \* per name: BatSeqAtrr::lock,
  deque, total,    \*   deque_seq, total_count,
  cache, alert,    \*   client_cache, client_alert_diff,
  pulling,         \*   is_pulling
  tasks,           \* tasks of the pool not yet taken
  pc, name, host,  \* per thread: control, what it asks for, and where
  ask, answer,     \*   the count it asks for, the response it has
  calls,           \* calls still to be made
  cursor,          \* the hosts: next id, per name
  issued,          \* history: ids returned to the application
  faults           \* history: failures

vars == <<url, hosts, fused, mapLock, known, lock, deque, total, cache, alert, pulling,
          tasks, pc, name, host, ask, answer, calls, cursor, issued, faults>>
config   == <<url, hosts>>
batch    == <<deque, total, cache, alert, pulling>>
request  == <<name, host, ask>>

Thread == Caller \cup {Pool}
Goto(t, l) == pc' = [pc EXCEPT ![t] = l]
Fault == faults < Faults /\ faults' = faults + 1

(* A response: count ids from value on, and what the row says of caching.   *)
Response(v, n) == [value |-> v, count |-> n,
                   cache |-> ClientCache, alert |-> ClientAlertDiff]
ErrorResponse == [value |-> 0, count |-> 0, cache |-> 0, alert |-> 0]
Ids(r) == r.value .. r.value + r.count - 1

-----------------------------------------------------------------------------
(* SetServerUrl: not while ids are asked for; m_vector_host has no lock.    *)

Hosts(u) == LET n == SelectInSeq(u, LAMBDA e : e = Bad)
            IN  ToSet(IF n = 0 THEN u ELSE SubSeq(u, 1, n - 1))

SetServerUrl(u) ==
  /\ \A t \in Thread : pc[t] = "idle" /\ tasks = {}
  /\ u # <<>> /\ u # url
  /\ hosts' = Hosts(u)
  /\ fused' = {}
  /\ url' = IF Contains(u, Bad) THEN url ELSE u
  /\ UNCHANGED <<mapLock, known, lock, batch, tasks, pc, request, answer, calls, cursor,
                 issued, faults>>

-----------------------------------------------------------------------------
(* HttpRequest, by any thread: pc select, connect, send, wait, done.       *)

FuseAll(t, took) == fused' = hosts       \* defect: every host is fused

(* The fuse starts before the request: one that took FusingTime or longer   *)
(* finds its host selectable again.                                        *)
Fuse(t, took) == fused' = IF took < FusingTime THEN fused \cup {host[t]} ELSE fused

(* SelectValidHost; with all of them fused the request fails.               *)
SelectValidHost(t) ==
  /\ pc[t] = "select"
  /\ \/ \E h \in hosts \ fused : host' = [host EXCEPT ![t] = h] /\ Goto(t, "connect")
     \/ hosts \subseteq fused /\ UNCHANGED host /\ Goto(t, "done")
  /\ UNCHANGED <<config, fused, mapLock, known, lock, batch, tasks, name, ask, answer, calls,
                 cursor, issued, faults>>

(* ConnectNonBlock: connected, not (-2), or no socket (-1).                *)
Connect(t) ==
  /\ pc[t] = "connect"
  /\ \/ Goto(t, "send") /\ UNCHANGED <<fused, faults>>
     \/ Goto(t, "select") /\ Fuse(t, ConnectTimeout) /\ Fault
     \/ Goto(t, "done") /\ UNCHANGED fused /\ Fault
  /\ UNCHANGED <<config, mapLock, known, lock, batch, tasks, request, answer, calls, cursor,
                 issued>>

RoundUp(n) == ((n + Factor - 1) \div Factor) * Factor

(* The host takes the ids; its answer is on the way.                       *)
Serve(t) ==
  LET n == name[t]
      count == IF ask[t] > 1 THEN RoundUp(ask[t]) ELSE 1
  IN  /\ pc[t] = "send"
      /\ \/ /\ cursor' = [cursor EXCEPT ![n] = @ + count]
            /\ answer' = [answer EXCEPT ![t] = Response(cursor[n], count)]
            /\ UNCHANGED faults
         \/ /\ Fault
            /\ answer' = [answer EXCEPT ![t] = ErrorResponse]
            /\ UNCHANGED cursor
      /\ Goto(t, "wait")
      /\ UNCHANGED <<config, fused, mapLock, known, lock, batch, tasks, request, calls, issued>>

Receive(t) ==
  /\ pc[t] = "wait"
  /\ Goto(t, "done")
  /\ UNCHANGED <<config, fused, mapLock, known, lock, batch, tasks, request, answer, calls,
                 cursor, issued, faults>>

(* No answer in time, or the connection closed: another host, and whatever  *)
(* the first one sends is lost.                                            *)
TryAgain(t) ==
  /\ pc[t] \in {"send", "wait"} /\ Fault
  /\ \E took \in {0, Timeout} : Fuse(t, took)
  /\ answer' = [answer EXCEPT ![t] = None]
  /\ Goto(t, "select")
  /\ UNCHANGED <<config, mapLock, known, lock, batch, tasks, request, calls, cursor, issued>>

(* HttpRequest reads response.errorCode of a variable it never sets: what   *)
(* came may count as a failure.                                            *)
Misread(t) ==
  /\ pc[t] = "done" /\ answer[t] # None /\ Fault
  /\ answer' = [answer EXCEPT ![t] = None]
  /\ UNCHANGED <<config, fused, mapLock, known, lock, batch, tasks, pc, request, calls, cursor,
                 issued>>

TimePasses(h) ==
  /\ h \in fused
  /\ fused' = fused \ {h}
  /\ UNCHANGED <<config, mapLock, known, lock, batch, tasks, pc, request, answer, calls, cursor,
                 issued, faults>>

HttpRequest(t) == \/ SelectValidHost(t) \/ Connect(t) \/ Serve(t) \/ Receive(t)
                  \/ TryAgain(t)

-----------------------------------------------------------------------------
(* GetSequence                                                             *)

Return(n, v) ==
  issued' = [issued EXCEPT ![n] = IF v = 0 THEN @ ELSE @ \cup {v}]

Call(t, n) ==
  /\ pc[t] = "idle" /\ t \in Caller /\ calls > 0
  /\ calls' = calls - 1
  /\ name' = [name EXCEPT ![t] = n]
  /\ Goto(t, "find")
  /\ UNCHANGED <<config, fused, mapLock, known, lock, batch, tasks, host, ask, answer, cursor,
                 issued, faults>>

(* A name asked for the first time: the map stays locked for the request.  *)
Find(t) ==
  /\ pc[t] = "find" /\ mapLock = None
  /\ ask' = [ask EXCEPT ![t] = 1]
  /\ IF name[t] \in known THEN Goto(t, "enter") /\ UNCHANGED mapLock
     ELSE Goto(t, "select") /\ mapLock' = t
  /\ UNCHANGED <<config, fused, known, lock, batch, tasks, name, host, answer, calls, cursor,
                 issued, faults>>

PoppedEarly(d) ==                       \* defect: the last id is taken for none
  IF d # <<>> /\ Head(d).count <= 1 THEN Tail(d) ELSE d

(* Under the lock of the name.  One spent response goes; what comes next is *)
(* used whatever it holds.                                                 *)
Popped(d) == IF d # <<>> /\ Head(d).count <= 0 THEN Tail(d) ELSE d

Fetch(t) ==
  LET n == name[t]
  IN  /\ pc[t] = "enter" /\ lock[n] = None /\ Popped(deque[n]) = <<>>
      /\ lock' = [lock EXCEPT ![n] = t]
      /\ deque' = [deque EXCEPT ![n] = <<>>]
      /\ ask' = [ask EXCEPT ![t] = IF cache[n] > 0 THEN cache[n] ELSE 1]
      /\ Goto(t, "select")
      /\ UNCHANGED <<config, fused, mapLock, known, total, cache, alert, pulling, tasks, name,
                     host, answer, calls, cursor, issued, faults>>

UsedTwice(r) == [r EXCEPT !.count = @ - 1]   \* defect: the same value again

Used(r) == [r EXCEPT !.value = @ + 1, !.count = @ - 1]

WantsMore(n) == total'[n] <= alert[n] /\ ~pulling[n] /\ cache[n] > 0

Take(t) ==
  LET n == name[t]
      d == Popped(deque[n])
  IN  /\ pc[t] = "enter" /\ lock[n] = None /\ d # <<>>
      /\ deque' = [deque EXCEPT ![n] = <<Used(Head(d))>> \o Tail(d)]
      /\ total' = [total EXCEPT ![n] = @ - 1]
      /\ Return(n, Head(d).value)
      /\ pulling' = [pulling EXCEPT ![n] = @ \/ WantsMore(n)]
      /\ tasks' = IF WantsMore(n) THEN tasks \cup {n} ELSE tasks
      /\ Goto(t, "idle")
      /\ UNCHANGED <<config, fused, mapLock, known, lock, cache, alert, request, answer, calls,
                     cursor, faults>>

Valid(t) == answer[t] # None /\ answer[t].value # 0

FinishFirstLocked(t) ==                 \* defect: failed with the map locked
  LET n == name[t]
      r == answer[t]
  IN  /\ pc[t] = "done" /\ mapLock = t
      /\ mapLock' = IF Valid(t) THEN None ELSE t
      /\ known' = IF Valid(t) THEN known \cup {n} ELSE known
      /\ cache' = [cache EXCEPT ![n] = IF Valid(t) THEN r.cache ELSE @]
      /\ alert' = [alert EXCEPT ![n] = IF Valid(t) THEN r.alert ELSE @]
      /\ Return(n, IF Valid(t) THEN r.value ELSE 0)
      /\ answer' = [answer EXCEPT ![t] = None]
      /\ Goto(t, "idle")
      /\ UNCHANGED <<config, fused, lock, deque, total, pulling, tasks, request, calls, cursor,
                     faults>>

(* The request of a calling thread is done: for a new name,                *)
FinishFirst(t) ==
  LET n == name[t]
      r == answer[t]
  IN  /\ pc[t] = "done" /\ mapLock = t
      /\ mapLock' = None
      /\ known' = IF Valid(t) THEN known \cup {n} ELSE known
      /\ cache' = [cache EXCEPT ![n] = IF Valid(t) THEN r.cache ELSE @]
      /\ alert' = [alert EXCEPT ![n] = IF Valid(t) THEN r.alert ELSE @]
      /\ Return(n, IF Valid(t) THEN r.value ELSE 0)
      /\ answer' = [answer EXCEPT ![t] = None]
      /\ Goto(t, "idle")
      /\ UNCHANGED <<config, fused, lock, deque, total, pulling, tasks, request, calls, cursor,
                     faults>>

(* or because there were none left.                                        *)
FinishFetch(t) ==
  LET n == name[t]
      r == answer[t]
  IN  /\ pc[t] = "done" /\ t \in Caller /\ lock[n] = t
      /\ lock' = [lock EXCEPT ![n] = None]
      /\ IF Valid(t)
         THEN /\ cache' = [cache EXCEPT ![n] = r.cache]
              /\ alert' = [alert EXCEPT ![n] = r.alert]
              /\ deque' = [deque EXCEPT ![n] = IF r.count > 1 THEN Append(@, Used(r)) ELSE @]
              /\ total' = [total EXCEPT ![n] = IF r.count > 1 THEN r.count - 1 ELSE @]
              /\ Return(n, r.value)
         ELSE UNCHANGED <<cache, alert, deque, total, issued>>
      /\ answer' = [answer EXCEPT ![t] = None]
      /\ Goto(t, "idle")
      /\ UNCHANGED <<config, fused, mapLock, known, pulling, tasks, request, calls, cursor,
                     faults>>

-----------------------------------------------------------------------------
(* ThreadWorkerImp: the pool fetches ahead.                                *)

TakeTask(n) ==
  /\ pc[Pool] = "idle" /\ n \in tasks
  /\ tasks' = tasks \ {n}
  /\ name' = [name EXCEPT ![Pool] = n]
  /\ ask' = [ask EXCEPT ![Pool] = cache[n]]
  /\ Goto(Pool, "select")
  /\ UNCHANGED <<config, fused, mapLock, known, lock, batch, host, answer, calls, cursor,
                 issued, faults>>

(* A host's error is kept as if it were a range of no ids.                 *)
Prefetched(n, r) ==
  /\ pulling' = [pulling EXCEPT ![n] = FALSE]
  /\ IF r = None THEN UNCHANGED <<deque, total, cache, alert>>
     ELSE /\ deque' = [deque EXCEPT ![n] = Append(@, r)]
          /\ total' = [total EXCEPT ![n] = @ + r.count]
          /\ cache' = [cache EXCEPT ![n] = r.cache] /\ alert' = [alert EXCEPT ![n] = r.alert]

FinishPrefetch ==
  LET n == name[Pool]
  IN  /\ pc[Pool] = "done" /\ lock[n] = None
      /\ Prefetched(n, answer[Pool])
      /\ answer' = [answer EXCEPT ![Pool] = None]
      /\ Goto(Pool, "idle")
      /\ UNCHANGED <<config, fused, mapLock, known, lock, tasks, request, calls, cursor, issued,
                     faults>>

-----------------------------------------------------------------------------
Init ==
  /\ url = <<>> /\ hosts = {} /\ fused = {}
  /\ mapLock = None /\ known = {}
  /\ lock = [n \in Name |-> None]
  /\ deque = [n \in Name |-> <<>>] /\ total = [n \in Name |-> 0]
  /\ cache = [n \in Name |-> 0] /\ alert = [n \in Name |-> 0]
  /\ pulling = [n \in Name |-> FALSE]
  /\ tasks = {}
  /\ pc = [t \in Thread |-> "idle"]
  /\ name \in [Thread -> Name] /\ name = [t \in Thread |-> CHOOSE n \in Name : TRUE]
  /\ host = [t \in Thread |-> None]
  /\ ask = [t \in Thread |-> 0]
  /\ answer = [t \in Thread |-> None]
  /\ calls = Calls
  /\ cursor = [n \in Name |-> 1]
  /\ issued = [n \in Name |-> {}]
  /\ faults = 0

GetSequence(t) == Find(t) \/ Fetch(t) \/ Take(t) \/ FinishFirst(t) \/ FinishFetch(t)

ThreadWorker == FinishPrefetch \/ \E n \in Name : TakeTask(n)

Next ==
  \/ \E u \in Url : SetServerUrl(u)
  \/ \E t \in Caller, n \in Name : Call(t, n)
  \/ \E t \in Caller : GetSequence(t)
  \/ \E t \in Thread : HttpRequest(t) \/ Misread(t)
  \/ ThreadWorker
  \/ \E h \in Host : TimePasses(h)

Spec == Init /\ [][Next]_vars

(* Every thread runs on, and so do the hosts.                              *)
FairSpec == /\ Spec
            /\ \A t \in Caller : WF_vars(GetSequence(t))
            /\ \A t \in Thread : WF_vars(HttpRequest(t))
            /\ WF_vars(ThreadWorker)

-----------------------------------------------------------------------------
(* Properties *)

(* The variables stay in their ranges.                                     *)
TypeOK ==
  /\ url \in Url \cup {<<>>} /\ hosts \subseteq Host /\ fused \subseteq hosts
  /\ mapLock \in Caller \cup {None} /\ known \subseteq Name
  /\ lock \in [Name -> Caller \cup {None}]
  /\ total \in [Name -> Int] /\ pulling \in [Name -> BOOLEAN]
  /\ \A n \in Name : cache[n] \in {0, ClientCache} /\ alert[n] \in {0, ClientAlertDiff}
  /\ tasks \subseteq known
  /\ pc \in [Thread -> {"idle", "find", "enter", "select", "connect", "send", "wait", "done"}]
  /\ name \in [Thread -> Name] /\ host \in [Thread -> Host \cup {None}]
  /\ ask \in [Thread -> Nat] /\ calls \in 0 .. Calls
  /\ cursor \in [Name -> Nat] /\ faults \in 0 .. Faults

(* The ids a process holds.                                                *)
Answered(n) == {t \in Thread : name[t] = n /\ answer[t] # None}
Queued(n) == UNION {Ids(r) : r \in ToSet(deque[n])}
Received(n) == UNION {Ids(answer[t]) : t \in Answered(n)}
Live(n) == Queued(n) \cup Received(n)

(* Without a failure no id is lost: each one taken off the cursor was       *)
(* returned or will be.                                                    *)
NoneLost == faults = 0 => \A n \in Name : 1 .. cursor[n] - 1 = issued[n] \cup Live(n)

(* A request gives up only when every host has failed: one that answers is  *)
(* found, whichever fail meanwhile.                                        *)
OneHostEnough ==
  [][\A t \in Thread : pc[t] = "select" /\ pc'[t] = "done" => Cardinality(hosts) <= faults]_vars

(* The library is a ledger as the server is one (SeqLedger), for each name. *)
Ledger(n) == INSTANCE SeqLedger WITH cursor <- cursor[n], live <- Live(n),
                                     issued <- issued[n]
LedgerSpec ==
  /\ \A n \in Name : Ledger(n)!Init
  /\ [][\A n \in Name : [Ledger(n)!Next]_(Ledger(n)!ledger)]_vars

(* A call returns, with an id or 0, though locks are kept for requests that *)
(* are tried again and again.                                              *)
Returns == \A t \in Caller : pc[t] = "find" ~> pc[t] = "idle"

=============================================================================
