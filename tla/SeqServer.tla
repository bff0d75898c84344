------------------------------ MODULE SeqServer ------------------------------
(***************************************************************************)
(* The sequence centre (src/src/plugin/sequence/plugin_output): forked UHP *)
(* processes hand out the ids of one named sequence.  Each keeps in memory *)
(* ranges of ids pulled from the row of that name in table bs_seq_rule: one *)
(* range for single requests (m_map_seq), one prefetched by its thread pool *)
(* (m_map_seq_next), and one per rounded count for batches (m_map_batseq). *)
(* A process can die at any moment and is forked again with empty maps.    *)
(*                                                                         *)
(* A range is [cur, max): the next id to hand out and the first id that is *)
(* not the process's.  Locks are the control points that hold them: the map *)
(* locks while a name is loaded, an entry's lock while it is refilled.     *)
(***************************************************************************)
EXTENDS Integers, FiniteSets

CONSTANTS
  Server,         \* the forked worker processes
  Thread,         \* threads of a process's HTTP pool, which run Doworker
  Worker,         \* threads of the plugin's own pool, which prefetch
  Count,          \* values of "count" a request carries
  BatchFactor,    \* const int factor of GetBatSequence (10 in the code)
  Rule,           \* configurations the row can be given (without cur_val)
  StartVal,       \* cur_val of the row when the system starts
  Modulus,        \* 2^64: ids are unsigned long long
  CommitMayFail,  \* may Commit() fail?  its result is not looked at
  TaskMayFail,    \* may threadpool_addTask fail?
  NoRange         \* absence of a map entry

VARIABLES
  cursor, rule, rowLock,        \* the row: cur_val, the other columns, its lock
  entry, next, queued, bat,     \* per process: the maps and the pool's queue
  pc, count, read,              \* per thread: control, request, row as selected
  got,                          \* per pool thread: the range it has pulled
  reply,                        \* per thread: the ids of the reply being sent
  issued                        \* ids clients have received (history)

memVars   == <<entry, next, queued, bat>>
vars      == <<cursor, rule, rowLock, entry, next, queued, bat,
               pc, count, read, got, reply, issued>>

Proc == Thread \cup Worker
Free == <<>>                    \* rowLock when no transaction holds the row

(* Control points.  The processor of a request or of a prefetch waits for  *)
(* the row at a point of Waiting and owns it at the matching point of      *)
(* Selected.                                                               *)
Waiting  == {"load", "pull", "batLoad", "batPull", "fetch"}
Selected == {"load!", "pull!", "batLoad!", "batPull!", "fetch!"}
ThreadPc == {"idle", "atEntry", "atBat", "load", "pull", "batLoad", "batPull",
             "load!", "pull!", "batLoad!", "batPull!", "reply"}
WorkerPc == {"idle", "fetch", "fetch!", "store", "failed"}

AtRow == [load |-> "load!", pull |-> "pull!", batLoad |-> "batLoad!",
          batPull |-> "batPull!", fetch |-> "fetch!"]

-----------------------------------------------------------------------------
(* Arithmetic of unsigned long long.                                       *)
UAdd(a, b) == IF a + b < Modulus THEN a + b ELSE a + b - Modulus
USub(a, b) == IF b <= a THEN a - b ELSE a - b + Modulus

RoundUp(n) == ((n + BatchFactor - 1) \div BatchFactor) * BatchFactor
BatchCount == {RoundUp(n) : n \in Count \ {1}}

Ids(v, n, step) == {v + i * step : i \in 0 .. n - 1}   \* what a reply covers
Span(r) == IF r = NoRange THEN {} ELSE r.cur .. r.max - 1

ASSUME RuleAssumption ==
  /\ BatchFactor \in Nat \ {0}
  /\ Count \subseteq Nat \ {0}
  /\ Thread \cap Worker = {}
  /\ StartVal \in Nat
  /\ Modulus \in Nat \ {0}
  /\ CommitMayFail \in BOOLEAN
  /\ TaskMayFail \in BOOLEAN
  /\ \A r \in Rule : /\ r.min \in Nat /\ r.max \in Nat
                     /\ r.step \in Nat \ {0} /\ r.cache \in Nat \ {0}
                     /\ r.alert \in Nat /\ r.status \in Nat
                     /\ r.batchCache \in Nat /\ r.batchFetch \in Nat \ {0}
                     /\ r.cycle \in BOOLEAN

(* Contents of the maps.                                                   *)
RangeRec == [cur : Nat, max : Nat, step : Nat \ {0}, alert : Nat, status : Nat]
EntryRec == [cur : Nat, max : Nat, step : Nat \ {0}, alert : Nat, status : Nat,
             pulling : BOOLEAN]
BatRec   == [status : Nat, cache : Nat, fetch : {r.batchFetch : r \in Rule},
             map : [BatchCount -> RangeRec \cup {NoRange}]]

ASSUME NoRangeAssumption == NoRange \notin RangeRec \cup EntryRec \cup BatRec

-----------------------------------------------------------------------------
(* PullOneSeqAtrr's arithmetic.  n is cache, or batCount when positive.    *)
Target(c, r, n)  == UAdd(c, r.step * n)
OverMax(c, r, n) == Target(c, r, n) > r.max
NewCursor(c, r, n) ==
  IF OverMax(c, r, n) THEN UAdd(r.min, r.step * n) ELSE Target(c, r, n)

(* The range the call leaves in its SeqAtrr: from the OLD cur_val even when *)
(* the new one has been set back to the minimum.                           *)
Pulled(c, r, n) ==
  [cur |-> c, max |-> NewCursor(c, r, n), step |-> r.step,
   alert |-> r.alert, status |-> r.status]

-----------------------------------------------------------------------------
(* Locks, seen through the control points that hold them.                  *)
MapFree(s)      == \A t \in Thread : pc[s][t] \notin {"load", "load!"}
EntryFreeLate(s) ==             \* defect: the prefetch locks the entry twice
  /\ \A t \in Thread : pc[s][t] \notin {"pull", "pull!"}
  /\ \A w \in Worker : pc[s][w] \notin {"fetch", "fetch!", "failed"}
EntryFree(s)    == \A t \in Thread : pc[s][t] \notin {"pull", "pull!"}
BatMapFree(s)   == \A t \in Thread : pc[s][t] \notin {"batLoad", "batLoad!"}
BatEntryFree(s) == \A t \in Thread : pc[s][t] \notin {"batPull", "batPull!"}

Goto(s, p, l) == pc' = [pc EXCEPT ![s][p] = l]

(* DoSequence's end: a value of 0 is answered with an error, whatever it   *)
(* cost; any other is sent.                                                *)
Answer(s, t, v, ids) ==
  /\ count' = [count EXCEPT ![s][t] = 1]
  /\ IF v = 0
     THEN Goto(s, t, "idle") /\ UNCHANGED reply
     ELSE Goto(s, t, "reply") /\ reply' = [reply EXCEPT ![s][t] = ids]

(* Hand out the next id of range r, which becomes the map's entry with     *)
(* pulling flag pl (GetSequence, its last two assignments).                *)
HandOut(s, t, r, pl) ==
  /\ entry' = [entry EXCEPT ![s] =
       [cur |-> UAdd(r.cur, r.step), max |-> r.max, step |-> r.step,
        alert |-> r.alert, status |-> r.status, pulling |-> pl]]
  /\ Answer(s, t, r.cur, {r.cur})

-----------------------------------------------------------------------------
(* GetSequence *)

(* Under m_map_seq_lock: find the name; a disabled one is refused.         *)
Lookup(s, t) ==
  /\ pc[s][t] = "idle" /\ 1 \in Count
  /\ MapFree(s)
  /\ \/ entry[s] = NoRange /\ Goto(s, t, "load")
     \/ entry[s] # NoRange /\ entry[s].status = 0 /\ Goto(s, t, "atEntry")
  /\ count' = [count EXCEPT ![s][t] = 1]
  /\ UNCHANGED <<cursor, rule, rowLock, memVars, read, got, reply, issued>>

AtEntry(s, t) == pc[s][t] = "atEntry" /\ EntryFree(s)

ExhaustedLate(r) == r.max < r.cur              \* defect: one id too late
Exhausted(r) == r.max = r.cur
AtAlert(r)   == USub(r.max, r.cur) <= r.alert

(* Defect: the step of the old range goes on being used.                   *)
SwapNextOldStep(s, t) ==
  /\ AtEntry(s, t)
  /\ Exhausted(entry[s]) /\ next[s] # NoRange
  /\ HandOut(s, t, [next[s] EXCEPT !.step = entry[s].step], FALSE)
  /\ next' = [next EXCEPT ![s] = NoRange]
  /\ UNCHANGED <<cursor, rule, rowLock, queued, bat, read, got, issued>>

(* The range is used up and the prefetched one is there: take it over.     *)
SwapNext(s, t) ==
  /\ AtEntry(s, t)
  /\ Exhausted(entry[s]) /\ next[s] # NoRange
  /\ HandOut(s, t, next[s], FALSE)
  /\ next' = [next EXCEPT ![s] = NoRange]
  /\ UNCHANGED <<cursor, rule, rowLock, queued, bat, read, got, issued>>

(* The range is used up and nothing is prefetched: go to the database with *)
(* the entry locked.                                                       *)
StartPull(s, t) ==
  /\ AtEntry(s, t)
  /\ Exhausted(entry[s]) /\ next[s] = NoRange
  /\ Goto(s, t, "pull")
  /\ UNCHANGED <<cursor, rule, rowLock, memVars, count, read, got, reply, issued>>

(* Ids are left; no prefetch is due.                                       *)
Serve(s, t) ==
  /\ AtEntry(s, t)
  /\ ~Exhausted(entry[s])
  /\ AtAlert(entry[s]) => entry[s].pulling
  /\ HandOut(s, t, entry[s], entry[s].pulling)
  /\ UNCHANGED <<cursor, rule, rowLock, next, queued, bat, read, got, issued>>

(* Ids are left, few of them: queue a prefetch, then hand out.             *)
ServeAndPrefetch(s, t) ==
  /\ AtEntry(s, t)
  /\ ~Exhausted(entry[s])
  /\ AtAlert(entry[s]) /\ ~entry[s].pulling
  /\ queued' = [queued EXCEPT ![s] = @ + 1]
  /\ HandOut(s, t, entry[s], TRUE)
  /\ UNCHANGED <<cursor, rule, rowLock, next, bat, read, got, issued>>

(* The same when threadpool_addTask fails: "return -1" is the unsigned     *)
(* value 2^64 - 1, which passes DoSequence's test seq_val <= 0, and        *)
(* is_pulling stays set.                                                   *)
PrefetchRefused(s, t) ==
  /\ TaskMayFail
  /\ AtEntry(s, t)
  /\ ~Exhausted(entry[s])
  /\ AtAlert(entry[s]) /\ ~entry[s].pulling
  /\ entry' = [entry EXCEPT ![s].pulling = TRUE]
  /\ Answer(s, t, Modulus - 1, {Modulus - 1})
  /\ UNCHANGED <<cursor, rule, rowLock, next, queued, bat, read, got, issued>>

-----------------------------------------------------------------------------
(* GetBatSequence *)

(* Under m_map_batseq_lock, with the count rounded up.                     *)
BatLookup(s, t) ==
  /\ pc[s][t] = "idle"
  /\ BatMapFree(s)
  /\ \E c \in BatchCount : count' = [count EXCEPT ![s][t] = c]
  /\ \/ bat[s] = NoRange /\ Goto(s, t, "batLoad")
     \/ bat[s] # NoRange /\ bat[s].status = 0 /\ Goto(s, t, "atBat")
  /\ UNCHANGED <<cursor, rule, rowLock, memVars, read, got, reply, issued>>

Leftover(s, c) == bat[s].map[c]
Covers(r, c)   == r # NoRange /\ USub(r.max, r.cur) >= c * r.step

AfterOne(r, c) == [r EXCEPT !.cur = UAdd(r.cur, r.step)]   \* defect
After(r, c) == [r EXCEPT !.cur = UAdd(r.cur, c * r.step)]

(* The leftover of earlier batches of this count is enough.                *)
BatServe(s, t) ==
  LET c == count[s][t]
      r == Leftover(s, c)
  IN /\ pc[s][t] = "atBat" /\ BatEntryFree(s)
     /\ Covers(r, c)
     /\ bat' = [bat EXCEPT ![s].map[c] = After(r, c)]
     /\ Answer(s, t, r.cur, Ids(r.cur, c, r.step))
     /\ UNCHANGED <<cursor, rule, rowLock, entry, next, queued, read, got, issued>>

StartBatPull(s, t) ==
  /\ pc[s][t] = "atBat" /\ BatEntryFree(s)
  /\ ~Covers(Leftover(s, count[s][t]), count[s][t])
  /\ Goto(s, t, "batPull")
  /\ UNCHANGED <<cursor, rule, rowLock, memVars, count, read, got, reply, issued>>

-----------------------------------------------------------------------------
(* The pool: ThreadWorker runs ThreadWorkerImp.                            *)

(* Defect: a thread woken up does not look whether there is a task.        *)
StartFetchEmpty(s, w) ==
  /\ pc[s][w] = "idle"
  /\ queued' = [queued EXCEPT ![s] = @ - 1]
  /\ Goto(s, w, "fetch")
  /\ UNCHANGED <<cursor, rule, rowLock, entry, next, bat, count, read, got, reply, issued>>

StartFetch(s, w) ==
  /\ pc[s][w] = "idle" /\ queued[s] > 0
  /\ queued' = [queued EXCEPT ![s] = @ - 1]
  /\ Goto(s, w, "fetch")
  /\ UNCHANGED <<cursor, rule, rowLock, entry, next, bat, count, read, got, reply, issued>>

(* Success: the pulled range goes into m_map_seq_next, under its lock.     *)
StoreNext(s, w) ==
  /\ pc[s][w] = "store"
  /\ next' = [next EXCEPT ![s] = got[s][w]]
  /\ got'  = [got EXCEPT ![s][w] = NoRange]
  /\ Goto(s, w, "idle")
  /\ UNCHANGED <<cursor, rule, rowLock, entry, queued, bat, count, read, reply, issued>>

(* Defect: is_pulling stays set.                                           *)
FetchFailedStuck(s, w) ==
  /\ pc[s][w] = "failed" /\ EntryFree(s)
  /\ Goto(s, w, "idle")
  /\ UNCHANGED <<cursor, rule, rowLock, memVars, count, read, got, reply, issued>>

(* Failure: under the entry's lock, let the next request try again.        *)
FetchFailed(s, w) ==
  /\ pc[s][w] = "failed" /\ EntryFree(s)
  /\ entry' = [entry EXCEPT ![s].pulling = FALSE]
  /\ Goto(s, w, "idle")
  /\ UNCHANGED <<cursor, rule, rowLock, next, queued, bat, count, read, got, reply, issued>>

-----------------------------------------------------------------------------
(* PullOneSeqAtrr: one transaction on the row.                             *)

(* select ... for update                                                   *)
SelectRow(s, p) ==
  /\ pc[s][p] \in Waiting
  /\ rowLock = Free
  /\ rowLock' = <<s, p>>
  /\ read' = [read EXCEPT ![s][p] = cursor]
  /\ Goto(s, p, AtRow[pc[s][p]])
  /\ UNCHANGED <<cursor, rule, memVars, count, got, reply, issued>>

(* How many ids the transaction takes: batCount when positive, else cache. *)
Fetch(s) == IF Cardinality({c \in BatchCount : bat[s].map[c] # NoRange})
                 > bat[s].cache
            THEN 1 ELSE bat[s].fetch

Wanted(s, p) ==
  IF pc[s][p] \in {"load!", "pull!", "fetch!"} THEN rule.cache
  ELSE IF pc[s][p] = "batLoad!" THEN 3 * count[s][p]
       ELSE Fetch(s) * count[s][p]

Refused(s, p) == ~rule.cycle /\ OverMax(read[s][p], rule, Wanted(s, p))

(* update, then Commit.  The caller goes on with the range it computed     *)
(* also when the commit did not take place.                                *)
CommitRow(s, p) ==
  /\ rowLock = <<s, p>>
  /\ pc[s][p] \in Selected
  /\ ~Refused(s, p)
  /\ rowLock' = Free
  /\ read' = [read EXCEPT ![s][p] = 0]
  /\ \/ cursor' = NewCursor(read[s][p], rule, Wanted(s, p))
     \/ CommitMayFail /\ UNCHANGED cursor

Taken(s, p) == Pulled(read[s][p], rule, Wanted(s, p))

(* First request for the name: the map gets its entry, less the first id.  *)
FinishLoad(s, t) ==
  /\ pc[s][t] = "load!" /\ CommitRow(s, t)
  /\ HandOut(s, t, Taken(s, t), FALSE)
  /\ UNCHANGED <<rule, next, queued, bat, got, issued>>

(* Defect: a synchronous refill clears is_pulling.                         *)
FinishPullResets(s, t) ==
  /\ pc[s][t] = "pull!" /\ CommitRow(s, t)
  /\ HandOut(s, t, Taken(s, t), FALSE)
  /\ UNCHANGED <<rule, next, queued, bat, got, issued>>

(* Synchronous refill; is_pulling is not touched.                          *)
FinishPull(s, t) ==
  /\ pc[s][t] = "pull!" /\ CommitRow(s, t)
  /\ HandOut(s, t, Taken(s, t), entry[s].pulling)
  /\ UNCHANGED <<rule, next, queued, bat, got, issued>>

FinishFetch(s, w) ==
  /\ pc[s][w] = "fetch!" /\ CommitRow(s, w)
  /\ got' = [got EXCEPT ![s][w] = Taken(s, w)]
  /\ Goto(s, w, "store")
  /\ UNCHANGED <<rule, memVars, count, reply, issued>>

(* PullBatSeqAtrr with no entry: it is created, with what this batch leaves. *)
FinishBatLoad(s, t) ==
  LET c == count[s][t]
      r == Taken(s, t)
  IN /\ pc[s][t] = "batLoad!" /\ CommitRow(s, t)
     /\ bat' = [bat EXCEPT ![s] =
          [status |-> r.status, cache |-> rule.batchCache, fetch |-> rule.batchFetch,
           map |-> [d \in BatchCount |-> IF d = c THEN After(r, c) ELSE NoRange]]]
     /\ Answer(s, t, r.cur, Ids(r.cur, c, r.step))
     /\ UNCHANGED <<rule, entry, next, queued, got, issued>>

(* PullBatSeqAtrr with an entry: what this batch leaves is kept only while *)
(* the map holds fewer counts than batch_cache, and dropped otherwise.     *)
FinishBatPull(s, t) ==
  LET c    == count[s][t]
      r    == Taken(s, t)
      keep == Cardinality({d \in BatchCount : bat[s].map[d] # NoRange})
                < rule.batchCache
  IN /\ pc[s][t] = "batPull!" /\ CommitRow(s, t)
     /\ bat' = [bat EXCEPT ![s] =
          [status |-> r.status, cache |-> rule.batchCache, fetch |-> rule.batchFetch,
           map |-> IF keep THEN [bat[s].map EXCEPT ![c] = After(r, c)]
                           ELSE bat[s].map]]
     /\ Answer(s, t, r.cur, Ids(r.cur, c, r.step))
     /\ UNCHANGED <<rule, entry, next, queued, got, issued>>

(* No connection, a failing statement, a lock wait that times out, or the  *)
(* maximum reached: roll back and give up.                                 *)
FailRow(s, p) ==
  /\ pc[s][p] \in Waiting \cup Selected
  /\ rowLock' = IF rowLock = <<s, p>> THEN Free ELSE rowLock
  /\ Goto(s, p, IF p \in Worker THEN "failed" ELSE "idle")
  /\ read' = [read EXCEPT ![s][p] = 0]
  /\ count' = [count EXCEPT ![s][p] = 1]
  /\ UNCHANGED <<cursor, rule, memVars, got, reply, issued>>

-----------------------------------------------------------------------------
(* The reply reaches the client.                                           *)
Deliver(s, t) ==
  /\ pc[s][t] = "reply"
  /\ issued' = issued \cup reply[s][t]
  /\ reply' = [reply EXCEPT ![s][t] = {}]
  /\ Goto(s, t, "idle")
  /\ UNCHANGED <<cursor, rule, rowLock, memVars, count, read, got>>

(* A process dies (killed by the monitor, exit(7), a fault); the monitor   *)
(* forks it again.  The database rolls its transaction back.               *)
Crash(s) ==
  /\ entry'  = [entry EXCEPT ![s] = NoRange]
  /\ next'   = [next EXCEPT ![s] = NoRange]
  /\ queued' = [queued EXCEPT ![s] = 0]
  /\ bat'    = [bat EXCEPT ![s] = NoRange]
  /\ pc'     = [pc EXCEPT ![s] = [p \in Proc |-> "idle"]]
  /\ got'    = [got EXCEPT ![s] = [w \in Worker |-> NoRange]]
  /\ reply'  = [reply EXCEPT ![s] = [t \in Thread |-> {}]]
  /\ count'  = [count EXCEPT ![s] = [p \in Proc |-> 1]]
  /\ read'   = [read EXCEPT ![s] = [p \in Proc |-> 0]]
  /\ rowLock' = IF \E p \in Proc : rowLock = <<s, p>> THEN Free ELSE rowLock
  /\ UNCHANGED <<cursor, rule, issued>>

(* The operator updates the row's configuration from the console.          *)
Reconfigure ==
  /\ rowLock = Free
  /\ rule' \in Rule
  /\ UNCHANGED <<cursor, rowLock, memVars, pc, count, read, got, reply, issued>>

-----------------------------------------------------------------------------
Init ==
  /\ cursor = StartVal
  /\ rule \in Rule
  /\ rowLock = Free
  /\ entry  = [s \in Server |-> NoRange]
  /\ next   = [s \in Server |-> NoRange]
  /\ queued = [s \in Server |-> 0]
  /\ bat    = [s \in Server |-> NoRange]
  /\ pc     = [s \in Server |-> [p \in Proc |-> "idle"]]
  /\ count  = [s \in Server |-> [p \in Proc |-> 1]]
  /\ read   = [s \in Server |-> [p \in Proc |-> 0]]
  /\ got    = [s \in Server |-> [w \in Worker |-> NoRange]]
  /\ reply  = [s \in Server |-> [t \in Thread |-> {}]]
  /\ issued = {}

ThreadStep(s, t) ==
  \/ Lookup(s, t) \/ SwapNext(s, t) \/ StartPull(s, t)
  \/ Serve(s, t) \/ ServeAndPrefetch(s, t) \/ PrefetchRefused(s, t)
  \/ BatLookup(s, t) \/ BatServe(s, t) \/ StartBatPull(s, t)
  \/ FinishLoad(s, t) \/ FinishPull(s, t)
  \/ FinishBatLoad(s, t) \/ FinishBatPull(s, t)
  \/ Deliver(s, t)

WorkerStep(s, w) ==
  \/ StartFetch(s, w) \/ FinishFetch(s, w)
  \/ StoreNext(s, w) \/ FetchFailed(s, w)

Next ==
  \/ \E s \in Server :
       \/ \E t \in Thread : ThreadStep(s, t)
       \/ \E w \in Worker : WorkerStep(s, w)
       \/ \E p \in Proc : SelectRow(s, p) \/ FailRow(s, p)
       \/ Crash(s)
  \/ Reconfigure

Spec == Init /\ [][Next]_vars
-----------------------------------------------------------------------------
(* Properties.  A holder is a place an id can be waiting in.               *)
Holder == ({"entry", "next"} \X Server \X {0})
            \cup ({"bat"} \X Server \X BatchCount)
            \cup ({"got"} \X Server \X Worker)
            \cup ({"reply"} \X Server \X Thread)

BatSpan(s, c) == IF bat[s] = NoRange THEN {} ELSE Span(bat[s].map[c])

Own(h) ==
  IF h[1] = "entry" THEN Span(entry[h[2]])
  ELSE IF h[1] = "next" THEN Span(next[h[2]])
  ELSE IF h[1] = "bat" THEN BatSpan(h[2], h[3])
  ELSE IF h[1] = "got" THEN Span(got[h[2]][h[3]])
  ELSE reply[h[2]][h[3]]

Live == UNION {Own(h) : h \in Holder}

(* The type invariant: control points and data.                            *)
PcOK ==
  /\ pc \in [Server -> [Proc -> ThreadPc \cup WorkerPc]]
  /\ \A s \in Server : /\ \A t \in Thread : pc[s][t] \in ThreadPc
                       /\ \A w \in Worker : pc[s][w] \in WorkerPc
DataOK ==
  /\ cursor \in Nat
  /\ rule \in Rule
  /\ rowLock \in (Server \X Proc) \cup {Free}
  /\ entry \in [Server -> EntryRec \cup {NoRange}]
  /\ next \in [Server -> RangeRec \cup {NoRange}]
  /\ queued \in [Server -> Nat]
  /\ bat \in [Server -> BatRec \cup {NoRange}]
  /\ count \in [Server -> [Proc -> BatchCount \cup {1}]]
  /\ read \in [Server -> [Proc -> Nat]]
  /\ got \in [Server -> [Worker -> RangeRec \cup {NoRange}]]
  /\ reply \in [Server -> [Thread -> SUBSET Nat]]
  /\ issued \subseteq Nat
TypeOK == PcOK /\ DataOK

(* The ids of the README's promise: two replies never share an id, and no  *)
(* reply carries an id a client already has, whichever processes, threads, *)
(* prefetches, batches and restarts the ids went through.                  *)
NoDuplicate ==
  \A s, q \in Server : \A t, u \in Thread :
    /\ reply[s][t] \cap issued = {}
    /\ <<s, t>> # <<q, u>> => reply[s][t] \cap reply[q][u] = {}

(* The test max_val == cur_val sees every exhaustion: no range has its next *)
(* id past its end, and the steps left land on the end exactly.            *)
Aligned(r) ==
  r # NoRange => \E k \in 0 .. r.max - r.cur : r.max = r.cur + k * r.step
EndReached == \A s \in Server : Aligned(entry[s]) /\ Aligned(next[s])

(* is_pulling means one prefetch is queued, running or waiting to be taken *)
(* over: never two (the second would overwrite a pulled range in           *)
(* m_map_seq_next and lose its ids), never none (nothing would ever be     *)
(* prefetched again) except after a refused task.                          *)
Prefetches(s) == queued[s] + Cardinality({w \in Worker : pc[s][w] # "idle"})
                   + (IF next[s] = NoRange THEN 0 ELSE 1)
Pulling(s) == entry[s] # NoRange /\ entry[s].pulling
OnePrefetch ==
  \A s \in Server :
    /\ Prefetches(s) <= IF Pulling(s) THEN 1 ELSE 0
    /\ Pulling(s) /\ Prefetches(s) = 0 => TaskMayFail

(* The process promises of SeqLedger.                                      *)
Ledger == INSTANCE SeqLedger WITH live <- Live
LedgerSpec == Ledger!Spec

(* Threads of a live process run on; pthread mutexes, InnoDB row locks and *)
(* the pool's queue let a waiting thread through eventually, and a wait for *)
(* the row ends at the latest with the lock-wait timeout.                  *)
Fairness ==
  \A s \in Server :
    /\ \A t \in Thread :
         /\ SF_vars(pc[s][t] # "idle" /\ ThreadStep(s, t))
         /\ WF_vars(SelectRow(s, t) \/ FailRow(s, t))
    /\ \A w \in Worker :
         /\ SF_vars(WorkerStep(s, w))
         /\ WF_vars(SelectRow(s, w) \/ FailRow(s, w))

FairSpec == Spec /\ Fairness

(* Every request that entered the plugin is answered (or its process dies): *)
(* the map locks, entry locks and the row lock never block one another.    *)
Answered == \A s \in Server : \A t \in Thread :
              pc[s][t] # "idle" ~> pc[s][t] = "idle"

(* A prefetch that was queued ends, with a range to take over or with      *)
(* is_pulling cleared for a retry (or its process dies).                   *)
PrefetchEnds == \A s \in Server :
                  queued[s] > 0 ~> next[s] # NoRange \/ ~Pulling(s)
=============================================================================
