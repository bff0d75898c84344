-------------------------- MODULE SeqServer_proofs --------------------------
(***************************************************************************)
(* Theorems about SeqServer: its types, that at most one prefetch of a     *)
(* name is under way, and that no id is answered twice.                    *)
(***************************************************************************)
EXTENDS SeqServer, FiniteSetTheorems, TLAPS

-----------------------------------------------------------------------------
(* Arithmetic of ids.                                                      *)

LEMMA ProductNat == \A a, b \in Nat : a * b \in Nat
  OBVIOUS

(* unsigned long long sums stay naturals.                                  *)
LEMMA UAddNat == ASSUME NEW a \in Nat, NEW b \in Nat PROVE UAdd(a, b) \in Nat
  BY RuleAssumption DEF UAdd

LEMMA QuotientPos ==
  ASSUME NEW n \in Nat \ {0}, NEW f \in Nat \ {0}
  PROVE  (n + f - 1) \div f \in Nat \ {0}
  OBVIOUS

(* A rounded count is a positive number.                                   *)
LEMMA BatchCountPos == \A c \in BatchCount : c \in Nat \ {0}
<1> SUFFICES ASSUME NEW n \in Count PROVE RoundUp(n) \in Nat \ {0}
  BY DEF BatchCount
<1>1. n \in Nat \ {0} /\ BatchFactor \in Nat \ {0}
  BY RuleAssumption
<1> DEFINE q == (n + BatchFactor - 1) \div BatchFactor
<1>2. q \in Nat \ {0}
  BY <1>1, QuotientPos
<1> HIDE DEF q
<1>3. q * BatchFactor \in Nat \ {0}
  BY <1>1, <1>2
<1> QED BY <1>3 DEF RoundUp, q
-----------------------------------------------------------------------------
(* Type correctness.  It is not inductive alone: an action that reads a map *)
(* entry needs the entry to be there, which the control points say.        *)

HasEntry(s) == entry[s] # NoRange
NeedsEntry == {"atEntry", "pull", "pull!"}
NeedsBat   == {"atBat", "batPull", "batPull!"}
NeedsCount == NeedsBat \cup {"batLoad", "batLoad!"}

Present ==
  \A s \in Server :
    /\ \A t \in Thread : pc[s][t] \in NeedsEntry => entry[s] # NoRange
    /\ \A t \in Thread : pc[s][t] \in NeedsBat => bat[s] # NoRange
    /\ \A w \in Worker : pc[s][w] # "idle" => entry[s] # NoRange
    /\ \A w \in Worker : pc[s][w] = "store" => got[s][w] # NoRange
    /\ queued[s] > 0 => entry[s] # NoRange
    /\ \A t \in Thread : pc[s][t] \in NeedsCount => count[s][t] \in BatchCount

TInv == TypeOK /\ Present

(* The control points of the two kinds of thread.                          *)
LEMMA PcKinds ==
  ASSUME TypeOK, NEW s \in Server
  PROVE  /\ \A t \in Thread : pc[s][t] \in ThreadPc
         /\ \A w \in Worker : pc[s][w] \in WorkerPc
  BY DEF TypeOK, PcOK

(* A thread moves to control point l; the data stay well typed and nothing  *)
(* a control point needs goes away.                                        *)
LEMMA StepType ==
  ASSUME TInv, NEW s \in Server, NEW p \in Proc, NEW l,
         p \in Thread => l \in ThreadPc,
         p \in Worker => l \in WorkerPc,
         pc' = [pc EXCEPT ![s][p] = l],
         DataOK',
         \A q \in Server : entry[q] # NoRange => entry'[q] # NoRange,
         \A q \in Server : bat[q] # NoRange => bat'[q] # NoRange,
         \A q \in Server : queued'[q] > 0 => entry'[q] # NoRange,
         \A q \in Server : \A w \in Worker :
            q # s \/ w # p => got'[q][w] = got[q][w],
         \A q \in Server : \A u \in Thread :
            q # s \/ u # p => count'[q][u] = count[q][u],
         p \in Thread /\ l \in NeedsEntry => entry'[s] # NoRange,
         p \in Thread /\ l \in NeedsBat => bat'[s] # NoRange,
         p \in Thread /\ l \in NeedsCount => count'[s][p] \in BatchCount,
         p \in Worker /\ l # "idle" => entry'[s] # NoRange,
         p \in Worker /\ l = "store" => got'[s][p] # NoRange
  PROVE  TInv'
<1>1. /\ \A u \in Thread : u \in Proc
      /\ \A w \in Worker : w \in Proc
      /\ l \in ThreadPc \cup WorkerPc
  BY DEF Proc
<1>2. pc \in [Server -> [Proc -> ThreadPc \cup WorkerPc]]
  BY DEF TInv, TypeOK, PcOK
<1>3. pc' \in [Server -> [Proc -> ThreadPc \cup WorkerPc]]
  BY <1>1, <1>2
<1>4. pc'[s][p] = l
  BY <1>2
<1>5. \A q \in Server : \A r \in Proc : q # s \/ r # p => pc'[q][r] = pc[q][r]
  BY <1>2
<1>6. PcOK'
  <2> SUFFICES ASSUME NEW q \in Server
               PROVE  /\ \A u \in Thread : pc'[q][u] \in ThreadPc
                      /\ \A w \in Worker : pc'[q][w] \in WorkerPc
    BY <1>3 DEF PcOK
  <2>1. \A u \in Thread : pc'[q][u] \in ThreadPc
    BY <1>1, <1>4, <1>5, PcKinds DEF TInv
  <2>2. \A w \in Worker : pc'[q][w] \in WorkerPc
    BY <1>1, <1>4, <1>5, PcKinds DEF TInv
  <2> QED BY <2>1, <2>2
<1>7. Present'
  <2> SUFFICES ASSUME NEW q \in Server
               PROVE  Present!(q)'
    BY DEF Present
  <2>1. \A u \in Thread : pc'[q][u] \in NeedsEntry => entry'[q] # NoRange
    BY <1>1, <1>4, <1>5 DEF TInv, Present
  <2>2. \A u \in Thread : pc'[q][u] \in NeedsBat => bat'[q] # NoRange
    BY <1>1, <1>4, <1>5 DEF TInv, Present
  <2>3. \A w \in Worker : pc'[q][w] # "idle" => entry'[q] # NoRange
    BY <1>1, <1>4, <1>5 DEF TInv, Present
  <2>4. \A w \in Worker : pc'[q][w] = "store" => got'[q][w] # NoRange
    BY <1>1, <1>4, <1>5 DEF TInv, Present
  <2>5. \A u \in Thread : pc'[q][u] \in NeedsCount => count'[q][u] \in BatchCount
    BY <1>1, <1>4, <1>5 DEF TInv, Present
  <2> QED BY <2>1, <2>2, <2>3, <2>4, <2>5
<1> QED BY <1>6, <1>7 DEF TInv, TypeOK

(* DoSequence's end.                                                       *)
LEMMA AnswerType ==
  ASSUME TInv, NEW s \in Server, NEW t \in Thread, NEW v, NEW ids \in SUBSET Nat,
         Answer(s, t, v, ids)
  PROVE  /\ \/ pc' = [pc EXCEPT ![s][t] = "idle"]
            \/ pc' = [pc EXCEPT ![s][t] = "reply"]
         /\ count' \in [Server -> [Proc -> BatchCount \cup {1}]]
         /\ \A q \in Server : \A u \in Thread :
               q # s \/ u # t => count'[q][u] = count[q][u]
         /\ reply' \in [Server -> [Thread -> SUBSET Nat]]
<1>1. \/ pc' = [pc EXCEPT ![s][t] = "idle"]
      \/ pc' = [pc EXCEPT ![s][t] = "reply"]
  BY DEF Answer, Goto
<1>2. /\ count' \in [Server -> [Proc -> BatchCount \cup {1}]]
      /\ \A q \in Server : \A u \in Thread :
            q # s \/ u # t => count'[q][u] = count[q][u]
  <2>1. count \in [Server -> [Proc -> BatchCount \cup {1}]]
    BY DEF TInv, TypeOK, DataOK
  <2> QED BY <2>1 DEF Answer, Proc
<1>3. reply' \in [Server -> [Thread -> SUBSET Nat]]
  <2>1. reply \in [Server -> [Thread -> SUBSET Nat]]
    BY DEF TInv, TypeOK, DataOK
  <2>2. CASE UNCHANGED reply
    BY <2>1, <2>2
  <2>3. CASE reply' = [reply EXCEPT ![s][t] = ids]
    <3>1. [reply[s] EXCEPT ![t] = ids] \in [Thread -> SUBSET Nat]
      BY <2>1
    <3> QED BY <2>1, <2>3, <3>1
  <2> QED BY <2>2, <2>3 DEF Answer
<1> QED BY <1>1, <1>2, <1>3

(* A step of a thread of the server that leaves the pool's data alone and  *)
(* puts well typed entries in the maps.                                    *)
LEMMA ThreadStepType ==
  ASSUME TInv, NEW s \in Server, NEW t \in Thread, NEW l \in ThreadPc,
         pc' = [pc EXCEPT ![s][t] = l],
         DataOK',
         \A q \in Server : entry[q] # NoRange => entry'[q] # NoRange,
         \A q \in Server : bat[q] # NoRange => bat'[q] # NoRange,
         \A q \in Server : queued'[q] = queued[q] \/ entry'[q] # NoRange,
         UNCHANGED got,
         l \in NeedsEntry => entry'[s] # NoRange,
         l \in NeedsBat => bat'[s] # NoRange,
         \A q \in Server : \A u \in Thread :
            q # s \/ u # t => count'[q][u] = count[q][u],
         l \in NeedsCount => count'[s][t] \in BatchCount
  PROVE  TInv'
<1>1. t \in Proc /\ t \notin Worker
  BY RuleAssumption DEF Proc
<1>2. \A q \in Server : queued'[q] > 0 => entry'[q] # NoRange
  BY DEF TInv, Present
<1>3. \A q \in Server : \A w \in Worker : got'[q][w] = got[q][w]
  OBVIOUS
<1> HIDE DEF ThreadPc, WorkerPc, NeedsEntry, NeedsBat, NeedsCount
<1> QED BY <1>1, <1>2, <1>3, StepType

(* What a transaction brings back is a range.                              *)
LEMMA TakenType ==
  ASSUME TInv, NEW s \in Server, NEW p \in Proc, pc[s][p] \in Selected
  PROVE  /\ Wanted(s, p) \in Nat
         /\ Taken(s, p) \in RangeRec
         /\ NewCursor(read[s][p], rule, Wanted(s, p)) \in Nat
<1>1. rule \in Rule /\ read[s][p] \in Nat /\ count[s][p] \in Nat
  <2>1. rule \in Rule
    BY DEF TInv, TypeOK, DataOK
  <2>2. read[s][p] \in Nat
    BY DEF TInv, TypeOK, DataOK
  <2>3. count[s][p] \in BatchCount \cup {1}
    BY DEF TInv, TypeOK, DataOK
  <2> QED BY <2>1, <2>2, <2>3, BatchCountPos
<1>2. /\ rule.min \in Nat /\ rule.step \in Nat \ {0} /\ rule.cache \in Nat
      /\ rule.alert \in Nat /\ rule.status \in Nat
  BY <1>1, RuleAssumption
<1>3. pc[s][p] = "batPull!" => Fetch(s) \in Nat
  <2> SUFFICES ASSUME pc[s][p] = "batPull!" PROVE Fetch(s) \in Nat
    OBVIOUS
  <2>1. p \in Thread
    BY PcKinds DEF TInv, WorkerPc, Proc
  <2>2. bat[s] \in BatRec
    BY <2>1 DEF TInv, TypeOK, DataOK, Present, NeedsBat
  <2>3. bat[s].fetch \in Nat
    BY <2>2, RuleAssumption DEF BatRec
  <2> QED BY <2>3 DEF Fetch
<1>4. Wanted(s, p) \in Nat
  <2>1. pc[s][p] \in {"load!", "pull!", "fetch!"} => Wanted(s, p) = rule.cache
    BY DEF Wanted
  <2>2. pc[s][p] = "batLoad!" => Wanted(s, p) = 3 * count[s][p]
    BY DEF Wanted
  <2>3. pc[s][p] = "batPull!" => Wanted(s, p) = Fetch(s) * count[s][p]
    BY DEF Wanted
  <2> QED BY <1>1, <1>2, <1>3, <2>1, <2>2, <2>3, ProductNat DEF Selected
<1>5. rule.step * Wanted(s, p) \in Nat
  BY <1>2, <1>4, ProductNat
<1>6. NewCursor(read[s][p], rule, Wanted(s, p)) \in Nat
  BY <1>1, <1>2, <1>5, UAddNat DEF NewCursor, Target
<1> QED BY <1>1, <1>2, <1>4, <1>6 DEF Taken, Pulled, RangeRec
(* Handing out an id from a well typed range.                              *)
LEMMA HandOutType ==
  ASSUME TInv, NEW s \in Server, NEW t \in Thread, NEW pl \in BOOLEAN,
         NEW r \in RangeRec \cup EntryRec, HandOut(s, t, r, pl),
         cursor' \in Nat,
         rowLock' \in (Server \X Proc) \cup {Free},
         next' \in [Server -> RangeRec \cup {NoRange}],
         queued' \in [Server -> Nat],
         \A q \in Server : q # s => queued'[q] = queued[q],
         read' \in [Server -> [Proc -> Nat]],
         UNCHANGED <<rule, bat, got, issued>>
  PROVE  TInv'
<1>1. /\ r.cur \in Nat /\ r.max \in Nat /\ r.step \in Nat \ {0}
      /\ r.alert \in Nat /\ r.status \in Nat
  BY DEF RangeRec, EntryRec
<1>2. UAdd(r.cur, r.step) \in Nat
  BY <1>1, UAddNat
<1> DEFINE e == [cur |-> UAdd(r.cur, r.step), max |-> r.max, step |-> r.step,
                 alert |-> r.alert, status |-> r.status, pulling |-> pl]
<1>3. e \in EntryRec /\ e # NoRange
  BY <1>1, <1>2, NoRangeAssumption DEF EntryRec
<1>4. entry' = [entry EXCEPT ![s] = e]
  BY DEF HandOut
<1> HIDE DEF e
<1>5. entry \in [Server -> EntryRec \cup {NoRange}]
  BY DEF TInv, TypeOK, DataOK
<1>6. entry' \in [Server -> EntryRec \cup {NoRange}]
  BY <1>3, <1>4, <1>5
<1>7. \A q \in Server : /\ entry[q] # NoRange => entry'[q] # NoRange
                        /\ q = s => entry'[q] # NoRange
  BY <1>3, <1>4, <1>5
<1>8. Answer(s, t, r.cur, {r.cur}) /\ {r.cur} \in SUBSET Nat
  BY <1>1 DEF HandOut
<1>9. PICK l \in {"idle", "reply"} : pc' = [pc EXCEPT ![s][t] = l]
  BY <1>8, AnswerType
<1>10. /\ count' \in [Server -> [Proc -> BatchCount \cup {1}]]
       /\ \A q \in Server : \A u \in Thread :
             q # s \/ u # t => count'[q][u] = count[q][u]
       /\ reply' \in [Server -> [Thread -> SUBSET Nat]]
  BY <1>8, AnswerType
<1>11. DataOK'
  BY <1>6, <1>10 DEF TInv, TypeOK, DataOK
<1>12. l \in ThreadPc /\ l \notin NeedsEntry /\ l \notin NeedsCount /\ l \notin NeedsBat
  BY DEF ThreadPc, NeedsEntry, NeedsBat, NeedsCount
<1>13. /\ UNCHANGED <<bat, got>>
       /\ \A q \in Server : entry[q] # NoRange => entry'[q] # NoRange
       /\ \A q \in Server : queued'[q] = queued[q] \/ entry'[q] # NoRange
  BY <1>7
<1>14. \A q \in Server : bat[q] # NoRange => bat'[q] # NoRange
  BY <1>13
<1> HIDE DEF ThreadPc, NeedsEntry, NeedsBat, NeedsCount
<1> QED BY <1>9, <1>10, <1>11, <1>12, <1>13, <1>14, ThreadStepType

(* The same for the batch map: entry b is put in it.                       *)
LEMMA BatchOutType ==
  ASSUME TInv, NEW s \in Server, NEW t \in Thread, NEW b \in BatRec,
         NEW v \in Nat, NEW c \in Nat, NEW step \in Nat,
         bat' = [bat EXCEPT ![s] = b],
         Answer(s, t, v, Ids(v, c, step)),
         cursor' \in Nat,
         rowLock' \in (Server \X Proc) \cup {Free},
         read' \in [Server -> [Proc -> Nat]],
         UNCHANGED <<rule, entry, next, queued, got, issued>>
  PROVE  TInv'
<1>1. b # NoRange
  BY NoRangeAssumption
<1>2. bat \in [Server -> BatRec \cup {NoRange}]
  BY DEF TInv, TypeOK, DataOK
<1>3. /\ bat' \in [Server -> BatRec \cup {NoRange}]
      /\ \A q \in Server : bat[q] # NoRange => bat'[q] # NoRange
  BY <1>1, <1>2
<1>4. Ids(v, c, step) \in SUBSET Nat
  <2> SUFFICES ASSUME NEW i \in 0 .. c - 1 PROVE v + i * step \in Nat
    BY DEF Ids
  <2>1. i \in Nat
    OBVIOUS
  <2> DEFINE d == i * step
  <2>2. d \in Nat
    BY <2>1, ProductNat
  <2> HIDE DEF d
  <2>3. v + d \in Nat
    BY <2>2
  <2> QED BY <2>3 DEF d
<1>5. PICK l \in {"idle", "reply"} : pc' = [pc EXCEPT ![s][t] = l]
  BY <1>4, AnswerType
<1>6. /\ count' \in [Server -> [Proc -> BatchCount \cup {1}]]
      /\ \A q \in Server : \A u \in Thread :
            q # s \/ u # t => count'[q][u] = count[q][u]
      /\ reply' \in [Server -> [Thread -> SUBSET Nat]]
  BY <1>4, AnswerType
<1>7. DataOK'
  BY <1>3, <1>6 DEF TInv, TypeOK, DataOK
<1>8. l \in ThreadPc /\ l \notin NeedsEntry /\ l \notin NeedsCount /\ l \notin NeedsBat
  BY DEF ThreadPc, NeedsEntry, NeedsBat, NeedsCount
<1> QED BY <1>3, <1>5, <1>6, <1>7, <1>8, ThreadStepType
-----------------------------------------------------------------------------
(* Each action keeps the type invariant.                                   *)

LEMMA LookupType ==
  ASSUME TInv, NEW s \in Server, NEW t \in Thread, Lookup(s, t)
  PROVE  TInv'
<1>1. PICK l \in {"load", "atEntry"} : /\ pc' = [pc EXCEPT ![s][t] = l]
                                       /\ l = "atEntry" => entry[s] # NoRange
  BY DEF Lookup, Goto
<1>2. count \in [Server -> [Proc -> BatchCount \cup {1}]]
  BY DEF TInv, TypeOK, DataOK
<1>3. /\ count' \in [Server -> [Proc -> BatchCount \cup {1}]]
      /\ \A q \in Server : \A u \in Thread :
            q # s \/ u # t => count'[q][u] = count[q][u]
  BY <1>2 DEF Lookup, Proc
<1>4. DataOK'
  BY <1>3 DEF Lookup, memVars, TInv, TypeOK, DataOK
<1>5. /\ l \in ThreadPc /\ l \notin NeedsCount /\ l \notin NeedsBat
      /\ l \in NeedsEntry => entry[s] # NoRange
  BY <1>1 DEF ThreadPc, NeedsEntry, NeedsBat, NeedsCount
<1>6. UNCHANGED memVars /\ UNCHANGED got
  BY DEF Lookup
<1>7. UNCHANGED entry /\ UNCHANGED queued /\ UNCHANGED bat
  BY <1>6 DEF memVars
<1> QED BY <1>1, <1>3, <1>4, <1>5, <1>6, <1>7, ThreadStepType

LEMMA BatLookupType ==
  ASSUME TInv, NEW s \in Server, NEW t \in Thread, BatLookup(s, t)
  PROVE  TInv'
<1>1. PICK l \in {"batLoad", "atBat"} : /\ pc' = [pc EXCEPT ![s][t] = l]
                                        /\ l = "atBat" => bat[s] # NoRange
  BY DEF BatLookup, Goto
<1>2. count \in [Server -> [Proc -> BatchCount \cup {1}]]
  BY DEF TInv, TypeOK, DataOK
<1>3. PICK c \in BatchCount : count' = [count EXCEPT ![s][t] = c]
  BY DEF BatLookup
<1>4. /\ count' \in [Server -> [Proc -> BatchCount \cup {1}]]
      /\ count'[s][t] \in BatchCount
      /\ \A q \in Server : \A u \in Thread :
            q # s \/ u # t => count'[q][u] = count[q][u]
  BY <1>2, <1>3 DEF Proc
<1>5. DataOK'
  BY <1>4 DEF BatLookup, memVars, TInv, TypeOK, DataOK
<1> QED BY <1>1, <1>4, <1>5, ThreadStepType
        DEF BatLookup, memVars, ThreadPc, NeedsEntry, NeedsBat

LEMMA StartPullType ==
  ASSUME TInv, NEW s \in Server, NEW t \in Thread,
         StartPull(s, t) \/ StartBatPull(s, t)
  PROVE  TInv'
<1>1. PICK l \in {"pull", "batPull"} :
         /\ pc' = [pc EXCEPT ![s][t] = l]
         /\ l = "pull" => pc[s][t] = "atEntry"
         /\ l = "batPull" => pc[s][t] = "atBat"
  BY DEF StartPull, StartBatPull, Goto, AtEntry
<1>2. /\ l = "pull" => entry[s] # NoRange
      /\ l = "batPull" => bat[s] # NoRange /\ count[s][t] \in BatchCount
  BY <1>1 DEF TInv, Present, NeedsEntry, NeedsBat, NeedsCount
<1>3. DataOK' /\ UNCHANGED <<memVars, got, count>>
  BY DEF StartPull, StartBatPull, memVars, TInv, TypeOK, DataOK
<1> QED BY <1>1, <1>2, <1>3, ThreadStepType
        DEF memVars, ThreadPc, NeedsEntry, NeedsBat, NeedsCount

LEMMA EntryServeType ==
  ASSUME TInv, NEW s \in Server, NEW t \in Thread,
         SwapNext(s, t) \/ Serve(s, t) \/ ServeAndPrefetch(s, t)
  PROVE  TInv'
<1>1. /\ cursor \in Nat /\ rowLock \in (Server \X Proc) \cup {Free}
      /\ next \in [Server -> RangeRec \cup {NoRange}]
      /\ queued \in [Server -> Nat]
      /\ read \in [Server -> [Proc -> Nat]]
      /\ entry \in [Server -> EntryRec \cup {NoRange}]
  BY DEF TInv, TypeOK, DataOK
<1>2. entry[s] \in EntryRec /\ entry[s].pulling \in BOOLEAN
  BY <1>1 DEF SwapNext, Serve, ServeAndPrefetch, AtEntry, TInv, Present, NeedsEntry, EntryRec
<1>3. CASE SwapNext(s, t)
  <2>1. next[s] \in RangeRec
    BY <1>1, <1>3 DEF SwapNext
  <2>2. next' \in [Server -> RangeRec \cup {NoRange}]
    BY <1>1, <1>3 DEF SwapNext
  <2> QED BY <1>1, <1>3, <2>1, <2>2, HandOutType DEF SwapNext
<1>4. CASE Serve(s, t)
  BY <1>1, <1>2, <1>4, HandOutType DEF Serve
<1>5. CASE ServeAndPrefetch(s, t)
  <2>1. /\ queued' \in [Server -> Nat]
        /\ \A q \in Server : q # s => queued'[q] = queued[q]
    BY <1>1, <1>5 DEF ServeAndPrefetch
  <2> QED BY <1>1, <1>2, <1>5, <2>1, HandOutType DEF ServeAndPrefetch
<1> QED BY <1>3, <1>4, <1>5

LEMMA PrefetchRefusedType ==
  ASSUME TInv, NEW s \in Server, NEW t \in Thread, PrefetchRefused(s, t)
  PROVE  TInv'
<1>1. entry \in [Server -> EntryRec \cup {NoRange}] /\ entry[s] \in EntryRec
  BY DEF PrefetchRefused, AtEntry, TInv, TypeOK, DataOK, Present, NeedsEntry
<1> DEFINE e == [entry[s] EXCEPT !.pulling = TRUE]
<1>2. e \in EntryRec /\ e # NoRange
  BY <1>1, NoRangeAssumption DEF EntryRec
<1>3. entry' = [entry EXCEPT ![s] = e]
  BY <1>1 DEF PrefetchRefused
<1> HIDE DEF e
<1>4. /\ entry' \in [Server -> EntryRec \cup {NoRange}]
      /\ \A q \in Server : entry[q] # NoRange => entry'[q] # NoRange
  BY <1>1, <1>2, <1>3
<1>5. {Modulus - 1} \in SUBSET Nat
  BY RuleAssumption
<1>6. Answer(s, t, Modulus - 1, {Modulus - 1})
  BY DEF PrefetchRefused
<1>7. PICK l \in {"idle", "reply"} : pc' = [pc EXCEPT ![s][t] = l]
  BY <1>5, <1>6, AnswerType
<1>8. /\ count' \in [Server -> [Proc -> BatchCount \cup {1}]]
      /\ \A q \in Server : \A u \in Thread :
            q # s \/ u # t => count'[q][u] = count[q][u]
      /\ reply' \in [Server -> [Thread -> SUBSET Nat]]
  BY <1>5, <1>6, AnswerType
<1>9. DataOK'
  BY <1>4, <1>8 DEF PrefetchRefused, TInv, TypeOK, DataOK
<1>10. l \in ThreadPc /\ l \notin NeedsEntry /\ l \notin NeedsCount /\ l \notin NeedsBat
  BY DEF ThreadPc, NeedsEntry, NeedsBat, NeedsCount
<1> QED BY <1>4, <1>7, <1>8, <1>9, <1>10, ThreadStepType DEF PrefetchRefused

LEMMA AfterType ==
  ASSUME NEW r \in RangeRec, NEW c \in Nat
  PROVE  After(r, c) \in RangeRec
<1>1. c * r.step \in Nat /\ r.cur \in Nat
  BY ProductNat DEF RangeRec
<1>2. UAdd(r.cur, c * r.step) \in Nat
  BY <1>1, UAddNat
<1> QED BY <1>2 DEF After, RangeRec

LEMMA BatServeType ==
  ASSUME TInv, NEW s \in Server, NEW t \in Thread, BatServe(s, t)
  PROVE  TInv'
<1> DEFINE c == count[s][t]
           r == bat[s].map[c]
           b == [bat[s] EXCEPT !.map[c] = After(r, c)]
<1>1. c \in BatchCount /\ bat[s] # NoRange
  BY DEF BatServe, TInv, Present, NeedsBat, NeedsCount
<1>2. bat \in [Server -> BatRec \cup {NoRange}] /\ bat[s] \in BatRec
  BY <1>1 DEF TInv, TypeOK, DataOK
<1>3. c \in Nat
  BY <1>1, BatchCountPos
<1>4. r \in RangeRec
  BY <1>1, <1>2 DEF BatServe, Covers, Leftover, BatRec
<1>5. After(r, c) \in RangeRec
  BY <1>3, <1>4, AfterType
<1>6. b \in BatRec
  BY <1>1, <1>2, <1>5 DEF BatRec
<1>7. r.cur \in Nat /\ r.step \in Nat
  BY <1>4 DEF RangeRec
<1>8. /\ bat' = [bat EXCEPT ![s] = b]
      /\ Answer(s, t, r.cur, Ids(r.cur, c, r.step))
      /\ UNCHANGED <<cursor, rule, rowLock, entry, next, queued, read, got, issued>>
  BY <1>1, <1>2 DEF BatServe, Leftover
<1>9. /\ cursor \in Nat /\ rowLock \in (Server \X Proc) \cup {Free}
      /\ read \in [Server -> [Proc -> Nat]]
  BY DEF TInv, TypeOK, DataOK
<1> HIDE DEF c, r, b
<1> QED BY <1>3, <1>6, <1>7, <1>8, <1>9, BatchOutType

(* The row's update, whichever processor makes it.                         *)
LEMMA CommitType ==
  ASSUME TInv, NEW s \in Server, NEW p \in Proc, CommitRow(s, p)
  PROVE  /\ cursor' \in Nat
         /\ rowLock' \in (Server \X Proc) \cup {Free}
         /\ read' \in [Server -> [Proc -> Nat]]
         /\ Taken(s, p) \in RangeRec
<1>1. pc[s][p] \in Selected
  BY DEF CommitRow
<1>2. /\ NewCursor(read[s][p], rule, Wanted(s, p)) \in Nat
      /\ Taken(s, p) \in RangeRec
  BY <1>1, TakenType
<1>3. cursor \in Nat /\ read \in [Server -> [Proc -> Nat]]
  BY DEF TInv, TypeOK, DataOK
<1>4. read' \in [Server -> [Proc -> Nat]]
  <2>1. [read[s] EXCEPT ![p] = 0] \in [Proc -> Nat]
    BY <1>3
  <2> QED BY <1>3, <2>1 DEF CommitRow
<1> QED BY <1>2, <1>3, <1>4 DEF CommitRow

LEMMA FinishEntryType ==
  ASSUME TInv, NEW s \in Server, NEW t \in Thread,
         FinishLoad(s, t) \/ FinishPull(s, t)
  PROVE  TInv'
<1>1. t \in Proc /\ CommitRow(s, t)
  BY DEF FinishLoad, FinishPull, Proc
<1>2. /\ next \in [Server -> RangeRec \cup {NoRange}]
      /\ queued \in [Server -> Nat]
      /\ entry \in [Server -> EntryRec \cup {NoRange}]
  BY DEF TInv, TypeOK, DataOK
<1>3. CASE FinishLoad(s, t)
  BY <1>1, <1>2, <1>3, CommitType, HandOutType DEF FinishLoad
<1>4. CASE FinishPull(s, t)
  <2>1. entry[s] \in EntryRec
    BY <1>2, <1>4 DEF FinishPull, TInv, Present, NeedsEntry
  <2>2. entry[s].pulling \in BOOLEAN
    BY <2>1 DEF EntryRec
  <2> QED BY <1>1, <1>2, <1>4, <2>2, CommitType, HandOutType DEF FinishPull
<1> QED BY <1>3, <1>4

LEMMA FinishBatType ==
  ASSUME TInv, NEW s \in Server, NEW t \in Thread,
         FinishBatLoad(s, t) \/ FinishBatPull(s, t)
  PROVE  TInv'
<1>1. t \in Proc /\ CommitRow(s, t)
  BY DEF FinishBatLoad, FinishBatPull, Proc
<1> DEFINE c == count[s][t]
           r == Taken(s, t)
<1>2. c \in BatchCount /\ c \in Nat
  BY BatchCountPos DEF FinishBatLoad, FinishBatPull, TInv, Present, NeedsBat, NeedsCount
<1>3. r \in RangeRec /\ After(r, c) \in RangeRec
  BY <1>1, <1>2, CommitType, AfterType
<1>4. r.cur \in Nat /\ r.step \in Nat /\ r.status \in Nat
  BY <1>3 DEF RangeRec
<1>5. /\ Answer(s, t, r.cur, Ids(r.cur, c, r.step))
      /\ UNCHANGED <<rule, entry, next, queued, got, issued>>
  BY DEF FinishBatLoad, FinishBatPull
<1>6. rule \in Rule /\ bat \in [Server -> BatRec \cup {NoRange}]
  BY DEF TInv, TypeOK, DataOK
<1>7. rule.batchCache \in Nat /\ rule.batchFetch \in {x.batchFetch : x \in Rule}
  BY <1>6, RuleAssumption
<1>8. \E f \in [BatchCount -> RangeRec \cup {NoRange}] :
        bat' = [bat EXCEPT ![s] = [status |-> r.status, cache |-> rule.batchCache,
                                   fetch |-> rule.batchFetch, map |-> f]]
  <2>1. CASE FinishBatLoad(s, t)
    <3> DEFINE f == [d \in BatchCount |-> IF d = c THEN After(r, c) ELSE NoRange]
    <3>1. f \in [BatchCount -> RangeRec \cup {NoRange}]
      BY <1>3
    <3>2. bat' = [bat EXCEPT ![s] = [status |-> r.status, cache |-> rule.batchCache,
                                     fetch |-> rule.batchFetch, map |-> f]]
      BY <2>1 DEF FinishBatLoad
    <3> HIDE DEF f
    <3> QED BY <3>1, <3>2
  <2>2. CASE FinishBatPull(s, t)
    <3>1. bat[s] # NoRange
      BY <2>2 DEF FinishBatPull, TInv, Present, NeedsBat
    <3>2. bat[s].map \in [BatchCount -> RangeRec \cup {NoRange}]
      BY <1>6, <3>1 DEF BatRec
    <3> DEFINE keep == Cardinality({d \in BatchCount : bat[s].map[d] # NoRange})
                         < rule.batchCache
               f == IF keep THEN [bat[s].map EXCEPT ![c] = After(r, c)] ELSE bat[s].map
    <3>3. bat' = [bat EXCEPT ![s] = [status |-> r.status, cache |-> rule.batchCache,
                                     fetch |-> rule.batchFetch, map |-> f]]
      BY <2>2 DEF FinishBatPull
    <3> HIDE DEF keep
    <3>4. f \in [BatchCount -> RangeRec \cup {NoRange}]
      BY <1>2, <1>3, <3>2
    <3> HIDE DEF f
    <3> QED BY <3>3, <3>4
  <2> QED BY <2>1, <2>2
<1>9. PICK f \in [BatchCount -> RangeRec \cup {NoRange}] :
        bat' = [bat EXCEPT ![s] = [status |-> r.status, cache |-> rule.batchCache,
                                   fetch |-> rule.batchFetch, map |-> f]]
  BY <1>8
<1> DEFINE b == [status |-> r.status, cache |-> rule.batchCache,
                 fetch |-> rule.batchFetch, map |-> f]
<1>10. b \in BatRec
  BY <1>4, <1>7 DEF BatRec
<1>11. bat' = [bat EXCEPT ![s] = b]
  BY <1>9
<1> HIDE DEF b, r, c
<1> QED BY <1>1, <1>2, <1>4, <1>5, <1>10, <1>11, CommitType, BatchOutType

LEMMA DeliverType ==
  ASSUME TInv, NEW s \in Server, NEW t \in Thread, Deliver(s, t)
  PROVE  TInv'
<1>1. reply \in [Server -> [Thread -> SUBSET Nat]] /\ issued \subseteq Nat
  BY DEF TInv, TypeOK, DataOK
<1>2. reply' \in [Server -> [Thread -> SUBSET Nat]] /\ issued' \subseteq Nat
  <2>1. [reply[s] EXCEPT ![t] = {}] \in [Thread -> SUBSET Nat]
    BY <1>1
  <2> QED BY <1>1, <2>1 DEF Deliver
<1>3. /\ UNCHANGED entry /\ UNCHANGED queued /\ UNCHANGED bat
      /\ UNCHANGED got /\ UNCHANGED count
  BY DEF Deliver, memVars
<1>4. DataOK'
  BY <1>2 DEF Deliver, memVars, TInv, TypeOK, DataOK
<1>5. /\ "idle" \in ThreadPc /\ "idle" \notin NeedsEntry
      /\ "idle" \notin NeedsBat /\ "idle" \notin NeedsCount
  BY DEF ThreadPc, NeedsEntry, NeedsBat, NeedsCount
<1>6. pc' = [pc EXCEPT ![s][t] = "idle"]
  BY DEF Deliver, Goto
<1> QED BY <1>3, <1>4, <1>5, <1>6, ThreadStepType

(* A step of a pool thread, whose control points need an entry.            *)
LEMMA WorkerStepType ==
  ASSUME TInv, NEW s \in Server, NEW w \in Worker, NEW l \in WorkerPc,
         pc' = [pc EXCEPT ![s][w] = l],
         DataOK',
         UNCHANGED bat, UNCHANGED count,
         \A q \in Server : entry[q] # NoRange => entry'[q] # NoRange,
         \A q \in Server : queued'[q] > 0 => entry[q] # NoRange,
         \A q \in Server : \A u \in Worker :
            q # s \/ u # w => got'[q][u] = got[q][u],
         entry[s] # NoRange,
         l = "store" => got'[s][w] # NoRange
  PROVE  TInv'
<1>1. w \in Proc /\ w \notin Thread
  BY RuleAssumption DEF Proc
<1>2. \A q \in Server : queued'[q] > 0 => entry'[q] # NoRange
  OBVIOUS
<1>3. \A q \in Server : bat[q] # NoRange => bat'[q] # NoRange
  OBVIOUS
<1>4. \A q \in Server : \A u \in Thread :
         q # s \/ u # w => count'[q][u] = count[q][u]
  OBVIOUS
<1> HIDE DEF ThreadPc, WorkerPc, NeedsEntry, NeedsBat, NeedsCount
<1> QED BY <1>1, <1>2, <1>3, <1>4, StepType

LEMMA WorkerType ==
  ASSUME TInv, NEW s \in Server, NEW w \in Worker, WorkerStep(s, w)
  PROVE  TInv'
<1>1. /\ entry \in [Server -> EntryRec \cup {NoRange}]
      /\ next \in [Server -> RangeRec \cup {NoRange}]
      /\ queued \in [Server -> Nat]
      /\ got \in [Server -> [Worker -> RangeRec \cup {NoRange}]]
  BY DEF TInv, TypeOK, DataOK
<1>2. \A q \in Server : queued[q] > 0 => entry[q] # NoRange
  BY DEF TInv, Present
<1>3. pc[s][w] # "idle" => entry[s] # NoRange
  BY DEF TInv, Present
<1>4. CASE StartFetch(s, w)
  <2>1. queued' \in [Server -> Nat] /\ \A q \in Server : queued'[q] > 0 => queued[q] > 0
    BY <1>1, <1>4 DEF StartFetch
  <2>2. entry[s] # NoRange
    BY <1>2, <1>4 DEF StartFetch
  <2>3. DataOK'
    BY <1>4, <2>1 DEF StartFetch, TInv, TypeOK, DataOK
  <2>4. pc' = [pc EXCEPT ![s][w] = "fetch"] /\ "fetch" \in WorkerPc
    BY <1>4 DEF StartFetch, Goto, WorkerPc
  <2>5. /\ UNCHANGED bat /\ UNCHANGED count
        /\ UNCHANGED entry /\ UNCHANGED got
    BY <1>4 DEF StartFetch
  <2> QED BY <1>2, <2>1, <2>2, <2>3, <2>4, <2>5, WorkerStepType
<1>5. CASE FinishFetch(s, w)
  <2>1. w \in Proc /\ CommitRow(s, w)
    BY <1>5 DEF FinishFetch, Proc
  <2> DEFINE r == Taken(s, w)
  <2>2. /\ cursor' \in Nat /\ rowLock' \in (Server \X Proc) \cup {Free}
        /\ read' \in [Server -> [Proc -> Nat]] /\ r \in RangeRec
    BY <2>1, CommitType
  <2>3. got' = [got EXCEPT ![s][w] = r] /\ r # NoRange
    BY <1>5, <2>2, NoRangeAssumption DEF FinishFetch
  <2> HIDE DEF r
  <2>4. /\ got' \in [Server -> [Worker -> RangeRec \cup {NoRange}]]
        /\ got'[s][w] # NoRange
        /\ \A q \in Server : \A u \in Worker :
              q # s \/ u # w => got'[q][u] = got[q][u]
    <3>1. [got[s] EXCEPT ![w] = r] \in [Worker -> RangeRec \cup {NoRange}]
      BY <1>1, <2>2
    <3> QED BY <1>1, <2>3, <3>1
  <2>5. DataOK'
    BY <1>5, <2>2, <2>4 DEF FinishFetch, memVars, TInv, TypeOK, DataOK
  <2>6. pc' = [pc EXCEPT ![s][w] = "store"] /\ "store" \in WorkerPc
    BY <1>5 DEF FinishFetch, Goto, WorkerPc
  <2>7. UNCHANGED bat /\ UNCHANGED count /\ UNCHANGED entry /\ UNCHANGED queued
    BY <1>5 DEF FinishFetch, memVars
  <2>8. entry[s] # NoRange
    BY <1>3, <1>5 DEF FinishFetch
  <2> QED BY <1>2, <2>4, <2>5, <2>6, <2>7, <2>8, WorkerStepType
<1>6. CASE StoreNext(s, w)
  <2>1. pc[s][w] = "store" /\ got[s][w] \in RangeRec
    BY <1>1, <1>6 DEF StoreNext, TInv, Present
  <2>2. /\ got' \in [Server -> [Worker -> RangeRec \cup {NoRange}]]
        /\ \A q \in Server : \A u \in Worker :
              q # s \/ u # w => got'[q][u] = got[q][u]
    <3>1. [got[s] EXCEPT ![w] = NoRange] \in [Worker -> RangeRec \cup {NoRange}]
      BY <1>1
    <3> QED BY <1>1, <1>6, <3>1 DEF StoreNext
  <2>3. next' \in [Server -> RangeRec \cup {NoRange}]
    BY <1>1, <1>6, <2>1 DEF StoreNext
  <2>4. DataOK'
    BY <1>6, <2>2, <2>3 DEF StoreNext, TInv, TypeOK, DataOK
  <2>5. pc' = [pc EXCEPT ![s][w] = "idle"] /\ "idle" \in WorkerPc
    BY <1>6 DEF StoreNext, Goto, WorkerPc
  <2>6. UNCHANGED bat /\ UNCHANGED count /\ UNCHANGED entry /\ UNCHANGED queued
    BY <1>6 DEF StoreNext
  <2> QED BY <1>2, <1>3, <2>1, <2>2, <2>4, <2>5, <2>6, WorkerStepType
<1>7. CASE FetchFailed(s, w)
  <2>1. entry[s] \in EntryRec
    BY <1>1, <1>3, <1>7 DEF FetchFailed
  <2> DEFINE e == [entry[s] EXCEPT !.pulling = FALSE]
  <2>2. e \in EntryRec /\ e # NoRange
    BY <2>1, NoRangeAssumption DEF EntryRec
  <2>3. entry' = [entry EXCEPT ![s] = e]
    BY <1>1, <1>7 DEF FetchFailed
  <2> HIDE DEF e
  <2>4. /\ entry' \in [Server -> EntryRec \cup {NoRange}]
        /\ \A q \in Server : entry[q] # NoRange => entry'[q] # NoRange
    BY <1>1, <2>2, <2>3
  <2>5. DataOK'
    BY <1>7, <2>4 DEF FetchFailed, TInv, TypeOK, DataOK
  <2>6. pc' = [pc EXCEPT ![s][w] = "idle"] /\ "idle" \in WorkerPc
    BY <1>7 DEF FetchFailed, Goto, WorkerPc
  <2>7. UNCHANGED bat /\ UNCHANGED count /\ UNCHANGED queued /\ UNCHANGED got
    BY <1>7 DEF FetchFailed
  <2>8. entry[s] # NoRange
    BY <2>1, NoRangeAssumption
  <2> QED BY <1>2, <2>4, <2>5, <2>6, <2>7, <2>8, WorkerStepType
<1> QED BY <1>4, <1>5, <1>6, <1>7 DEF WorkerStep

LEMMA SelectRowType ==
  ASSUME TInv, NEW s \in Server, NEW p \in Proc, SelectRow(s, p)
  PROVE  TInv'
<1> DEFINE l == AtRow[pc[s][p]]
<1>1. /\ pc' = [pc EXCEPT ![s][p] = l]
      /\ UNCHANGED entry /\ UNCHANGED queued /\ UNCHANGED bat
      /\ UNCHANGED got /\ UNCHANGED count
  BY DEF SelectRow, Goto, memVars
<1>2. pc[s][p] \in Waiting
  BY DEF SelectRow
<1>3. /\ l \in NeedsEntry => pc[s][p] \in NeedsEntry
      /\ l \in NeedsBat => pc[s][p] \in NeedsBat
      /\ l \in NeedsCount => pc[s][p] \in NeedsCount
      /\ l # "store" /\ pc[s][p] # "idle"
      /\ pc[s][p] \in ThreadPc => l \in ThreadPc
      /\ pc[s][p] \in WorkerPc => l \in WorkerPc
  BY <1>2 DEF Waiting, AtRow, NeedsEntry, NeedsBat, NeedsCount, ThreadPc, WorkerPc
<1>4. cursor \in Nat /\ read \in [Server -> [Proc -> Nat]]
  BY DEF TInv, TypeOK, DataOK
<1>5. read' \in [Server -> [Proc -> Nat]]
  <2>1. [read[s] EXCEPT ![p] = cursor] \in [Proc -> Nat]
    BY <1>4
  <2> QED BY <1>4, <2>1 DEF SelectRow
<1>6. DataOK'
  BY <1>5 DEF SelectRow, memVars, TInv, TypeOK, DataOK
<1> HIDE DEF l
<1>7. /\ p \in Thread => l \in ThreadPc
      /\ p \in Worker => l \in WorkerPc
  BY <1>3, PcKinds DEF TInv
<1>8. /\ p \in Thread /\ l \in NeedsEntry => entry'[s] # NoRange
      /\ p \in Thread /\ l \in NeedsBat => bat'[s] # NoRange
      /\ p \in Thread /\ l \in NeedsCount => count'[s][p] \in BatchCount
      /\ p \in Worker => entry'[s] # NoRange
      /\ \A q \in Server : queued'[q] > 0 => entry'[q] # NoRange
  BY <1>1, <1>3 DEF TInv, Present
<1>9. /\ \A q \in Server : entry[q] # NoRange => entry'[q] # NoRange
      /\ \A q \in Server : bat[q] # NoRange => bat'[q] # NoRange
      /\ \A q \in Server : \A w \in Worker :
            q # s \/ w # p => got'[q][w] = got[q][w]
      /\ \A q \in Server : \A u \in Thread :
            q # s \/ u # p => count'[q][u] = count[q][u]
  BY <1>1
<1>10. l # "store"
  BY <1>3
<1> HIDE DEF ThreadPc, WorkerPc, NeedsEntry, NeedsBat, NeedsCount
<1> QED BY <1>1, <1>6, <1>7, <1>8, <1>9, <1>10, StepType

LEMMA FailRowType ==
  ASSUME TInv, NEW s \in Server, NEW p \in Proc, FailRow(s, p)
  PROVE  TInv'
<1> DEFINE l == IF p \in Worker THEN "failed" ELSE "idle"
<1>1. /\ pc' = [pc EXCEPT ![s][p] = l]
      /\ UNCHANGED entry /\ UNCHANGED queued /\ UNCHANGED bat /\ UNCHANGED got
      /\ count' = [count EXCEPT ![s][p] = 1]
      /\ read' = [read EXCEPT ![s][p] = 0]
  BY DEF FailRow, Goto, memVars
<1>2. /\ p \in Thread => l \in ThreadPc /\ l = "idle"
      /\ p \in Worker => l \in WorkerPc
      /\ l # "store"
  BY RuleAssumption DEF ThreadPc, WorkerPc
<1> HIDE DEF l
<1>3. /\ count \in [Server -> [Proc -> BatchCount \cup {1}]]
      /\ read \in [Server -> [Proc -> Nat]]
  BY DEF TInv, TypeOK, DataOK
<1>4. /\ count' \in [Server -> [Proc -> BatchCount \cup {1}]]
      /\ \A q \in Server : \A u \in Thread :
            q # s \/ u # p => count'[q][u] = count[q][u]
  BY <1>1, <1>3 DEF Proc
<1>5. read' \in [Server -> [Proc -> Nat]]
  <2>1. [read[s] EXCEPT ![p] = 0] \in [Proc -> Nat]
    BY <1>3
  <2> QED BY <1>1, <1>3, <2>1
<1>6. DataOK'
  BY <1>4, <1>5 DEF FailRow, memVars, TInv, TypeOK, DataOK
<1>7. p \in Thread => l \notin NeedsEntry /\ l \notin NeedsBat /\ l \notin NeedsCount
  BY <1>2 DEF NeedsEntry, NeedsBat, NeedsCount
<1>8. p \in Worker => entry'[s] # NoRange
  <2> SUFFICES ASSUME p \in Worker PROVE entry[s] # NoRange
    BY <1>1
  <2> QED BY DEF FailRow, Waiting, Selected, TInv, Present
<1>9. /\ \A q \in Server : entry[q] # NoRange => entry'[q] # NoRange
      /\ \A q \in Server : bat[q] # NoRange => bat'[q] # NoRange
      /\ \A q \in Server : queued'[q] > 0 => entry'[q] # NoRange
      /\ \A q \in Server : \A w \in Worker :
            q # s \/ w # p => got'[q][w] = got[q][w]
  BY <1>1 DEF TInv, Present
<1>10. /\ p \in Thread => l \in ThreadPc
       /\ p \in Worker => l \in WorkerPc
  BY <1>2
<1>11. l # "store"
  BY <1>2
<1>12. \A q \in Server : \A u \in Thread :
          q # s \/ u # p => count'[q][u] = count[q][u]
  BY <1>4
<1>13. pc' = [pc EXCEPT ![s][p] = l]
  BY <1>1
<1> HIDE DEF ThreadPc, WorkerPc, NeedsEntry, NeedsBat, NeedsCount
<1> QED BY <1>6, <1>7, <1>8, <1>9, <1>10, <1>11, <1>12, <1>13, StepType

(* A process that died starts from empty maps.                             *)
LEMMA CrashType ==
  ASSUME TInv, NEW s \in Server, Crash(s)
  PROVE  TInv'
<1>1. /\ pc \in [Server -> [Proc -> ThreadPc \cup WorkerPc]]
      /\ Thread \subseteq Proc /\ Worker \subseteq Proc
  BY DEF TInv, TypeOK, PcOK, Proc
<1>2. /\ \A p \in Proc : pc'[s][p] = "idle"
      /\ \A q \in Server \ {s} : pc'[q] = pc[q]
  BY <1>1 DEF Crash
<1>3. PcOK'
  <2>1. pc' \in [Server -> [Proc -> ThreadPc \cup WorkerPc]]
    <3>1. [p \in Proc |-> "idle"] \in [Proc -> ThreadPc \cup WorkerPc]
      BY DEF ThreadPc
    <3> QED BY <1>1, <3>1 DEF Crash
  <2>2. \A q \in Server : /\ \A t \in Thread : pc'[q][t] \in ThreadPc
                          /\ \A w \in Worker : pc'[q][w] \in WorkerPc
    <3>1. "idle" \in ThreadPc /\ "idle" \in WorkerPc
      BY DEF ThreadPc, WorkerPc
    <3> QED BY <1>1, <1>2, <3>1, PcKinds DEF TInv
  <2> QED BY <2>1, <2>2 DEF PcOK
<1>4. DataOK'
  <2>1. /\ entry' \in [Server -> EntryRec \cup {NoRange}]
        /\ next' \in [Server -> RangeRec \cup {NoRange}]
        /\ queued' \in [Server -> Nat]
        /\ bat' \in [Server -> BatRec \cup {NoRange}]
    BY DEF Crash, TInv, TypeOK, DataOK
  <2>2. /\ count' \in [Server -> [Proc -> BatchCount \cup {1}]]
        /\ read' \in [Server -> [Proc -> Nat]]
    <3>1. /\ [p \in Proc |-> 1] \in [Proc -> BatchCount \cup {1}]
          /\ [p \in Proc |-> 0] \in [Proc -> Nat]
      OBVIOUS
    <3>2. /\ count \in [Server -> [Proc -> BatchCount \cup {1}]]
          /\ read \in [Server -> [Proc -> Nat]]
      BY DEF TInv, TypeOK, DataOK
    <3> QED BY <3>1, <3>2 DEF Crash
  <2>3. /\ got' \in [Server -> [Worker -> RangeRec \cup {NoRange}]]
        /\ reply' \in [Server -> [Thread -> SUBSET Nat]]
    <3>1. /\ [w \in Worker |-> NoRange] \in [Worker -> RangeRec \cup {NoRange}]
          /\ [t \in Thread |-> {}] \in [Thread -> SUBSET Nat]
      OBVIOUS
    <3>2. /\ got \in [Server -> [Worker -> RangeRec \cup {NoRange}]]
          /\ reply \in [Server -> [Thread -> SUBSET Nat]]
      BY DEF TInv, TypeOK, DataOK
    <3> QED BY <3>1, <3>2 DEF Crash
  <2>4. /\ cursor' \in Nat /\ rule' \in Rule /\ issued' \subseteq Nat
        /\ rowLock' \in (Server \X Proc) \cup {Free}
    BY DEF Crash, TInv, TypeOK, DataOK
  <2> QED BY <2>1, <2>2, <2>3, <2>4 DEF DataOK
<1>5. Present'
  <2> SUFFICES ASSUME NEW q \in Server PROVE Present!(q)'
    BY DEF Present
  <2>1. /\ q = s => queued'[q] = 0
        /\ q # s => /\ entry'[q] = entry[q] /\ queued'[q] = queued[q]
                    /\ bat'[q] = bat[q] /\ got'[q] = got[q] /\ count'[q] = count[q]
    BY DEF Crash, TInv, TypeOK, DataOK
  <2>2. "idle" \notin NeedsEntry /\ "idle" \notin NeedsBat /\ "idle" \notin NeedsCount
    BY DEF NeedsEntry, NeedsBat, NeedsCount
  <2>3. CASE q = s
    BY <1>1, <1>2, <2>1, <2>2, <2>3
  <2>4. CASE q # s
    BY <1>1, <1>2, <2>1, <2>4 DEF TInv, Present
  <2> QED BY <2>3, <2>4
<1> QED BY <1>3, <1>4, <1>5 DEF TInv, TypeOK

LEMMA InitType ==
  ASSUME Init PROVE TInv
<1>1. "idle" \in ThreadPc /\ "idle" \in WorkerPc
  BY DEF ThreadPc, WorkerPc
<1>2. PcOK
  BY <1>1 DEF Init, PcOK, Proc
<1>3. DataOK
  BY RuleAssumption DEF Init, DataOK
<1>4. Present
  <2>1. "idle" \notin NeedsEntry /\ "idle" \notin NeedsBat /\ "idle" \notin NeedsCount
    BY DEF NeedsEntry, NeedsBat, NeedsCount
  <2>2. \A s \in Server : \A p \in Proc : pc[s][p] = "idle"
    BY DEF Init
  <2>3. \A s \in Server : queued[s] = 0
    BY DEF Init
  <2> QED BY <2>1, <2>2, <2>3 DEF Present, Proc
<1> QED BY <1>2, <1>3, <1>4 DEF TInv, TypeOK

LEMMA ThreadType ==
  ASSUME TInv, NEW s \in Server, NEW t \in Thread, ThreadStep(s, t)
  PROVE  TInv'
  BY LookupType, EntryServeType, StartPullType, PrefetchRefusedType, BatLookupType,
     BatServeType, FinishEntryType, FinishBatType, DeliverType DEF ThreadStep

LEMMA NextType ==
  ASSUME TInv, [Next]_vars PROVE TInv'
<1>1. CASE Next
  <2>1. CASE Reconfigure
    BY <2>1 DEF Reconfigure, memVars, TInv, TypeOK, PcOK, DataOK, Present
  <2>2. ASSUME NEW s \in Server, NEW t \in Thread, ThreadStep(s, t) PROVE TInv'
    BY <2>2, ThreadType
  <2>3. ASSUME NEW s \in Server, NEW w \in Worker, WorkerStep(s, w) PROVE TInv'
    BY <2>3, WorkerType
  <2>4. ASSUME NEW s \in Server, NEW p \in Proc, SelectRow(s, p) \/ FailRow(s, p)
        PROVE TInv'
    BY <2>4, SelectRowType, FailRowType
  <2>5. ASSUME NEW s \in Server, Crash(s) PROVE TInv'
    BY <2>5, CrashType
  <2> QED BY <1>1, <2>1, <2>2, <2>3, <2>4, <2>5 DEF Next
<1>2. CASE UNCHANGED vars
  BY <1>2 DEF vars, TInv, TypeOK, PcOK, DataOK, Present
<1> QED BY <1>1, <1>2

(* Every variable keeps its type: every range in a map, in the pool and in *)
(* a transaction is made of naturals, and a thread at a control point that *)
(* uses a map entry finds it there, whatever the interleaving.             *)
THEOREM TypeCorrect == Spec => [](TypeOK /\ Present)
<1>1. Init => TInv
  BY InitType
<1>2. TInv /\ [Next]_vars => TInv'
  BY NextType
<1> QED BY <1>1, <1>2, PTL DEF Spec, TInv

-----------------------------------------------------------------------------
(***************************************************************************)
(* At most one prefetch of a name is under way in a process (OnePrefetch), *)
(* for any processes and threads and any finite number of pool threads.    *)
(***************************************************************************)

Loads == {"load", "load!"}
Busy(s)   == {w \in Worker : pc[s][w] # "idle"}
Stored(s) == IF next[s] = NoRange THEN 0 ELSE 1

(* m_map_seq_lock is held from the look-up that finds no entry until the    *)
(* entry is there: one thread loads, and no entry comes from elsewhere.    *)
Loading ==
  \A s \in Server : \A t \in Thread :
    pc[s][t] \in Loads =>
      /\ entry[s] = NoRange
      /\ \A u \in Thread : pc[s][u] \in Loads => u = t

One(s) ==
  /\ queued[s] + Cardinality(Busy(s)) + Stored(s) <= IF Pulling(s) THEN 1 ELSE 0
  /\ Pulling(s) /\ queued[s] + Cardinality(Busy(s)) + Stored(s) = 0 => TaskMayFail

PInv == TInv /\ Loading /\ \A s \in Server : One(s)

LEMMA PrefetchesAre ==
  \A s : Prefetches(s) = queued[s] + Cardinality(Busy(s)) + Stored(s)
  BY DEF Prefetches, Busy, Stored

LEMMA Counts ==
  ASSUME TInv, IsFiniteSet(Worker), NEW s \in Server
  PROVE  /\ IsFiniteSet(Busy(s)) /\ Cardinality(Busy(s)) \in Nat
         /\ queued[s] \in Nat /\ Stored(s) \in {0, 1}
<1>1. Busy(s) \in SUBSET Worker
  BY DEF Busy
<1>2. IsFiniteSet(Busy(s))
  BY <1>1, FS_Subset
<1> QED BY <1>2, FS_CardinalityType DEF Stored, TInv, TypeOK, DataOK

-----------------------------------------------------------------------------
(* One thread or pool thread p of s moves to l; who loads.                 *)
LEMMA MoveLoading ==
  ASSUME TInv, Loading, NEW s \in Server, NEW p \in Proc, NEW l,
         pc' = [pc EXCEPT ![s][p] = l],
         \A q \in Server : q # s => entry'[q] = entry[q],
         entry'[s] # NoRange =>
            entry[s] # NoRange \/ (p \in Thread /\ pc[s][p] \in Loads /\ l \notin Loads),
         l \in Loads /\ p \in Thread => entry'[s] = NoRange /\ (pc[s][p] \in Loads \/ MapFree(s))
  PROVE  Loading'
<1>1. pc \in [Server -> [Proc -> ThreadPc \cup WorkerPc]] /\ Thread \subseteq Proc
  BY DEF TInv, TypeOK, PcOK, Proc
<1>2. /\ pc'[s][p] = l
      /\ \A q \in Server, r \in Proc : q # s \/ r # p => pc'[q][r] = pc[q][r]
  BY <1>1
<1>3. p \in Thread /\ MapFree(s) => \A u \in Thread : pc[s][u] \notin Loads
  BY DEF MapFree, Loads
<1> SUFFICES ASSUME NEW q \in Server, NEW t \in Thread, pc'[q][t] \in Loads
             PROVE  /\ entry'[q] = NoRange
                    /\ \A u \in Thread : pc'[q][u] \in Loads => u = t
  BY DEF Loading
<1>4. CASE q # s
  BY <1>1, <1>2, <1>4 DEF Loading
<1>5. CASE q = s /\ t = p
  BY <1>1, <1>2, <1>3, <1>5 DEF Loading
<1>6. CASE q = s /\ t # p
  <2>1. pc[s][t] \in Loads /\ entry[s] = NoRange
    BY <1>1, <1>2, <1>6 DEF Loading
  <2>2. p \in Thread => pc[s][p] \notin Loads
    BY <1>6, <2>1 DEF Loading
  <2>3. entry'[s] = NoRange
    BY <2>1, <2>2
  <2>4. p \in Thread => l \notin Loads
    BY <1>3, <2>1, <2>2
  <2> QED BY <1>1, <1>2, <1>6, <2>1, <2>3, <2>4 DEF Loading
<1> QED BY <1>4, <1>5, <1>6

(* A step of process s leaves the counts of the others alone.              *)
LEMMA OnlyOne ==
  ASSUME TInv, \A q \in Server : One(q), NEW s \in Server, One(s)',
         \A q \in Server : q # s =>
            /\ queued'[q] = queued[q] /\ next'[q] = next[q]
            /\ entry'[q] = entry[q] /\ pc'[q] = pc[q]
  PROVE  \A q \in Server : One(q)'
<1> SUFFICES ASSUME NEW q \in Server, q # s PROVE One(q)'
  OBVIOUS
<1>1. Busy(q)' = Busy(q)
  BY DEF Busy
<1>2. Stored(q)' = Stored(q) /\ Pulling(q)' = Pulling(q)
  BY DEF Stored, Pulling
<1> QED BY <1>1, <1>2 DEF One

LEMMA BusyThread ==
  ASSUME TInv, NEW s \in Server, NEW t \in Thread, NEW l,
         pc' = [pc EXCEPT ![s][t] = l]
  PROVE  Busy(s)' = Busy(s) /\ \A q \in Server : q # s => pc'[q] = pc[q]
<1>1. pc \in [Server -> [Proc -> ThreadPc \cup WorkerPc]]
  BY DEF TInv, TypeOK, PcOK
<1>2. \A w \in Worker : w # t /\ w \in Proc
  BY RuleAssumption DEF Proc
<1>3. \A w \in Worker : pc'[s][w] = pc[s][w]
  BY <1>1, <1>2
<1> QED BY <1>1, <1>3 DEF Busy

LEMMA BusyWorker ==
  ASSUME TInv, NEW s \in Server, NEW w \in Worker, NEW l,
         pc' = [pc EXCEPT ![s][w] = l]
  PROVE  /\ l = "idle" => Busy(s)' = Busy(s) \ {w}
         /\ l # "idle" => Busy(s)' = Busy(s) \cup {w}
         /\ \A q \in Server : q # s => pc'[q] = pc[q]
<1>1. pc \in [Server -> [Proc -> ThreadPc \cup WorkerPc]] /\ Worker \subseteq Proc
  BY DEF TInv, TypeOK, PcOK, Proc
<1>2. /\ pc'[s][w] = l /\ \A u \in Worker : u # w => pc'[s][u] = pc[s][u]
      /\ \A q \in Server : q # s => pc'[q] = pc[q]
  BY <1>1
<1> QED BY <1>2 DEF Busy

(* A thread's step that leaves the pool, m_map_seq_next and is_pulling be.  *)
LEMMA ThreadKeeps ==
  ASSUME TInv, Loading, \A q \in Server : One(q), NEW s \in Server, NEW t \in Thread,
         NEW l, pc' = [pc EXCEPT ![s][t] = l],
         UNCHANGED queued, UNCHANGED next,
         \A q \in Server : q # s => entry'[q] = entry[q],
         Pulling(s)' = Pulling(s),
         entry'[s] # NoRange =>
            entry[s] # NoRange \/ (pc[s][t] \in Loads /\ l \notin Loads),
         l \in Loads => entry'[s] = NoRange /\ (pc[s][t] \in Loads \/ MapFree(s))
  PROVE  Loading' /\ \A q \in Server : One(q)'
<1>1. t \in Proc
  BY DEF Proc
<1>2. Loading'
  BY <1>1, MoveLoading
<1>3. Busy(s)' = Busy(s) /\ \A q \in Server : q # s => pc'[q] = pc[q]
  BY BusyThread
<1>4. One(s)'
  BY <1>3 DEF One, Stored
<1> QED BY <1>2, <1>3, <1>4, OnlyOne


-----------------------------------------------------------------------------
(* The threads of the HTTP pool.                                           *)

LEMMA AnswerPc ==
  ASSUME NEW s, NEW t, NEW v, NEW ids, Answer(s, t, v, ids)
  PROVE  \E l \in {"idle", "reply"} : pc' = [pc EXCEPT ![s][t] = l]
  BY DEF Answer, Goto

LEMMA HandOutPulling ==
  ASSUME TInv, NEW s \in Server, NEW t \in Thread, NEW pl \in BOOLEAN,
         NEW r \in RangeRec \cup EntryRec, HandOut(s, t, r, pl)
  PROVE  /\ entry'[s] # NoRange /\ entry'[s].pulling = pl
         /\ \A q \in Server : q # s => entry'[q] = entry[q]
         /\ \E l \in {"idle", "reply"} : pc' = [pc EXCEPT ![s][t] = l]
<1> DEFINE e == [cur |-> UAdd(r.cur, r.step), max |-> r.max, step |-> r.step,
                 alert |-> r.alert, status |-> r.status, pulling |-> pl]
<1>1. /\ r.cur \in Nat /\ r.max \in Nat /\ r.step \in Nat \ {0}
      /\ r.alert \in Nat /\ r.status \in Nat
  BY DEF RangeRec, EntryRec
<1>2. e \in EntryRec /\ e # NoRange
  <2>1. UAdd(r.cur, r.step) \in Nat
    BY <1>1, UAddNat
  <2>2. e \in EntryRec
    BY <1>1, <2>1 DEF EntryRec
  <2> QED BY <2>2, NoRangeAssumption
<1>3. entry' = [entry EXCEPT ![s] = e]
  BY DEF HandOut
<1>4. e.pulling = pl
  OBVIOUS
<1> HIDE DEF e
<1>5. entry'[s] = e /\ \A q \in Server : q # s => entry'[q] = entry[q]
  BY <1>3 DEF TInv, TypeOK, DataOK
<1>6. \E l \in {"idle", "reply"} : pc' = [pc EXCEPT ![s][t] = l]
  BY AnswerPc DEF HandOut
<1> QED BY <1>2, <1>4, <1>5, <1>6

LEMMA EntryThere ==
  ASSUME TInv, NEW s \in Server, NEW t \in Thread, pc[s][t] \in NeedsEntry
  PROVE  /\ entry[s] \in EntryRec /\ entry[s] # NoRange
         /\ entry[s].pulling \in BOOLEAN
         /\ Pulling(s) = entry[s].pulling
<1>1. entry[s] \in EntryRec /\ entry[s] # NoRange
  BY DEF TInv, TypeOK, DataOK, Present
<1> QED BY <1>1 DEF EntryRec, Pulling

(* Serve, a synchronous refill and the first load keep is_pulling.          *)
LEMMA HandOutKeeps ==
  ASSUME PInv, NEW s \in Server, NEW t \in Thread, NEW pl \in BOOLEAN,
         NEW r \in RangeRec \cup EntryRec, HandOut(s, t, r, pl),
         UNCHANGED queued, UNCHANGED next, Pulling(s) = pl,
         entry[s] # NoRange \/ pc[s][t] \in Loads
  PROVE  Loading' /\ \A q \in Server : One(q)'
<1>1. TInv /\ Loading /\ \A q \in Server : One(q)
  BY DEF PInv
<1>2. /\ entry'[s] # NoRange /\ entry'[s].pulling = pl
      /\ \A q \in Server : q # s => entry'[q] = entry[q]
  BY <1>1, HandOutPulling
<1>3. PICK l \in {"idle", "reply"} : pc' = [pc EXCEPT ![s][t] = l]
  BY <1>1, HandOutPulling
<1>4. l \notin Loads
  BY DEF Loads
<1>5. Pulling(s)' = Pulling(s)
  BY <1>2 DEF Pulling
<1> QED BY <1>1, <1>2, <1>3, <1>4, <1>5, ThreadKeeps

LEMMA ServeOne ==
  ASSUME PInv, NEW s \in Server, NEW t \in Thread,
         Serve(s, t) \/ FinishPull(s, t) \/ FinishLoad(s, t)
  PROVE  Loading' /\ \A q \in Server : One(q)'
<1>1. TInv /\ t \in Proc
  BY DEF PInv, Proc
<1>2. CASE Serve(s, t)
  <2>1. pc[s][t] \in NeedsEntry
    BY <1>2 DEF Serve, AtEntry, NeedsEntry
  <2> QED BY <1>1, <1>2, <2>1, EntryThere, HandOutKeeps DEF Serve
<1>3. CASE FinishPull(s, t)
  <2>1. pc[s][t] \in NeedsEntry
    BY <1>3 DEF FinishPull, NeedsEntry
  <2>2. Taken(s, t) \in RangeRec
    BY <1>1, <1>3, CommitType DEF FinishPull
  <2> QED BY <1>1, <1>3, <2>1, <2>2, EntryThere, HandOutKeeps DEF FinishPull
<1>4. CASE FinishLoad(s, t)
  <2>1. pc[s][t] \in Loads
    BY <1>4 DEF FinishLoad, Loads
  <2>2. Taken(s, t) \in RangeRec
    BY <1>1, <1>4, CommitType DEF FinishLoad
  <2>3. Pulling(s) = FALSE
    BY <2>1 DEF PInv, Loading, Pulling
  <2> QED BY <1>4, <2>1, <2>2, <2>3, HandOutKeeps DEF FinishLoad
<1> QED BY <1>2, <1>3, <1>4

(* The prefetched range is taken over: nothing is pulling any more.        *)
LEMMA SwapOne ==
  ASSUME PInv, IsFiniteSet(Worker), NEW s \in Server, NEW t \in Thread, SwapNext(s, t)
  PROVE  Loading' /\ \A q \in Server : One(q)'
<1>1. TInv /\ Loading /\ (\A q \in Server : One(q)) /\ t \in Proc
  BY DEF PInv, Proc
<1>2. /\ next \in [Server -> RangeRec \cup {NoRange}]
      /\ next[s] # NoRange /\ next' = [next EXCEPT ![s] = NoRange]
      /\ HandOut(s, t, next[s], FALSE) /\ UNCHANGED queued
  BY <1>1 DEF SwapNext, TInv, TypeOK, DataOK
<1>3. pc[s][t] \in NeedsEntry
  BY DEF SwapNext, AtEntry, NeedsEntry
<1>4. entry[s] # NoRange /\ Pulling(s) \in BOOLEAN
  BY <1>1, <1>3, EntryThere
<1>5. /\ entry'[s].pulling = FALSE
      /\ \A q \in Server : q # s => entry'[q] = entry[q]
  BY <1>1, <1>2, HandOutPulling
<1>6. PICK l \in {"idle", "reply"} : pc' = [pc EXCEPT ![s][t] = l]
  BY <1>1, <1>2, HandOutPulling
<1>7. l \notin Loads
  BY DEF Loads
<1>8. Loading'
  BY <1>1, <1>4, <1>5, <1>6, <1>7, MoveLoading
<1>9. Busy(s)' = Busy(s) /\ \A q \in Server : q # s => pc'[q] = pc[q]
  BY <1>1, <1>6, BusyThread
<1>10. /\ Stored(s) = 1 /\ Stored(s)' = 0 /\ Pulling(s)' = FALSE
       /\ queued'[s] = queued[s]
       /\ \A q \in Server : q # s => next'[q] = next[q]
  BY <1>2, <1>5 DEF Stored, Pulling
<1>11. Cardinality(Busy(s)) \in Nat /\ queued[s] \in Nat
  BY <1>1, Counts
<1>12. queued[s] + Cardinality(Busy(s)) + 1 <= IF Pulling(s) THEN 1 ELSE 0
  BY <1>1, <1>10 DEF One
<1>13. queued[s] = 0 /\ Cardinality(Busy(s)) = 0
  BY <1>4, <1>11, <1>12
<1>14. One(s)'
  BY <1>9, <1>10, <1>13 DEF One
<1> QED BY <1>1, <1>2, <1>5, <1>8, <1>9, <1>10, <1>14, OnlyOne

(* is_pulling is set and the task queued, or refused.                      *)
LEMMA PrefetchOne ==
  ASSUME PInv, IsFiniteSet(Worker), NEW s \in Server, NEW t \in Thread,
         ServeAndPrefetch(s, t) \/ PrefetchRefused(s, t)
  PROVE  Loading' /\ \A q \in Server : One(q)'
<1>1. TInv /\ Loading /\ (\A q \in Server : One(q)) /\ t \in Proc
  BY DEF PInv, Proc
<1>2. pc[s][t] \in NeedsEntry /\ ~entry[s].pulling /\ UNCHANGED next
  BY DEF ServeAndPrefetch, PrefetchRefused, AtEntry, NeedsEntry
<1>3. entry[s] # NoRange /\ entry[s] \in EntryRec /\ Pulling(s) = FALSE
  BY <1>1, <1>2, EntryThere
<1>4. /\ entry'[s] # NoRange /\ entry'[s].pulling = TRUE
      /\ \A q \in Server : q # s => entry'[q] = entry[q]
      /\ \E l \in {"idle", "reply"} : pc' = [pc EXCEPT ![s][t] = l]
  <2>1. CASE ServeAndPrefetch(s, t)
    <3>1. HandOut(s, t, entry[s], TRUE)
      BY <2>1 DEF ServeAndPrefetch
    <3> QED BY <1>1, <1>3, <3>1, HandOutPulling
  <2>2. CASE PrefetchRefused(s, t)
    <3>1. entry \in [Server -> EntryRec \cup {NoRange}]
      BY <1>1 DEF TInv, TypeOK, DataOK
    <3> DEFINE e == [entry[s] EXCEPT !.pulling = TRUE]
    <3>2. e \in EntryRec /\ e # NoRange /\ e.pulling = TRUE
      BY <1>3, NoRangeAssumption DEF EntryRec
    <3>3. entry' = [entry EXCEPT ![s] = e]
      BY <2>2, <3>1 DEF PrefetchRefused
    <3> HIDE DEF e
    <3>4. \E l \in {"idle", "reply"} : pc' = [pc EXCEPT ![s][t] = l]
      BY <2>2, AnswerPc DEF PrefetchRefused
    <3> QED BY <3>1, <3>2, <3>3, <3>4
  <2> QED BY <2>1, <2>2
<1>5. PICK l \in {"idle", "reply"} : pc' = [pc EXCEPT ![s][t] = l]
  BY <1>4
<1>6. l \notin Loads
  BY DEF Loads
<1>7. Loading'
  BY <1>1, <1>3, <1>4, <1>5, <1>6, MoveLoading
<1>8. Busy(s)' = Busy(s) /\ \A q \in Server : q # s => pc'[q] = pc[q]
  BY <1>1, <1>5, BusyThread
<1>9. Stored(s)' = Stored(s) /\ Pulling(s)' = TRUE
  BY <1>2, <1>4 DEF Stored, Pulling
<1>10. /\ Cardinality(Busy(s)) \in Nat /\ queued[s] \in Nat /\ Stored(s) \in Nat
       /\ queued \in [Server -> Nat]
  BY <1>1, Counts DEF TInv, TypeOK, DataOK
<1>11. queued[s] + Cardinality(Busy(s)) + Stored(s) <= 0
  BY <1>1, <1>3 DEF One
<1>12. queued[s] = 0 /\ Cardinality(Busy(s)) = 0 /\ Stored(s) = 0
  BY <1>10, <1>11
<1>13. /\ queued'[s] = 1 \/ (queued'[s] = 0 /\ TaskMayFail)
       /\ \A q \in Server : q # s => queued'[q] = queued[q]
  <2>1. CASE ServeAndPrefetch(s, t)
    <3>1. queued' = [queued EXCEPT ![s] = queued[s] + 1]
      BY <2>1 DEF ServeAndPrefetch
    <3> QED BY <1>10, <1>12, <3>1
  <2>2. CASE PrefetchRefused(s, t)
    BY <1>12, <2>2 DEF PrefetchRefused
  <2> QED BY <2>1, <2>2
<1>14. One(s)'
  BY <1>8, <1>9, <1>12, <1>13 DEF One
<1> QED BY <1>1, <1>2, <1>4, <1>7, <1>8, <1>13, <1>14, OnlyOne


(* The other steps of a thread do not touch the entry.                     *)
LEMMA QuietOne ==
  ASSUME PInv, NEW s \in Server, NEW t \in Thread,
         \/ Lookup(s, t) \/ StartPull(s, t) \/ BatLookup(s, t) \/ BatServe(s, t)
         \/ StartBatPull(s, t) \/ FinishBatLoad(s, t) \/ FinishBatPull(s, t)
         \/ Deliver(s, t)
  PROVE  Loading' /\ \A q \in Server : One(q)'
<1>1. TInv /\ Loading /\ \A q \in Server : One(q)
  BY DEF PInv
<1>2. UNCHANGED entry /\ UNCHANGED queued /\ UNCHANGED next
  BY DEF Lookup, StartPull, BatLookup, BatServe, StartBatPull, FinishBatLoad,
         FinishBatPull, Deliver, memVars
<1>3. \E l : /\ pc' = [pc EXCEPT ![s][t] = l]
             /\ l \in Loads => entry[s] = NoRange /\ MapFree(s)
  <2>1. CASE BatServe(s, t) \/ FinishBatLoad(s, t) \/ FinishBatPull(s, t)
    <3>1. \E l \in {"idle", "reply"} : pc' = [pc EXCEPT ![s][t] = l]
      BY <2>1, AnswerPc DEF BatServe, FinishBatLoad, FinishBatPull
    <3> QED BY <3>1 DEF Loads
  <2>2. CASE \/ Lookup(s, t) \/ StartPull(s, t) \/ BatLookup(s, t)
             \/ StartBatPull(s, t) \/ Deliver(s, t)
    BY <2>2 DEF Lookup, StartPull, BatLookup, StartBatPull, Deliver, Goto, Loads
  <2> QED BY <2>1, <2>2
<1>4. PICK l : /\ pc' = [pc EXCEPT ![s][t] = l]
               /\ l \in Loads => entry[s] = NoRange /\ MapFree(s)
  BY <1>3
<1>5. Pulling(s)' = Pulling(s)
  BY <1>2 DEF Pulling
<1> QED BY <1>1, <1>2, <1>4, <1>5, ThreadKeeps

-----------------------------------------------------------------------------
(* The plugin's own pool.                                                  *)

(* A pool thread that is busy and stays so.                                *)
LEMMA WorkerKeeps ==
  ASSUME PInv, NEW s \in Server, NEW w \in Worker, NEW l,
         pc' = [pc EXCEPT ![s][w] = l], pc[s][w] # "idle", l # "idle",
         UNCHANGED entry, UNCHANGED queued, UNCHANGED next
  PROVE  Loading' /\ \A q \in Server : One(q)'
<1>1. /\ TInv /\ Loading /\ \A q \in Server : One(q)
      /\ w \in Proc /\ w \notin Thread
  BY RuleAssumption DEF PInv, Proc
<1>2. Loading'
  BY <1>1, MoveLoading
<1>3. Busy(s)' = Busy(s) \cup {w} /\ \A q \in Server : q # s => pc'[q] = pc[q]
  BY <1>1, BusyWorker
<1>4. w \in Busy(s)
  BY DEF Busy
<1>5. Busy(s)' = Busy(s)
  BY <1>3, <1>4
<1>6. One(s)'
  BY <1>1, <1>5 DEF One, Stored, Pulling
<1> QED BY <1>1, <1>2, <1>3, <1>6, OnlyOne

LEMMA RowOne ==
  ASSUME PInv, NEW s \in Server, NEW p \in Proc, SelectRow(s, p) \/ FailRow(s, p)
  PROVE  Loading' /\ \A q \in Server : One(q)'
<1>1. /\ TInv /\ Loading /\ \A q \in Server : One(q)
      /\ p \in Thread \/ p \in Worker
  BY DEF PInv, Proc
<1>2. UNCHANGED entry /\ UNCHANGED queued /\ UNCHANGED next
  BY DEF SelectRow, FailRow, memVars
<1>3. Pulling(s)' = Pulling(s)
  BY <1>2 DEF Pulling
<1>4. PICK l : pc' = [pc EXCEPT ![s][p] = l]
               /\ \/ l = AtRow[pc[s][p]] /\ pc[s][p] \in Waiting
                  \/ l = IF p \in Worker THEN "failed" ELSE "idle"
  BY DEF SelectRow, FailRow, Goto
<1>5. pc[s][p] # "idle"
  BY DEF SelectRow, FailRow, Waiting, Selected
<1>6. CASE p \in Thread
  <2>1. p \notin Worker
    BY <1>6, RuleAssumption
  <2>2. l \in Loads => pc[s][p] \in Loads
    BY <1>4, <2>1 DEF Loads, AtRow, Waiting
  <2>3. l \in Loads => entry'[s] = NoRange
    BY <1>1, <1>2, <1>6, <2>2 DEF Loading
  <2> QED BY <1>1, <1>2, <1>3, <1>4, <1>6, <2>2, <2>3, ThreadKeeps
<1>7. CASE p \in Worker
  <2>1. l # "idle"
    BY <1>4, <1>7 DEF AtRow, Waiting
  <2> QED BY <1>2, <1>4, <1>5, <1>7, <2>1, WorkerKeeps
<1> QED BY <1>1, <1>6, <1>7

LEMMA WorkerOne ==
  ASSUME PInv, IsFiniteSet(Worker), NEW s \in Server, NEW w \in Worker, WorkerStep(s, w)
  PROVE  Loading' /\ \A q \in Server : One(q)'
<1>1. /\ TInv /\ Loading /\ \A q \in Server : One(q)
      /\ w \in Proc /\ w \notin Thread
  BY RuleAssumption DEF PInv, Proc
<1>2. /\ IsFiniteSet(Busy(s)) /\ Cardinality(Busy(s)) \in Nat
      /\ queued[s] \in Nat /\ Stored(s) \in {0, 1}
      /\ queued \in [Server -> Nat]
      /\ next \in [Server -> RangeRec \cup {NoRange}]
      /\ entry \in [Server -> EntryRec \cup {NoRange}]
  BY <1>1, Counts DEF TInv, TypeOK, DataOK
<1>3. queued[s] + Cardinality(Busy(s)) + Stored(s) <= 1
  <2>1. CASE Pulling(s)
    BY <1>1, <2>1 DEF One
  <2>2. CASE ~Pulling(s)
    <3>1. queued[s] + Cardinality(Busy(s)) + Stored(s) <= 0
      BY <1>1, <2>2 DEF One
    <3> QED BY <1>2, <3>1
  <2> QED BY <2>1, <2>2
<1>4. CASE StartFetch(s, w)
  <2>1. /\ pc' = [pc EXCEPT ![s][w] = "fetch"] /\ pc[s][w] = "idle"
        /\ queued[s] > 0 /\ queued'[s] = queued[s] - 1
        /\ \A q \in Server : q # s => queued'[q] = queued[q]
        /\ UNCHANGED entry /\ UNCHANGED next
    BY <1>2, <1>4 DEF StartFetch, Goto
  <2>2. Loading'
    BY <1>1, <2>1, MoveLoading
  <2>3. /\ Busy(s)' = Busy(s) \cup {w} /\ w \notin Busy(s)
        /\ \A q \in Server : q # s => pc'[q] = pc[q]
    <3>1. w \notin Busy(s)
      BY <2>1 DEF Busy
    <3>2. PICK l : l = "fetch"
      OBVIOUS
    <3>3. pc' = [pc EXCEPT ![s][w] = l] /\ l # "idle"
      BY <2>1, <3>2
    <3> QED BY <1>1, <3>1, <3>3, BusyWorker
  <2>4. Cardinality(Busy(s)') = Cardinality(Busy(s)) + 1
    BY <1>2, <2>3, FS_AddElement
  <2>5. Stored(s)' = Stored(s) /\ Pulling(s)' = Pulling(s)
    BY <2>1 DEF Stored, Pulling
  <2>6. queued'[s] + Cardinality(Busy(s)') = queued[s] + Cardinality(Busy(s))
    BY <1>2, <2>1, <2>4
  <2>7. One(s)'
    BY <1>1, <2>5, <2>6 DEF One
  <2> QED BY <1>1, <2>1, <2>2, <2>3, <2>7, OnlyOne
<1>5. CASE FinishFetch(s, w)
  <2>1. /\ pc' = [pc EXCEPT ![s][w] = "store"] /\ pc[s][w] # "idle"
        /\ UNCHANGED entry /\ UNCHANGED queued /\ UNCHANGED next
    BY <1>5 DEF FinishFetch, Goto, memVars
  <2> QED BY <2>1, WorkerKeeps
<1>6. ASSUME StoreNext(s, w) \/ FetchFailed(s, w)
      PROVE  /\ pc' = [pc EXCEPT ![s][w] = "idle"] /\ UNCHANGED queued
             /\ w \in Busy(s) /\ Busy(s)' = Busy(s) \ {w}
             /\ Cardinality(Busy(s)) = 1 /\ queued[s] = 0 /\ Stored(s) = 0
             /\ Cardinality(Busy(s)') = 0
             /\ Pulling(s)
             /\ \A q \in Server : q # s => pc'[q] = pc[q]
  <2>1. pc' = [pc EXCEPT ![s][w] = "idle"] /\ pc[s][w] # "idle" /\ UNCHANGED queued
    BY <1>6 DEF StoreNext, FetchFailed, Goto
  <2>2. /\ Busy(s)' = Busy(s) \ {w} /\ w \in Busy(s)
        /\ \A q \in Server : q # s => pc'[q] = pc[q]
    BY <1>1, <2>1, BusyWorker DEF Busy
  <2>3. Cardinality(Busy(s)') = Cardinality(Busy(s)) - 1
    BY <1>2, <2>2, FS_RemoveElement
  <2>4. Cardinality(Busy(s)) # 0
    BY <1>2, <2>2, FS_EmptySet
  <2>5. Cardinality(Busy(s)) = 1 /\ queued[s] = 0 /\ Stored(s) = 0
    BY <1>2, <1>3, <2>4
  <2>6. Pulling(s)
    BY <1>1, <2>5 DEF One
  <2> QED BY <2>1, <2>2, <2>3, <2>5, <2>6
<1>7. CASE StoreNext(s, w)
  <2>1. /\ next'[s] = got[s][w] /\ UNCHANGED entry
        /\ \A q \in Server : q # s => next'[q] = next[q]
    BY <1>2, <1>7 DEF StoreNext
  <2>2. got[s][w] # NoRange
    BY <1>1, <1>7 DEF StoreNext, TInv, Present
  <2>3. Loading'
    BY <1>1, <1>6, <1>7, <2>1, MoveLoading
  <2>4. Stored(s)' = 1 /\ Pulling(s)' = Pulling(s)
    BY <2>1, <2>2 DEF Stored, Pulling
  <2>5. One(s)'
    BY <1>6, <1>7, <2>4 DEF One
  <2> QED BY <1>1, <1>6, <1>7, <2>1, <2>3, <2>5, OnlyOne
<1>8. CASE FetchFailed(s, w)
  <2>1. entry[s] \in EntryRec /\ entry[s] # NoRange /\ UNCHANGED next
    BY <1>2, <1>6, <1>8 DEF FetchFailed, Pulling
  <2> DEFINE e == [entry[s] EXCEPT !.pulling = FALSE]
  <2>2. e \in EntryRec /\ e # NoRange /\ e.pulling = FALSE
    BY <2>1, NoRangeAssumption DEF EntryRec
  <2>3. entry' = [entry EXCEPT ![s] = e]
    BY <1>2, <1>8 DEF FetchFailed
  <2> HIDE DEF e
  <2>4. entry'[s] = e /\ \A q \in Server : q # s => entry'[q] = entry[q]
    BY <1>2, <2>3
  <2>5. Loading'
    BY <1>1, <1>6, <1>8, <2>1, <2>4, MoveLoading
  <2>6. Stored(s)' = 0 /\ Pulling(s)' = FALSE
    BY <1>6, <1>8, <2>1, <2>2, <2>4 DEF Stored, Pulling
  <2>7. One(s)'
    BY <1>6, <1>8, <2>6 DEF One
  <2> QED BY <1>1, <1>6, <1>8, <2>1, <2>4, <2>5, <2>7, OnlyOne
<1> QED BY <1>4, <1>5, <1>7, <1>8 DEF WorkerStep

-----------------------------------------------------------------------------
LEMMA CrashOne ==
  ASSUME PInv, NEW s \in Server, Crash(s)
  PROVE  Loading' /\ \A q \in Server : One(q)'
<1>1. /\ TInv /\ Loading /\ \A q \in Server : One(q)
      /\ pc \in [Server -> [Proc -> ThreadPc \cup WorkerPc]]
      /\ entry \in [Server -> EntryRec \cup {NoRange}]
      /\ next \in [Server -> RangeRec \cup {NoRange}]
      /\ queued \in [Server -> Nat]
      /\ Thread \subseteq Proc /\ Worker \subseteq Proc
  BY DEF PInv, TInv, TypeOK, PcOK, DataOK, Proc
<1>2. /\ entry'[s] = NoRange /\ next'[s] = NoRange /\ queued'[s] = 0
      /\ \A p \in Proc : pc'[s][p] = "idle"
      /\ \A q \in Server : q # s =>
           /\ queued'[q] = queued[q] /\ next'[q] = next[q]
           /\ entry'[q] = entry[q] /\ pc'[q] = pc[q]
  BY <1>1 DEF Crash
<1>3. Loading'
  BY <1>1, <1>2 DEF Loading, Loads
<1>4. Busy(s)' = {} /\ Stored(s)' = 0 /\ Pulling(s)' = FALSE
  BY <1>1, <1>2 DEF Busy, Stored, Pulling
<1>5. Cardinality(Busy(s)') = 0
  BY <1>4, FS_EmptySet
<1>6. One(s)'
  BY <1>2, <1>4, <1>5 DEF One
<1> QED BY <1>1, <1>2, <1>3, <1>6, OnlyOne

LEMMA PrefetchInit ==
  ASSUME Init PROVE PInv
<1>1. TInv
  BY InitType
<1>2. /\ \A s \in Server : entry[s] = NoRange /\ next[s] = NoRange /\ queued[s] = 0
      /\ \A s \in Server, p \in Proc : pc[s][p] = "idle"
      /\ Thread \subseteq Proc /\ Worker \subseteq Proc
  BY DEF Init, Proc
<1>3. Loading
  BY <1>2 DEF Loading, Loads
<1>4. ASSUME NEW s \in Server PROVE One(s)
  <2>1. Busy(s) = {} /\ Stored(s) = 0 /\ Pulling(s) = FALSE
    BY <1>2 DEF Busy, Stored, Pulling
  <2>2. Cardinality(Busy(s)) = 0
    BY <2>1, FS_EmptySet
  <2> QED BY <1>2, <2>1, <2>2 DEF One
<1> QED BY <1>1, <1>3, <1>4 DEF PInv

LEMMA PrefetchNext ==
  ASSUME IsFiniteSet(Worker), PInv, [Next]_vars PROVE PInv'
<1>1. TInv'
  BY NextType DEF PInv
<1>2. Loading' /\ \A q \in Server : One(q)'
  <2>1. CASE Reconfigure \/ UNCHANGED vars
    <3>1. UNCHANGED entry /\ UNCHANGED queued /\ UNCHANGED next /\ UNCHANGED pc
      BY <2>1 DEF Reconfigure, vars, memVars
    <3> QED BY <3>1 DEF PInv, Loading, One, Busy, Stored, Pulling
  <2>2. ASSUME NEW s \in Server, NEW t \in Thread, ThreadStep(s, t)
        PROVE  Loading' /\ \A q \in Server : One(q)'
    BY <2>2, QuietOne, ServeOne, SwapOne, PrefetchOne DEF ThreadStep
  <2>3. ASSUME NEW s \in Server, NEW w \in Worker, WorkerStep(s, w)
        PROVE  Loading' /\ \A q \in Server : One(q)'
    BY <2>3, WorkerOne
  <2>4. ASSUME NEW s \in Server, NEW p \in Proc, SelectRow(s, p) \/ FailRow(s, p)
        PROVE  Loading' /\ \A q \in Server : One(q)'
    BY <2>4, RowOne
  <2>5. ASSUME NEW s \in Server, Crash(s)
        PROVE  Loading' /\ \A q \in Server : One(q)'
    BY <2>5, CrashOne
  <2> QED BY <2>1, <2>2, <2>3, <2>4, <2>5 DEF Next
<1> QED BY <1>1, <1>2 DEF PInv

(* is_pulling says exactly whether one prefetch is queued, running or      *)
(* waiting in m_map_seq_next: a second one, which would overwrite a pulled *)
(* range, never starts, and none is forgotten unless its task was refused. *)
THEOREM PrefetchOnce ==
  ASSUME IsFiniteSet(Worker) PROVE Spec => []OnePrefetch
<1>1. Init => PInv
  BY PrefetchInit
<1>2. PInv /\ [Next]_vars => PInv'
  BY PrefetchNext
<1>3. PInv => OnePrefetch
  BY PrefetchesAre DEF PInv, One, OnePrefetch
<1> QED BY <1>1, <1>2, <1>3, PTL DEF Spec


-----------------------------------------------------------------------------
(***************************************************************************)
(* Ids are unique: SeqServer implements SeqLedger and answers no id twice, *)
(* for any processes, threads, restarts and changes of the row, as long as *)
(* commits and tasks do not fail, no sequence cycles, and the sums of      *)
(* PullOneSeqAtrr fit their type (Healthy).                                *)
(***************************************************************************)

(* How many ids a transaction may take; top is above every cur_val.        *)
Sizes(r) == {r.cache} \cup {3 * c : c \in BatchCount} \cup BatchCount
              \cup {q.batchFetch * c : q \in Rule, c \in BatchCount}

Healthy(top) ==
  /\ ~CommitMayFail /\ ~TaskMayFail
  /\ StartVal <= top
  /\ \A r \in Rule : /\ ~r.cycle /\ r.max <= top
                     /\ \A n \in Sizes(r) : top + r.step * n < Modulus

-----------------------------------------------------------------------------
(* The places an id can be in.                                             *)
E(s)    == <<"entry", s, 0>>
N(s)    == <<"next", s, 0>>
B(s, c) == <<"bat", s, c>>
G(s, w) == <<"got", s, w>>
Y(s, t) == <<"reply", s, t>>

LEMMA Places ==
  /\ \A s \in Server : E(s) \in Holder /\ N(s) \in Holder
  /\ \A s \in Server, c \in BatchCount : B(s, c) \in Holder
  /\ \A s \in Server, w \in Worker : G(s, w) \in Holder
  /\ \A s \in Server, t \in Thread : Y(s, t) \in Holder
  BY DEF Holder, E, N, B, G, Y

LEMMA PlaceKinds ==
  ASSUME NEW h \in Holder
  PROVE  \/ \E s \in Server : h = E(s) \/ h = N(s)
         \/ \E s \in Server, c \in BatchCount : h = B(s, c)
         \/ \E s \in Server, w \in Worker : h = G(s, w)
         \/ \E s \in Server, t \in Thread : h = Y(s, t)
  BY DEF Holder, E, N, B, G, Y

LEMMA OwnAt ==
  /\ \A s : Own(E(s)) = Span(entry[s]) /\ Own(N(s)) = Span(next[s])
  /\ \A s, c : Own(B(s, c)) = BatSpan(s, c)
  /\ \A s, w : Own(G(s, w)) = Span(got[s][w])
  /\ \A s, t : Own(Y(s, t)) = reply[s][t]
  BY DEF Own, E, N, B, G, Y

LEMMA OwnAtNext ==
  /\ \A s : Own(E(s))' = Span(entry'[s]) /\ Own(N(s))' = Span(next'[s])
  /\ \A s, c : Own(B(s, c))' = BatSpan(s, c)'
  /\ \A s, w : Own(G(s, w))' = Span(got'[s][w])
  /\ \A s, t : Own(Y(s, t))' = reply'[s][t]
  BY DEF Own, E, N, B, G, Y, Span

LEMMA OthersKeep ==
  ASSUME NEW A \in SUBSET Holder,
         \A s \in Server : E(s) \notin A => Span(entry'[s]) \subseteq Span(entry[s]),
         \A s \in Server : N(s) \notin A => Span(next'[s]) \subseteq Span(next[s]),
         \A s \in Server, c \in BatchCount : B(s, c) \notin A => BatSpan(s, c)' \subseteq BatSpan(s, c),
         \A s \in Server, w \in Worker : G(s, w) \notin A => Span(got'[s][w]) \subseteq Span(got[s][w]),
         \A s \in Server, t \in Thread : Y(s, t) \notin A => reply'[s][t] \subseteq reply[s][t]
  PROVE  \A h \in Holder \ A : Own(h)' \subseteq Own(h)
<1> TAKE h \in Holder \ A
<1>1. CASE \E s \in Server : h = E(s) \/ h = N(s)
  BY <1>1, OwnAt, OwnAtNext
<1>2. CASE \E s \in Server, c \in BatchCount : h = B(s, c)
  BY <1>2, OwnAt, OwnAtNext
<1>3. CASE \E s \in Server, w \in Worker : h = G(s, w)
  BY <1>3, OwnAt, OwnAtNext
<1>4. CASE \E s \in Server, t \in Thread : h = Y(s, t)
  BY <1>4, OwnAt, OwnAtNext
<1> QED BY <1>1, <1>2, <1>3, <1>4, PlaceKinds

-----------------------------------------------------------------------------
(* What a step may do with ids: those of some places are mixed among these  *)
(* places, with fresh ones; elsewhere they only get lost.                  *)
Below == 0 .. cursor - 1

Owned ==
  /\ \A h \in Holder : Own(h) \subseteq Below /\ Own(h) \cap issued = {}
  /\ \A g, h \in Holder : g # h => Own(g) \cap Own(h) = {}
  /\ issued \subseteq Below

Held(A) == UNION {Own(h) : h \in A}

Moves(A) ==
  /\ cursor <= cursor' /\ issued' = issued
  /\ \A h \in Holder \ A : Own(h)' \subseteq Own(h)
  /\ \A h \in A : Own(h)' \subseteq Held(A) \cup (cursor .. cursor' - 1)
  /\ \A g, h \in A : g # h => Own(g)' \cap Own(h)' = {}

LEMMA Later ==
  ASSUME NEW a \in Nat, NEW b \in Nat, a <= b
  PROVE  /\ 0 .. a - 1 \subseteq 0 .. b - 1
         /\ \A x \in a .. b - 1 : x \in 0 .. b - 1 /\ x \notin 0 .. a - 1
  OBVIOUS

LEMMA MovesOwned ==
  ASSUME Owned, cursor \in Nat, cursor' \in Nat, NEW A \in SUBSET Holder, Moves(A)
  PROVE  Owned'
<1>1. Below \subseteq Below'
  BY Later DEF Below, Moves
<1>2. ASSUME NEW x \in cursor .. cursor' - 1
      PROVE  x \in Below' /\ x \notin Below
  BY <1>2, Later DEF Below, Moves
<1>3. issued' = issued /\ issued' \subseteq Below'
  BY <1>1 DEF Owned, Moves
<1>4. ASSUME NEW h \in A, NEW x \in Own(h)'
      PROVE  \/ \E g \in A : x \in Own(g)
             \/ x \in cursor .. cursor' - 1
  BY DEF Moves, Held
<1>5. ASSUME NEW h \in Holder, NEW x \in Own(h)'
      PROVE  x \in Below' /\ x \notin issued'
  <2>1. CASE h \notin A
    BY <1>1, <1>3, <1>5, <2>1 DEF Moves, Owned
  <2>2. CASE h \in A
    <3>1. CASE \E g \in A : x \in Own(g)
      BY <1>1, <1>3, <3>1 DEF Owned
    <3>2. CASE x \in cursor .. cursor' - 1
      BY <1>2, <1>3, <3>2 DEF Owned
    <3> QED BY <1>4, <1>5, <2>2, <3>1, <3>2
  <2> QED BY <2>1, <2>2
<1>6. ASSUME NEW g \in Holder, NEW h \in Holder, g # h, NEW x \in Own(g)', x \in Own(h)'
      PROVE  FALSE
  <2>1. CASE g \in A /\ h \in A
    BY <1>6, <2>1 DEF Moves
  <2>2. CASE g \notin A /\ h \notin A
    BY <1>6, <2>2 DEF Moves, Owned
  <2>3. ASSUME NEW a \in A, NEW b \in Holder \ A, x \in Own(a)', x \in Own(b)' PROVE FALSE
    <3>1. x \in Own(b) /\ x \in Below
      BY <2>3 DEF Moves, Owned
    <3>2. PICK f \in A : x \in Own(f)
      BY <1>2, <1>4, <2>3, <3>1
    <3> QED BY <3>1, <3>2 DEF Owned
  <2> QED BY <1>6, <2>1, <2>2, <2>3
<1> QED BY <1>3, <1>5, <1>6 DEF Owned

(* A reply that is delivered is no longer held.                            *)
LEMMA DeliverOwned ==
  ASSUME Owned, cursor' = cursor, NEW h \in Holder,
         issued' = issued \cup Own(h),
         Own(h)' = {}, \A g \in Holder \ {h} : Own(g)' \subseteq Own(g)
  PROVE  Owned'
<1>1. Below' = Below
  BY DEF Below
<1>2. issued' \subseteq Below'
  BY <1>1 DEF Owned
<1>3. ASSUME NEW g \in Holder PROVE Own(g)' \subseteq Below' /\ Own(g)' \cap issued' = {}
  <2>1. CASE g = h
    BY <2>1
  <2>2. CASE g # h
    BY <1>1, <2>2 DEF Owned
  <2> QED BY <2>1, <2>2
<1>4. ASSUME NEW f \in Holder, NEW g \in Holder, f # g PROVE Own(f)' \cap Own(g)' = {}
  <2>1. Own(f)' \subseteq Own(f) /\ Own(g)' \subseteq Own(g)
    OBVIOUS
  <2> QED BY <1>4, <2>1 DEF Owned
<1> QED BY <1>2, <1>3, <1>4 DEF Owned

(* A request hands out ids S2 of a source S, held by place Q or fresh; what *)
(* is left of S, S1, goes to place X, and the reply of Y gets S2 or nothing. *)
LEMMA GiveMoves ==
  ASSUME Owned, cursor <= cursor', issued' = issued,
         NEW X \in Holder, NEW Q \in Holder, NEW Y1 \in Holder, Y1 # X, Y1 # Q,
         NEW S, NEW S1 \in SUBSET S, NEW S2 \in SUBSET S, S1 \cap S2 = {},
         \/ S \subseteq Own(Q) /\ Own(X)' \subseteq S1
         \/ S \subseteq cursor .. cursor' - 1 /\ cursor \in Nat
              /\ (Own(X)' \subseteq S1 \/ Own(X)' \subseteq Own(X)),
         Q # X => Own(Q)' = {},
         Own(Y1)' \subseteq S2 \/ Own(Y1)' \subseteq Own(Y1),
         \A h \in Holder \ {X, Q, Y1} : Own(h)' \subseteq Own(h)
  PROVE  Moves({X, Q, Y1})
<1> DEFINE F == cursor .. cursor' - 1
<1>1. \A h \in Holder : \A x \in F : cursor \in Nat => x \notin Own(h)
  BY DEF Owned, Below
<1> HIDE DEF F
<1>2. /\ Own(X) \cap Own(Y1) = {} /\ Own(Q) \cap Own(Y1) = {}
  BY DEF Owned
<1>3. Own(X)' \cap Own(Y1)' = {}
  BY <1>1, <1>2 DEF F
<1>4. /\ Own(X)' \subseteq Held({X, Q, Y1}) \cup F
      /\ Own(Y1)' \subseteq Held({X, Q, Y1}) \cup F
      /\ Q # X => Own(Q)' \subseteq Held({X, Q, Y1}) \cup F
  BY DEF Held, F
<1>5. \A g, h \in {X, Q, Y1} : g # h => Own(g)' \cap Own(h)' = {}
  BY <1>3
<1> QED BY <1>4, <1>5 DEF Moves, F

-----------------------------------------------------------------------------
(* The ranges: their next id is not past their end, which is reached        *)
(* exactly, and a transaction works on the row as it is.                   *)
Ends(r)    == r.cur <= r.max /\ r.max < Modulus
OnStep(r)  == \E k \in Nat : r.max = r.cur + k * r.step
Filled(r)  == r.cur < r.max

InOrder(top) ==
  /\ \A s \in Server : entry[s] # NoRange => Ends(entry[s]) /\ OnStep(entry[s])
  /\ \A s \in Server :
        next[s] # NoRange => Ends(next[s]) /\ OnStep(next[s]) /\ Filled(next[s])
  /\ \A s \in Server : \A w \in Worker :
        got[s][w] # NoRange => Ends(got[s][w]) /\ OnStep(got[s][w]) /\ Filled(got[s][w])
  /\ \A s \in Server : \A c \in BatchCount :
        bat[s] # NoRange /\ bat[s].map[c] # NoRange => Ends(bat[s].map[c])
  /\ \A s \in Server, p \in Proc : rowLock = <<s, p>> => read[s][p] = cursor
  /\ cursor <= top

UInv(top) == TInv /\ Owned /\ InOrder(top)

(* One more step stays within the range and on its steps.                  *)
LEMMA StepOn ==
  ASSUME NEW a \in Nat, NEW b \in Nat, NEW d \in Nat \ {0}, a # b,
         NEW k \in Nat, b = a + k * d
  PROVE  a + d <= b /\ \E j \in Nat : b = (a + d) + j * d
<1>1. k # 0
  OBVIOUS
<1>2. k - 1 \in Nat /\ k * d = (k - 1) * d + d /\ (k - 1) * d \in Nat
  BY <1>1
<1>3. b = (a + d) + (k - 1) * d
  BY <1>2
<1> QED BY <1>2, <1>3

LEMMA ProductGrows ==
  ASSUME NEW a \in Nat, NEW b \in Nat, NEW d \in Nat, a <= b
  PROVE  a * d <= b * d
  OBVIOUS

(* What a transaction that commits brings back is fresh, and not empty.    *)
LEMMA TakenFresh ==
  ASSUME NEW top \in Nat, Healthy(top), UInv(top),
         NEW s \in Server, NEW p \in Proc, CommitRow(s, p)
  PROVE  LET r == Taken(s, p)
         IN /\ r \in RangeRec /\ cursor' \in Nat
            /\ r.cur = cursor /\ r.max = cursor'
            /\ cursor < cursor' /\ cursor' <= top /\ cursor' < Modulus
            /\ OnStep(r)
            /\ pc[s][p] \in {"batLoad!", "batPull!"} =>
                 count[s][p] * r.step <= cursor' - cursor
<1> DEFINE n == Wanted(s, p)
           d == rule.step
           c == count[s][p]
<1>1. /\ pc[s][p] \in Selected /\ rule \in Rule /\ cursor \in Nat
      /\ read[s][p] = cursor /\ cursor <= top
  BY DEF CommitRow, UInv, InOrder, TInv, TypeOK, DataOK
<1>2. /\ d \in Nat \ {0} /\ rule.max \in Nat /\ rule.max <= top /\ ~rule.cycle
      /\ rule.cache \in Nat \ {0}
  BY <1>1, RuleAssumption DEF Healthy
<1>3. /\ ~CommitMayFail
      /\ \A m \in Sizes(rule) : top + d * m < Modulus
  BY <1>1 DEF Healthy
<1>4. Taken(s, p) \in RangeRec /\ n \in Nat
  BY <1>1, TakenType DEF UInv
<1>5. pc[s][p] \in {"batLoad!", "batPull!"} => p \in Thread /\ c \in BatchCount
  BY PcKinds DEF UInv, TInv, Present, WorkerPc, Proc, NeedsCount, NeedsBat
<1>6. pc[s][p] = "batPull!" =>
        Fetch(s) = 1 \/ \E q \in Rule : Fetch(s) = q.batchFetch
  <2> SUFFICES ASSUME pc[s][p] = "batPull!"
               PROVE  Fetch(s) = 1 \/ \E q \in Rule : Fetch(s) = q.batchFetch
    OBVIOUS
  <2>1. bat[s] \in BatRec
    BY <1>5 DEF UInv, TInv, TypeOK, DataOK, Present, NeedsBat
  <2>2. \E q \in Rule : bat[s].fetch = q.batchFetch
    BY <2>1 DEF BatRec
  <2> QED BY <2>2 DEF Fetch
<1>7. n \in Sizes(rule) /\ n # 0
      /\ (pc[s][p] \in {"batLoad!", "batPull!"} => c <= n)
  <2>1. CASE pc[s][p] \in {"load!", "pull!", "fetch!"}
    <3>1. n = rule.cache
      BY <2>1 DEF Wanted
    <3> QED BY <1>2, <2>1, <3>1 DEF Sizes
  <2>2. CASE pc[s][p] = "batLoad!"
    <3>1. n = 3 * c /\ c \in BatchCount /\ c \in Nat \ {0}
      BY <1>5, <2>2, BatchCountPos DEF Wanted
    <3>2. n # 0 /\ c <= n
      BY <3>1
    <3> HIDE DEF n
    <3> QED BY <3>1, <3>2 DEF Sizes
  <2>3. CASE pc[s][p] = "batPull!"
    <3>1. n = Fetch(s) * c /\ c \in BatchCount /\ c \in Nat \ {0}
      BY <1>5, <2>3, BatchCountPos DEF Wanted
    <3> HIDE DEF n
    <3>2. CASE Fetch(s) = 1
      <4>1. n = c
        BY <3>1, <3>2
      <4> QED BY <3>1, <4>1 DEF Sizes
    <3>3. ASSUME NEW q \in Rule, Fetch(s) = q.batchFetch
          PROVE  n \in Sizes(rule) /\ n # 0 /\ c <= n
      <4>1. q.batchFetch \in Nat \ {0} /\ n = q.batchFetch * c
        BY <3>1, <3>3, RuleAssumption
      <4>2. 1 * c <= q.batchFetch * c
        BY <3>1, <4>1, ProductGrows
      <4>3. n # 0 /\ c <= n
        BY <3>1, <4>1, <4>2
      <4> QED BY <3>1, <4>1, <4>3 DEF Sizes
    <3> QED BY <1>6, <2>3, <3>2, <3>3
  <2> QED BY <1>1, <2>1, <2>2, <2>3 DEF Selected
<1> HIDE DEF n, d, c
<1>8. top + d * n < Modulus /\ d * n \in Nat /\ d * n # 0 /\ d * n = n * d
  BY <1>2, <1>3, <1>4, <1>7
<1>9. Target(cursor, rule, n) = cursor + d * n
  <2>1. cursor + d * n < Modulus
    BY <1>1, <1>8, RuleAssumption
  <2> QED BY <2>1 DEF Target, UAdd, d
<1>10. ~OverMax(cursor, rule, n)
  BY <1>1, <1>2 DEF CommitRow, Refused, n
<1>11. /\ NewCursor(cursor, rule, n) = cursor + d * n
       /\ cursor + d * n <= rule.max
  <2>1. cursor + d * n \in Nat
    BY <1>1, <1>8
  <2> QED BY <1>2, <1>9, <1>10, <2>1 DEF NewCursor, OverMax
<1>12. cursor' = cursor + d * n
  BY <1>1, <1>3, <1>11 DEF CommitRow, n
<1>13. /\ Taken(s, p).cur = cursor /\ Taken(s, p).max = cursor' /\ Taken(s, p).step = d
  BY <1>1, <1>11, <1>12 DEF Taken, Pulled, n, d
<1>14. cursor' \in Nat /\ cursor < cursor' /\ cursor' <= top /\ cursor' < Modulus
  BY <1>1, <1>2, <1>8, <1>11, <1>12, RuleAssumption
<1>15. OnStep(Taken(s, p))
  BY <1>4, <1>8, <1>12, <1>13 DEF OnStep
<1>16. pc[s][p] \in {"batLoad!", "batPull!"} => c * d <= cursor' - cursor
  <2> SUFFICES ASSUME pc[s][p] \in {"batLoad!", "batPull!"} PROVE c * d <= n * d
    BY <1>1, <1>8, <1>12
  <2>1. c \in Nat /\ c <= n
    BY <1>5, <1>7, BatchCountPos
  <2> QED BY <1>2, <1>4, <2>1, ProductGrows
<1> QED BY <1>4, <1>13, <1>14, <1>15, <1>16 DEF c


-----------------------------------------------------------------------------
(* Requests for one id.                                                    *)

LEMMA Distinct ==
  /\ \A s, q, t : Y(s, t) # E(q) /\ Y(s, t) # N(q)
  /\ \A s, q, c, t : Y(s, t) # B(q, c)
  /\ \A s, q : E(s) # N(q)
  BY DEF E, N, B, G, Y

(* The end of a request: its place gets the ids or keeps what it has.      *)
LEMMA AnswerOwn ==
  ASSUME TInv, NEW s \in Server, NEW t \in Thread, NEW v, NEW ids,
         Answer(s, t, v, ids)
  PROVE  /\ Own(Y(s, t))' \subseteq ids \/ Own(Y(s, t))' \subseteq Own(Y(s, t))
         /\ \A q \in Server, u \in Thread :
              Y(q, u) # Y(s, t) => reply'[q][u] \subseteq reply[q][u]
<1>1. reply \in [Server -> [Thread -> SUBSET Nat]]
  BY DEF TInv, TypeOK, DataOK
<1>2. reply' = reply \/ reply' = [reply EXCEPT ![s][t] = ids]
  BY DEF Answer
<1>3. reply'[s][t] = ids \/ reply'[s][t] = reply[s][t]
  BY <1>1, <1>2
<1>4. \A q \in Server, u \in Thread :
         q # s \/ u # t => reply'[q][u] = reply[q][u]
  BY <1>1, <1>2
<1> QED BY <1>3, <1>4, OwnAt, OwnAtNext DEF Y

LEMMA SumExact ==
  ASSUME NEW a \in Nat, NEW d \in Nat, NEW b \in Nat, a + d <= b, b < Modulus
  PROVE  UAdd(a, d) = a + d
<1>1. Modulus \in Nat
  BY RuleAssumption
<1> QED BY <1>1 DEF UAdd

(* A range without its first id.                                           *)
LEMMA FirstOff ==
  ASSUME NEW r \in RangeRec \cup EntryRec, NEW e, Ends(r), OnStep(r), r.cur # r.max,
         e.cur = UAdd(r.cur, r.step), e.max = r.max, e.step = r.step, e # NoRange
  PROVE  /\ Ends(e) /\ OnStep(e)
         /\ Span(e) \subseteq Span(r) /\ r.cur \in Span(r) /\ r.cur \notin Span(e)
<1> DEFINE a == r.cur
           b == r.max
           d == r.step
<1>1. r # NoRange /\ a \in Nat /\ b \in Nat /\ d \in Nat \ {0} /\ a # b
  BY NoRangeAssumption DEF RangeRec, EntryRec
<1>2. PICK k \in Nat : b = a + k * d
  BY DEF OnStep
<1>3. a <= b /\ b < Modulus
  BY DEF Ends
<1> HIDE DEF a, b, d
<1>4. a + d <= b /\ \E j \in Nat : b = (a + d) + j * d
  BY <1>1, <1>2, StepOn
<1>5. UAdd(a, d) = a + d
  BY <1>1, <1>3, <1>4, SumExact
<1>6. Span(r) = a .. b - 1 /\ Span(e) = a + d .. b - 1
  BY <1>1, <1>5 DEF Span, a, b, d
<1>7. /\ a + d .. b - 1 \subseteq a .. b - 1
      /\ a \in a .. b - 1 /\ a \notin a + d .. b - 1
  BY <1>1, <1>4
<1>8. Ends(e) /\ OnStep(e)
  BY <1>3, <1>4, <1>5 DEF Ends, OnStep, a, b, d
<1> QED BY <1>6, <1>7, <1>8 DEF a

LEMMA HandOutMoves ==
  ASSUME TInv, Owned, NEW s \in Server, NEW t \in Thread, NEW pl \in BOOLEAN,
         NEW r \in RangeRec \cup EntryRec, HandOut(s, t, r, pl),
         Ends(r), OnStep(r), r.cur # r.max,
         cursor <= cursor', UNCHANGED bat, UNCHANGED got, UNCHANGED issued,
         \/ r = entry[s] /\ UNCHANGED next
         \/ r = next[s] /\ next' = [next EXCEPT ![s] = NoRange]
         \/ Span(r) \subseteq cursor .. cursor' - 1 /\ UNCHANGED next
  PROVE  /\ \E A \in SUBSET Holder : Moves(A)
         /\ Ends(entry'[s]) /\ OnStep(entry'[s])
         /\ \A q \in Server : q # s => entry'[q] = entry[q]
<1> DEFINE e == [cur |-> UAdd(r.cur, r.step), max |-> r.max, step |-> r.step,
                 alert |-> r.alert, status |-> r.status, pulling |-> pl]
<1>1. /\ entry \in [Server -> EntryRec \cup {NoRange}]
      /\ next \in [Server -> RangeRec \cup {NoRange}]
      /\ cursor \in Nat
  BY DEF TInv, TypeOK, DataOK
<1>2. entry'[s] = e /\ \A q \in Server : q # s => entry'[q] = entry[q]
  BY <1>1 DEF HandOut
<1>3. e # NoRange
  <2>1. /\ r.cur \in Nat /\ r.max \in Nat /\ r.step \in Nat \ {0}
        /\ r.alert \in Nat /\ r.status \in Nat
    BY DEF RangeRec, EntryRec
  <2>2. e \in EntryRec
    BY <2>1, UAddNat DEF EntryRec
  <2> QED BY <2>2, NoRangeAssumption
<1>4. /\ e.cur = UAdd(r.cur, r.step) /\ e.max = r.max /\ e.step = r.step
  OBVIOUS
<1> HIDE DEF e
<1>5. /\ Ends(e) /\ OnStep(e)
      /\ Span(e) \subseteq Span(r) /\ r.cur \in Span(r) /\ r.cur \notin Span(e)
  BY <1>3, <1>4, FirstOff
<1>6. /\ Own(Y(s, t))' \subseteq {r.cur} \/ Own(Y(s, t))' \subseteq Own(Y(s, t))
      /\ \A q \in Server, u \in Thread :
           Y(q, u) # Y(s, t) => reply'[q][u] \subseteq reply[q][u]
  BY AnswerOwn DEF HandOut
<1>7. Own(E(s))' = Span(e)
  BY <1>2, OwnAtNext
<1>8. E(s) \in Holder /\ N(s) \in Holder /\ Y(s, t) \in Holder
  BY Places
<1>9. /\ \A q \in Server : E(q) # E(s) => Span(entry'[q]) \subseteq Span(entry[q])
      /\ \A q \in Server, c \in BatchCount : BatSpan(q, c)' \subseteq BatSpan(q, c)
      /\ \A q \in Server, w \in Worker : Span(got'[q][w]) \subseteq Span(got[q][w])
      /\ \A q \in Server : q # s => Span(next'[q]) \subseteq Span(next[q])
  BY <1>1, <1>2 DEF E, BatSpan, Span
<1>10. Span(next'[s]) \subseteq Span(next[s])
  BY <1>1 DEF Span
<1>11. ASSUME NEW Q \in {E(s), N(s)}
       PROVE  \A h \in Holder \ {E(s), Q, Y(s, t)} : Own(h)' \subseteq Own(h)
  BY <1>6, <1>8, <1>9, <1>10, OthersKeep
<1>12. {r.cur} \in SUBSET Span(r) /\ Span(e) \in SUBSET Span(r) /\ Span(e) \cap {r.cur} = {}
  BY <1>5
<1>13. Own(Y(s, t))' \subseteq {r.cur} \/ Own(Y(s, t))' \subseteq Own(Y(s, t))
  BY <1>6
<1> DEFINE S1 == Span(e)
           S2 == {r.cur}
           S  == Span(r)
<1>17. S1 \in SUBSET S /\ S2 \in SUBSET S /\ S1 \cap S2 = {} /\ Own(E(s))' \subseteq S1
  BY <1>7, <1>12
<1>18. Own(Y(s, t))' \subseteq S2 \/ Own(Y(s, t))' \subseteq Own(Y(s, t))
  BY <1>13
<1> HIDE DEF S1, S2, S
<1>14. CASE r = entry[s]
  <2>1. S \subseteq Own(E(s))
    BY <1>14, OwnAt DEF S
  <2>3. \A h \in Holder \ {E(s), E(s), Y(s, t)} : Own(h)' \subseteq Own(h)
    BY <1>11
  <2>2. Moves({E(s), E(s), Y(s, t)})
    BY <1>8, <1>17, <1>18, <2>1, <2>3, Distinct, GiveMoves
  <2> QED BY <1>2, <1>5, <1>8, <2>2
<1>15. CASE r = next[s] /\ next' = [next EXCEPT ![s] = NoRange]
  <2>1. S \subseteq Own(N(s)) /\ Own(N(s))' = {}
    BY <1>1, <1>15, OwnAt, OwnAtNext DEF Span, S
  <2>3. \A h \in Holder \ {E(s), N(s), Y(s, t)} : Own(h)' \subseteq Own(h)
    BY <1>11
  <2>2. Moves({E(s), N(s), Y(s, t)})
    BY <1>8, <1>17, <1>18, <2>1, <2>3, Distinct, GiveMoves
  <2> QED BY <1>2, <1>5, <1>8, <2>2
<1>16. CASE Span(r) \subseteq cursor .. cursor' - 1
  <2>3. \A h \in Holder \ {E(s), E(s), Y(s, t)} : Own(h)' \subseteq Own(h)
    BY <1>11
  <2>4. S \subseteq cursor .. cursor' - 1
    BY <1>16 DEF S
  <2>1. Moves({E(s), E(s), Y(s, t)})
    BY <1>1, <1>8, <1>17, <1>18, <2>3, <2>4, Distinct, GiveMoves
  <2> QED BY <1>2, <1>5, <1>8, <2>1
<1> QED BY <1>14, <1>15, <1>16


-----------------------------------------------------------------------------
(* Requests for a batch.                                                   *)

LEMMA BatchIds ==
  ASSUME NEW v \in Nat, NEW n \in Nat \ {0}, NEW d \in Nat \ {0}, NEW x \in Ids(v, n, d)
  PROVE  x \in v .. v + n * d - 1
<1>1. PICK i \in 0 .. n - 1 : x = v + i * d
  BY DEF Ids
<1>2. i \in Nat /\ n - 1 \in Nat /\ i <= n - 1
  OBVIOUS
<1>3. i * d <= (n - 1) * d
  BY <1>2, ProductGrows
<1>4. (n - 1) * d = n * d - d /\ i * d \in Nat /\ n * d \in Nat
  BY <1>2
<1> DEFINE p == i * d
           m == n * d
           z == (n - 1) * d
<1>5. p \in Nat /\ m \in Nat /\ z = m - d /\ p <= z /\ x = v + p
  BY <1>1, <1>3, <1>4
<1> HIDE DEF p, m, z
<1>6. x \in v .. v + m - 1
  BY <1>5
<1> QED BY <1>6 DEF m

(* A range without its first n steps.                                      *)
LEMMA BatchOff ==
  ASSUME NEW r \in RangeRec, NEW n \in Nat \ {0}, Ends(r), n * r.step <= r.max - r.cur
  PROVE  /\ Ends(After(r, n))
         /\ Span(After(r, n)) \subseteq Span(r)
         /\ Ids(r.cur, n, r.step) \subseteq Span(r)
         /\ Span(After(r, n)) \cap Ids(r.cur, n, r.step) = {}
<1> DEFINE a == r.cur
           b == r.max
           m == n * r.step
<1>1. /\ r # NoRange /\ a \in Nat /\ b \in Nat /\ r.step \in Nat \ {0}
      /\ r.alert \in Nat /\ r.status \in Nat
  BY NoRangeAssumption DEF RangeRec
<1>2. m \in Nat
  BY <1>1, ProductNat
<1>3. a <= b /\ b < Modulus /\ m <= b - a
  BY DEF Ends
<1>4. Ids(r.cur, n, r.step) \subseteq a .. a + m - 1
  BY <1>1, BatchIds
<1>5. After(r, n) \in RangeRec
  BY AfterType
<1>6. After(r, n).cur = UAdd(a, m) /\ After(r, n).max = b /\ After(r, n) # NoRange
  BY <1>5, NoRangeAssumption DEF After, RangeRec
<1> HIDE DEF a, b, m
<1>7. a + m <= b
  BY <1>1, <1>2, <1>3
<1>8. UAdd(a, m) = a + m
  BY <1>1, <1>2, <1>3, <1>7, SumExact
<1>9. Span(r) = a .. b - 1 /\ Span(After(r, n)) = a + m .. b - 1
  BY <1>1, <1>6, <1>8 DEF Span, a, b
<1>10. /\ a + m .. b - 1 \subseteq a .. b - 1
       /\ a .. a + m - 1 \subseteq a .. b - 1
       /\ \A x \in a .. a + m - 1 : x \notin a + m .. b - 1
  BY <1>1, <1>2, <1>7
<1>11. Ends(After(r, n))
  BY <1>3, <1>6, <1>7, <1>8 DEF Ends
<1> QED BY <1>4, <1>9, <1>10, <1>11

LEMMA BatOutMoves ==
  ASSUME TInv, Owned, NEW s \in Server, NEW t \in Thread, NEW c \in BatchCount,
         NEW r \in RangeRec, NEW b \in BatRec, bat' = [bat EXCEPT ![s] = b],
         Answer(s, t, r.cur, Ids(r.cur, c, r.step)),
         Ends(r), c * r.step <= r.max - r.cur,
         cursor <= cursor',
         UNCHANGED entry, UNCHANGED next, UNCHANGED got, UNCHANGED issued,
         \A d \in BatchCount : d # c =>
            b.map[d] = NoRange \/ (bat[s] # NoRange /\ b.map[d] = bat[s].map[d]),
         \/ /\ bat[s] # NoRange /\ r = bat[s].map[c]
            /\ b.map[c] = After(r, c)
         \/ /\ Span(r) \subseteq cursor .. cursor' - 1
            /\ \/ b.map[c] = After(r, c)
               \/ bat[s] # NoRange /\ b.map[c] = bat[s].map[c]
  PROVE  \E A \in SUBSET Holder : Moves(A)
<1> DEFINE S1 == Span(After(r, c))
           S2 == Ids(r.cur, c, r.step)
           S  == Span(r)
           X1 == B(s, c)
           Y1 == Y(s, t)
<1>1. /\ bat \in [Server -> BatRec \cup {NoRange}]
      /\ cursor \in Nat /\ c \in Nat \ {0}
  BY BatchCountPos DEF TInv, TypeOK, DataOK
<1>2. bat'[s] = b /\ b # NoRange /\ \A q \in Server : q # s => bat'[q] = bat[q]
  BY <1>1, NoRangeAssumption
<1>3. S1 \in SUBSET S /\ S2 \in SUBSET S /\ S1 \cap S2 = {}
  BY <1>1, BatchOff
<1>4. /\ Own(Y1)' \subseteq S2 \/ Own(Y1)' \subseteq Own(Y1)
      /\ \A q \in Server, u \in Thread :
           Y(q, u) # Y1 => reply'[q][u] \subseteq reply[q][u]
  BY AnswerOwn
<1>5. X1 \in Holder /\ Y1 \in Holder /\ Y1 # X1
  BY Places, Distinct
<1>6. \A q \in Server : /\ Span(entry'[q]) \subseteq Span(entry[q])
                        /\ Span(next'[q]) \subseteq Span(next[q])
                        /\ \A w \in Worker : Span(got'[q][w]) \subseteq Span(got[q][w])
  BY DEF Span
<1>7. Own(X1)' = Span(b.map[c])
  BY <1>2, OwnAtNext DEF BatSpan, Span
<1>8. \A d \in BatchCount : d # c => BatSpan(s, d)' \subseteq BatSpan(s, d)
  BY <1>2 DEF BatSpan, Span
<1>9. \A q \in Server, d \in BatchCount :
         B(q, d) # X1 => BatSpan(q, d)' \subseteq BatSpan(q, d)
  <2> SUFFICES ASSUME NEW q \in Server, NEW d \in BatchCount, B(q, d) # X1
               PROVE  BatSpan(q, d)' \subseteq BatSpan(q, d)
    OBVIOUS
  <2>1. CASE q = s
    <3>1. d # c
      BY <2>1
    <3> QED BY <1>8, <2>1, <3>1
  <2>2. CASE q # s
    BY <1>2, <2>2 DEF BatSpan, Span
  <2> QED BY <2>1, <2>2
<1> HIDE DEF S1, S2, S, X1, Y1
<1>10. \A h \in Holder \ {X1, X1, Y1} : Own(h)' \subseteq Own(h)
  BY <1>4, <1>5, <1>6, <1>9, OthersKeep
<1>11. CASE bat[s] # NoRange /\ r = bat[s].map[c] /\ b.map[c] = After(r, c)
  <2>1. S \subseteq Own(X1) /\ Own(X1)' \subseteq S1
    BY <1>7, <1>11, OwnAt DEF S, S1, X1, BatSpan
  <2>2. Moves({X1, X1, Y1})
    BY <1>3, <1>4, <1>5, <1>10, <2>1, GiveMoves
  <2> QED BY <1>5, <2>2
<1>12. CASE /\ Span(r) \subseteq cursor .. cursor' - 1
            /\ \/ b.map[c] = After(r, c)
               \/ bat[s] # NoRange /\ b.map[c] = bat[s].map[c]
  <2>1. Own(X1)' \subseteq S1 \/ Own(X1)' \subseteq Own(X1)
    BY <1>7, <1>12, OwnAt DEF S1, X1, BatSpan
  <2>2. S \subseteq cursor .. cursor' - 1
    BY <1>12 DEF S
  <2>3. Moves({X1, X1, Y1})
    BY <1>1, <1>3, <1>4, <1>5, <1>10, <2>1, <2>2, GiveMoves
  <2> QED BY <1>5, <2>3
<1> QED BY <1>11, <1>12


-----------------------------------------------------------------------------
(* Every step but a delivery moves ids and keeps the ranges in order.      *)
UStep == \E A \in SUBSET Holder : Moves(A)

RowRead == \A s \in Server, p \in Proc : rowLock = <<s, p>> => read[s][p] = cursor

SameRange(q, r) ==
  \/ r = q
  \/ q # NoRange /\ r # NoRange /\ r.cur = q.cur /\ r.max = q.max /\ r.step = q.step

LEMMA QuietStep ==
  ASSUME NEW top, UInv(top), RowRead',
         UNCHANGED <<cursor, next, bat, got, reply, issued>>,
         \A s \in Server : SameRange(entry[s], entry'[s])
  PROVE  InOrder(top)' /\ UStep
<1>1. cursor \in Nat
  BY DEF UInv, TInv, TypeOK, DataOK
<1>2. \A s \in Server : Span(entry'[s]) \subseteq Span(entry[s])
  BY DEF SameRange, Span
<1>3. /\ \A s \in Server : Span(next'[s]) \subseteq Span(next[s])
      /\ \A s \in Server, c \in BatchCount : BatSpan(s, c)' \subseteq BatSpan(s, c)
      /\ \A s \in Server, w \in Worker : Span(got'[s][w]) \subseteq Span(got[s][w])
      /\ \A s \in Server, t \in Thread : reply'[s][t] \subseteq reply[s][t]
  BY DEF BatSpan, Span
<1>4. \A h \in Holder \ {} : Own(h)' \subseteq Own(h)
  BY <1>2, <1>3, OthersKeep
<1>5. Moves({})
  BY <1>1, <1>4 DEF Moves
<1>6. \A s \in Server :
         entry'[s] # NoRange => Ends(entry'[s]) /\ OnStep(entry'[s])
  BY DEF SameRange, UInv, InOrder, Ends, OnStep
<1>7. InOrder(top)'
  BY <1>6 DEF UInv, InOrder, RowRead
<1> QED BY <1>5, <1>7 DEF UStep

(* The row's lock and what its holder has read.                            *)
LEMMA RowSame ==
  ASSUME RowRead, UNCHANGED <<rowLock, read, cursor>> PROVE RowRead'
  BY DEF RowRead

LEMMA RowFree == ASSUME rowLock' = Free PROVE RowRead'
  BY DEF RowRead, Free

LEMMA FreeNone == \A s, p : Free # <<s, p>>
  BY DEF Free

LEMMA InOrderRow == ASSUME NEW top, UInv(top) PROVE RowRead
  BY DEF UInv, InOrder, RowRead

LEMMA SelectQuiet ==
  ASSUME NEW top, UInv(top), NEW s \in Server, NEW p \in Proc,
         SelectRow(s, p) \/ FailRow(s, p)
  PROVE  InOrder(top)' /\ UStep
<1>1. read \in [Server -> [Proc -> Nat]] /\ RowRead
  BY InOrderRow DEF UInv, TInv, TypeOK, DataOK
<1>2. CASE SelectRow(s, p)
  <2>1. /\ rowLock' = <<s, p>> /\ cursor' = cursor
        /\ read'[s][p] = cursor
    BY <1>1, <1>2 DEF SelectRow
  <2>2. RowRead'
    BY <2>1 DEF RowRead
  <2> QED BY <1>2, <2>2, QuietStep DEF SelectRow, memVars, SameRange
<1>3. CASE FailRow(s, p)
  <2>1. /\ rowLock' = Free \/ (rowLock' = rowLock /\ rowLock # <<s, p>>)
        /\ cursor' = cursor
        /\ \A q \in Server, r \in Proc : q # s \/ r # p => read'[q][r] = read[q][r]
    BY <1>1, <1>3 DEF FailRow
  <2>2. RowRead'
    BY <1>1, <2>1, FreeNone DEF RowRead
  <2> QED BY <1>3, <2>2, QuietStep DEF FailRow, memVars, SameRange
<1> QED BY <1>2, <1>3

LEMMA ThreadQuiet ==
  ASSUME NEW top, UInv(top), NEW s \in Server, NEW t \in Thread,
         \/ Lookup(s, t) \/ BatLookup(s, t)
         \/ StartPull(s, t) \/ StartBatPull(s, t)
  PROVE  InOrder(top)' /\ UStep
<1>1. UNCHANGED <<cursor, rowLock, memVars, read, got, reply, issued>>
  BY DEF Lookup, BatLookup, StartPull, StartBatPull
<1>2. RowRead'
  BY <1>1, RowSame, InOrderRow
<1> QED BY <1>1, <1>2, QuietStep DEF memVars, SameRange

LEMMA WorkerQuiet ==
  ASSUME NEW top, UInv(top), NEW s \in Server, NEW w \in Worker,
         StartFetch(s, w) \/ FetchFailed(s, w)
  PROVE  InOrder(top)' /\ UStep
<1>1. UNCHANGED <<cursor, rowLock, next, bat, read, got, reply, issued>>
  BY DEF StartFetch, FetchFailed
<1>2. RowRead'
  BY <1>1, RowSame, InOrderRow
<1>3. \A q \in Server : SameRange(entry[q], entry'[q])
  <2>1. CASE StartFetch(s, w)
    BY <2>1 DEF StartFetch, SameRange
  <2>2. CASE FetchFailed(s, w)
    <3>1. entry \in [Server -> EntryRec \cup {NoRange}] /\ entry[s] \in EntryRec
      BY <2>2 DEF FetchFailed, UInv, TInv, TypeOK, DataOK, Present
    <3> DEFINE e == [entry[s] EXCEPT !.pulling = FALSE]
    <3>2. e \in EntryRec /\ e # NoRange /\ entry[s] # NoRange
      BY <3>1, NoRangeAssumption DEF EntryRec
    <3>3. e.cur = entry[s].cur /\ e.max = entry[s].max /\ e.step = entry[s].step
      BY <3>1 DEF EntryRec
    <3>4. entry' = [entry EXCEPT ![s] = e]
      BY <2>2, <3>1 DEF FetchFailed
    <3> HIDE DEF e
    <3> QED BY <3>1, <3>2, <3>3, <3>4 DEF SameRange
  <2> QED BY <2>1, <2>2
<1> QED BY <1>1, <1>2, <1>3, QuietStep

LEMMA IdleQuiet ==
  ASSUME NEW top, UInv(top), Reconfigure \/ UNCHANGED vars
  PROVE  InOrder(top)' /\ UStep
<1>1. UNCHANGED <<cursor, rowLock, memVars, read, got, reply, issued>>
  BY DEF Reconfigure, vars, memVars
<1>2. RowRead'
  BY <1>1, RowSame, InOrderRow
<1> QED BY <1>1, <1>2, QuietStep DEF memVars, SameRange

(* A process that dies loses what it held.                                 *)
LEMMA CrashMoves ==
  ASSUME NEW top, UInv(top), NEW s \in Server, Crash(s)
  PROVE  InOrder(top)' /\ UStep
<1>1. /\ cursor \in Nat /\ entry \in [Server -> EntryRec \cup {NoRange}]
      /\ next \in [Server -> RangeRec \cup {NoRange}]
      /\ bat \in [Server -> BatRec \cup {NoRange}]
      /\ got \in [Server -> [Worker -> RangeRec \cup {NoRange}]]
      /\ reply \in [Server -> [Thread -> SUBSET Nat]]
      /\ read \in [Server -> [Proc -> Nat]]
  BY DEF UInv, TInv, TypeOK, DataOK
<1>2. /\ entry'[s] = NoRange /\ next'[s] = NoRange /\ bat'[s] = NoRange
      /\ \A w \in Worker : got'[s][w] = NoRange
      /\ \A t \in Thread : reply'[s][t] = {}
      /\ cursor' = cursor /\ issued' = issued
  BY <1>1 DEF Crash
<1>3. \A q \in Server : q # s =>
         /\ entry'[q] = entry[q] /\ next'[q] = next[q] /\ bat'[q] = bat[q]
         /\ got'[q] = got[q] /\ reply'[q] = reply[q] /\ read'[q] = read[q]
  BY <1>1 DEF Crash
<1>9. ASSUME NEW q \in Server
      PROVE  /\ Span(entry'[q]) \subseteq Span(entry[q])
             /\ Span(next'[q]) \subseteq Span(next[q])
             /\ \A c \in BatchCount : BatSpan(q, c)' \subseteq BatSpan(q, c)
             /\ \A w \in Worker : Span(got'[q][w]) \subseteq Span(got[q][w])
             /\ \A t \in Thread : reply'[q][t] \subseteq reply[q][t]
  <2>1. CASE q = s
    BY <1>2, <2>1 DEF Span, BatSpan
  <2>2. CASE q # s
    BY <1>3, <2>2 DEF Span, BatSpan
  <2> QED BY <2>1, <2>2
<1>4. \A h \in Holder \ {} : Own(h)' \subseteq Own(h)
  BY <1>9, OthersKeep
<1>5. Moves({})
  BY <1>1, <1>2, <1>4 DEF Moves
<1>6. \/ rowLock' = Free
      \/ rowLock' = rowLock /\ \A p \in Proc : rowLock # <<s, p>>
  BY DEF Crash
<1>7. RowRead'
  BY <1>2, <1>3, <1>6, InOrderRow, FreeNone DEF RowRead
<1>8. InOrder(top)'
  BY <1>2, <1>3, <1>7 DEF UInv, InOrder, RowRead
<1> QED BY <1>5, <1>8 DEF UStep


(* A request that is served from memory: Q is what it takes from.          *)
LEMMA ServeMoves ==
  ASSUME NEW top, UInv(top), NEW s \in Server, NEW t \in Thread,
         SwapNext(s, t) \/ Serve(s, t) \/ ServeAndPrefetch(s, t)
  PROVE  InOrder(top)' /\ UStep
<1>1. /\ cursor \in Nat
      /\ entry \in [Server -> EntryRec \cup {NoRange}]
      /\ next \in [Server -> RangeRec \cup {NoRange}]
      /\ TInv /\ Owned
  BY DEF UInv, TInv, TypeOK, DataOK
<1>2. entry[s] \in EntryRec /\ entry[s] # NoRange /\ entry[s].pulling \in BOOLEAN
  BY <1>1, NoRangeAssumption
     DEF SwapNext, Serve, ServeAndPrefetch, AtEntry, TInv, Present, NeedsEntry, EntryRec
<1>3. UNCHANGED <<cursor, rowLock, bat, read, got, issued>>
  BY DEF SwapNext, Serve, ServeAndPrefetch
<1>4. RowRead' /\ cursor <= cursor'
  BY <1>1, <1>3, RowSame, InOrderRow
<1>5. CASE SwapNext(s, t)
  <2> DEFINE r == next[s]
  <2>1. /\ HandOut(s, t, r, FALSE) /\ next' = [next EXCEPT ![s] = NoRange]
        /\ r \in RangeRec /\ r # NoRange
    BY <1>1, <1>5 DEF SwapNext
  <2>2. Ends(r) /\ OnStep(r) /\ r.cur < r.max /\ r.cur \in Nat /\ r.max \in Nat
    BY <2>1 DEF UInv, InOrder, Filled, RangeRec
  <2>3. r.cur # r.max
    BY <2>2
  <2> HIDE DEF r
  <2>4. r = next[s]
    BY DEF r
  <2>5. /\ UStep /\ Ends(entry'[s]) /\ OnStep(entry'[s])
        /\ \A q \in Server : q # s => entry'[q] = entry[q]
    BY <1>1, <1>3, <1>4, <2>1, <2>2, <2>3, <2>4, HandOutMoves DEF UStep
  <2>6. \A q \in Server : next'[q] # NoRange => next'[q] = next[q]
    BY <1>1, <2>1
  <2> QED BY <1>3, <1>4, <2>5, <2>6 DEF UInv, InOrder, RowRead
<1>6. CASE Serve(s, t) \/ ServeAndPrefetch(s, t)
  <2> DEFINE r == entry[s]
  <2>1. PICK pl \in BOOLEAN : HandOut(s, t, r, pl)
    BY <1>2, <1>6 DEF Serve, ServeAndPrefetch
  <2>2. Ends(r) /\ OnStep(r) /\ r.cur # r.max /\ next' = next
    BY <1>2, <1>6 DEF UInv, InOrder, Serve, ServeAndPrefetch, Exhausted
  <2> HIDE DEF r
  <2>3. r = entry[s] /\ r \in EntryRec
    BY <1>2 DEF r
  <2>4. /\ UStep /\ Ends(entry'[s]) /\ OnStep(entry'[s])
        /\ \A q \in Server : q # s => entry'[q] = entry[q]
    BY <1>1, <1>3, <1>4, <2>1, <2>2, <2>3, HandOutMoves DEF UStep
  <2> QED BY <1>3, <1>4, <2>2, <2>4 DEF UInv, InOrder, RowRead
<1> QED BY <1>5, <1>6

(* A transaction that commits: its range is exactly the fresh ids.         *)
LEMMA FreshRange ==
  ASSUME NEW top \in Nat, Healthy(top), UInv(top),
         NEW s \in Server, NEW p \in Proc, CommitRow(s, p), NEW r, r = Taken(s, p)
  PROVE  /\ r \in RangeRec /\ r # NoRange
         /\ Ends(r) /\ OnStep(r) /\ Filled(r) /\ r.cur # r.max
         /\ Span(r) \subseteq cursor .. cursor' - 1
         /\ cursor <= cursor' /\ cursor' <= top
         /\ RowRead'
         /\ pc[s][p] \in {"batLoad!", "batPull!"} =>
              count[s][p] * r.step <= r.max - r.cur
<1>1. /\ r \in RangeRec /\ cursor' \in Nat
      /\ r.cur = cursor /\ r.max = cursor'
      /\ cursor < cursor' /\ cursor' <= top /\ cursor' < Modulus
      /\ OnStep(r)
      /\ pc[s][p] \in {"batLoad!", "batPull!"} =>
           count[s][p] * r.step <= cursor' - cursor
  BY TakenFresh
<1>2. cursor \in Nat /\ r # NoRange
  BY <1>1, NoRangeAssumption DEF UInv, TInv, TypeOK, DataOK
<1>3. RowRead'
  BY RowFree DEF CommitRow
<1>4. cursor <= cursor' /\ cursor # cursor'
  BY <1>1, <1>2
<1>5. Ends(r) /\ Filled(r) /\ r.cur # r.max
  BY <1>1, <1>4 DEF Ends, Filled
<1>6. Span(r) \subseteq cursor .. cursor' - 1
  BY <1>1, <1>2 DEF Span
<1> QED BY <1>1, <1>2, <1>3, <1>4, <1>5, <1>6

LEMMA FinishEntryMoves ==
  ASSUME NEW top \in Nat, Healthy(top), UInv(top), NEW s \in Server, NEW t \in Thread,
         FinishLoad(s, t) \/ FinishPull(s, t)
  PROVE  InOrder(top)' /\ UStep
<1>1. t \in Proc /\ CommitRow(s, t) /\ TInv /\ Owned
  BY DEF FinishLoad, FinishPull, Proc, UInv
<1>2. PICK r : r = Taken(s, t)
  OBVIOUS
<1>3. /\ r \in RangeRec /\ Ends(r) /\ OnStep(r) /\ r.cur # r.max
      /\ Span(r) \subseteq cursor .. cursor' - 1
      /\ cursor <= cursor' /\ cursor' <= top /\ RowRead'
  BY <1>1, <1>2, FreshRange
<1>4. PICK pl \in BOOLEAN : HandOut(s, t, r, pl)
  <2>1. CASE FinishLoad(s, t)
    BY <1>2, <2>1 DEF FinishLoad
  <2>2. CASE FinishPull(s, t)
    <3>1. entry[s].pulling \in BOOLEAN
      BY <2>2 DEF FinishPull, UInv, TInv, TypeOK, DataOK, Present, NeedsEntry, EntryRec
    <3> QED BY <1>2, <2>2, <3>1 DEF FinishPull
  <2> QED BY <2>1, <2>2
<1>5. UNCHANGED next /\ UNCHANGED bat /\ UNCHANGED got /\ UNCHANGED issued
  BY DEF FinishLoad, FinishPull
<1>6. /\ UStep /\ Ends(entry'[s]) /\ OnStep(entry'[s])
      /\ \A q \in Server : q # s => entry'[q] = entry[q]
  BY <1>1, <1>3, <1>4, <1>5, HandOutMoves DEF UStep
<1> QED BY <1>3, <1>5, <1>6 DEF UInv, InOrder, RowRead


(* The pool's thread pulls a range and stores it.                          *)
LEMMA FetchMoves ==
  ASSUME NEW top \in Nat, Healthy(top), UInv(top), NEW s \in Server, NEW w \in Worker,
         FinishFetch(s, w)
  PROVE  InOrder(top)' /\ UStep
<1>1. w \in Proc /\ CommitRow(s, w) /\ got \in [Server -> [Worker -> RangeRec \cup {NoRange}]]
  BY DEF FinishFetch, Proc, UInv, TInv, TypeOK, DataOK
<1>2. PICK r : r = Taken(s, w)
  OBVIOUS
<1>3. /\ Ends(r) /\ OnStep(r) /\ Filled(r) /\ Span(r) \subseteq cursor .. cursor' - 1
      /\ cursor <= cursor' /\ cursor' <= top /\ RowRead'
  BY <1>1, <1>2, FreshRange
<1>4. /\ got'[s][w] = r
      /\ \A q \in Server, u \in Worker : q # s \/ u # w => got'[q][u] = got[q][u]
      /\ UNCHANGED entry /\ UNCHANGED next /\ UNCHANGED bat
      /\ UNCHANGED reply /\ UNCHANGED issued
  BY <1>1, <1>2 DEF FinishFetch, memVars
<1>5. Own(G(s, w))' \subseteq cursor .. cursor' - 1 /\ G(s, w) \in Holder
  BY <1>3, <1>4, OwnAtNext, Places
<1>6. \A h \in Holder \ {G(s, w)} : Own(h)' \subseteq Own(h)
  <2>1. /\ \A q \in Server : Span(entry'[q]) \subseteq Span(entry[q])
        /\ \A q \in Server : Span(next'[q]) \subseteq Span(next[q])
        /\ \A q \in Server, c \in BatchCount : BatSpan(q, c)' \subseteq BatSpan(q, c)
        /\ \A q \in Server, t \in Thread : reply'[q][t] \subseteq reply[q][t]
    BY <1>4 DEF Span, BatSpan
  <2>2. \A q \in Server, u \in Worker :
           G(q, u) # G(s, w) => Span(got'[q][u]) \subseteq Span(got[q][u])
    BY <1>4 DEF G
  <2> QED BY <1>5, <2>1, <2>2, OthersKeep
<1>7. Moves({G(s, w)})
  BY <1>3, <1>4, <1>5, <1>6 DEF Moves
<1>8. InOrder(top)'
  BY <1>3, <1>4 DEF UInv, InOrder, RowRead
<1> QED BY <1>5, <1>7, <1>8 DEF UStep

LEMMA StoreMoves ==
  ASSUME NEW top, UInv(top), NEW s \in Server, NEW w \in Worker, StoreNext(s, w)
  PROVE  InOrder(top)' /\ UStep
<1>1. /\ got \in [Server -> [Worker -> RangeRec \cup {NoRange}]]
      /\ next \in [Server -> RangeRec \cup {NoRange}]
      /\ cursor \in Nat /\ got[s][w] # NoRange
  BY DEF StoreNext, UInv, TInv, TypeOK, DataOK, Present
<1>2. /\ next'[s] = got[s][w] /\ got'[s][w] = NoRange
      /\ \A q \in Server : q # s => next'[q] = next[q]
      /\ \A q \in Server, u \in Worker : q # s \/ u # w => got'[q][u] = got[q][u]
      /\ UNCHANGED <<cursor, rowLock, read>>
      /\ UNCHANGED entry /\ UNCHANGED bat
      /\ UNCHANGED reply /\ UNCHANGED issued
  BY <1>1 DEF StoreNext
<1>3. /\ Own(N(s))' = Own(G(s, w)) /\ Own(G(s, w))' = {}
      /\ N(s) \in Holder /\ G(s, w) \in Holder
  <2>1. Own(N(s))' = Span(next'[s]) /\ Own(G(s, w)) = Span(got[s][w])
    BY OwnAt, OwnAtNext
  <2>2. Own(G(s, w))' = Span(got'[s][w]) /\ Span(NoRange) = {}
    BY OwnAtNext DEF Span
  <2> QED BY <1>2, <2>1, <2>2, Places
<1>4. \A h \in Holder \ {N(s), G(s, w)} : Own(h)' \subseteq Own(h)
  <2>1. /\ \A q \in Server : Span(entry'[q]) \subseteq Span(entry[q])
        /\ \A q \in Server, c \in BatchCount : BatSpan(q, c)' \subseteq BatSpan(q, c)
        /\ \A q \in Server, t \in Thread : reply'[q][t] \subseteq reply[q][t]
    BY <1>2 DEF Span, BatSpan
  <2>2. /\ \A q \in Server, u \in Worker :
             G(q, u) # G(s, w) => Span(got'[q][u]) \subseteq Span(got[q][u])
        /\ \A q \in Server : N(q) # N(s) => Span(next'[q]) \subseteq Span(next[q])
    BY <1>2 DEF G, N
  <2> QED BY <1>3, <2>1, <2>2, OthersKeep
<1>5. Moves({N(s), G(s, w)})
  BY <1>1, <1>2, <1>3, <1>4 DEF Moves, Held
<1>6. RowRead'
  BY <1>2, RowSame, InOrderRow
<1>7. /\ \A q \in Server :
           next'[q] # NoRange => Ends(next'[q]) /\ OnStep(next'[q]) /\ Filled(next'[q])
      /\ \A q \in Server : \A u \in Worker : got'[q][u] # NoRange => got'[q][u] = got[q][u]
  BY <1>1, <1>2 DEF UInv, InOrder
<1>8. InOrder(top)'
  BY <1>2, <1>6, <1>7 DEF UInv, InOrder, RowRead
<1> QED BY <1>3, <1>5, <1>8 DEF UStep

(* Batches.  b is the entry the step leaves in the batch map.              *)
LEMMA BatInOrder ==
  ASSUME NEW top, UInv(top), NEW s \in Server, NEW b \in BatRec,
         bat' = [bat EXCEPT ![s] = b],
         UNCHANGED entry, UNCHANGED next, UNCHANGED got,
         \A d \in BatchCount : b.map[d] # NoRange => Ends(b.map[d]),
         cursor' <= top, RowRead'
  PROVE  InOrder(top)'
<1>1. bat \in [Server -> BatRec \cup {NoRange}]
  BY DEF UInv, TInv, TypeOK, DataOK
<1>2. \A q \in Server : bat'[q] = IF q = s THEN b ELSE bat[q]
  BY <1>1
<1>3. \A q \in Server : \A c \in BatchCount :
        bat'[q] # NoRange /\ bat'[q].map[c] # NoRange => Ends(bat'[q].map[c])
  BY <1>2 DEF UInv, InOrder
<1> QED BY <1>3 DEF UInv, InOrder, RowRead

LEMMA BatServeMoves ==
  ASSUME NEW top, UInv(top), NEW s \in Server, NEW t \in Thread, BatServe(s, t)
  PROVE  InOrder(top)' /\ UStep
<1> DEFINE c == count[s][t]
           r == bat[s].map[c]
           b == [bat[s] EXCEPT !.map[c] = After(r, c)]
<1>1. c \in BatchCount /\ bat[s] # NoRange /\ c \in Nat \ {0}
  BY BatchCountPos DEF BatServe, UInv, TInv, Present, NeedsBat, NeedsCount
<1>2. /\ bat \in [Server -> BatRec \cup {NoRange}] /\ bat[s] \in BatRec
      /\ TInv /\ Owned /\ cursor \in Nat
  BY <1>1 DEF UInv, TInv, TypeOK, DataOK
<1>3. r \in RangeRec /\ r # NoRange /\ USub(r.max, r.cur) >= c * r.step
  BY <1>1, <1>2 DEF BatServe, Covers, Leftover, BatRec
<1>4. After(r, c) \in RangeRec
  BY <1>1, <1>3, AfterType
<1>5. b \in BatRec /\ b.map[c] = After(r, c)
      /\ \A d \in BatchCount : d # c => b.map[d] = bat[s].map[d]
  BY <1>1, <1>2, <1>4 DEF BatRec
<1>6. /\ bat' = [bat EXCEPT ![s] = b]
      /\ Answer(s, t, r.cur, Ids(r.cur, c, r.step))
      /\ UNCHANGED <<cursor, rowLock, read>>
      /\ UNCHANGED entry /\ UNCHANGED next /\ UNCHANGED got /\ UNCHANGED issued
  BY <1>1, <1>2 DEF BatServe, Leftover
<1>7. Ends(r)
  BY <1>1, <1>3 DEF UInv, InOrder
<1> HIDE DEF r, c
<1>8. c * r.step <= r.max - r.cur
  <2>1. r.cur <= r.max /\ r.cur \in Nat /\ r.max \in Nat
    BY <1>3, <1>7 DEF Ends, RangeRec
  <2>2. USub(r.max, r.cur) = r.max - r.cur
    BY <2>1 DEF USub
  <2>3. c * r.step \in Nat /\ r.max - r.cur \in Nat
    BY <1>1, <1>3, <2>1, ProductNat DEF RangeRec
  <2> QED BY <1>3, <2>2, <2>3
<1> HIDE DEF b
<1>9. cursor <= cursor' /\ RowRead' /\ cursor' <= top
  BY <1>2, <1>6, RowSame, InOrderRow DEF UInv, InOrder
<1>10. r = bat[s].map[c]
  BY DEF r
<1>11. UStep
  <2>1. /\ \A d \in BatchCount : d # c =>
            b.map[d] = NoRange \/ (bat[s] # NoRange /\ b.map[d] = bat[s].map[d])
        /\ bat[s] # NoRange /\ r = bat[s].map[c] /\ b.map[c] = After(r, c)
        /\ c \in BatchCount /\ r \in RangeRec /\ b \in BatRec
    BY <1>1, <1>3, <1>5, <1>10
  <2>2. \E A \in SUBSET Holder : Moves(A)
    BY <1>2, <1>6, <1>7, <1>8, <1>9, <2>1, BatOutMoves
  <2> QED BY <2>2 DEF UStep
<1>12. \A d \in BatchCount : b.map[d] # NoRange => Ends(b.map[d])
  BY <1>1, <1>3, <1>5, <1>7, <1>8, BatchOff DEF UInv, InOrder
<1> QED BY <1>5, <1>6, <1>9, <1>11, <1>12, BatInOrder

LEMMA FinishBatMoves ==
  ASSUME NEW top \in Nat, Healthy(top), UInv(top), NEW s \in Server, NEW t \in Thread,
         FinishBatLoad(s, t) \/ FinishBatPull(s, t)
  PROVE  InOrder(top)' /\ UStep
<1>1. /\ t \in Proc /\ CommitRow(s, t) /\ TInv /\ Owned
      /\ pc[s][t] \in {"batLoad!", "batPull!"}
  BY DEF FinishBatLoad, FinishBatPull, Proc, UInv
<1>2. PICK c : c = count[s][t]
  OBVIOUS
<1>3. PICK r : r = Taken(s, t)
  OBVIOUS
<1>4. c \in BatchCount /\ c \in Nat \ {0}
  BY <1>2, BatchCountPos DEF FinishBatLoad, FinishBatPull, UInv, TInv, Present, NeedsBat, NeedsCount
<1>5. /\ r \in RangeRec /\ Ends(r) /\ Span(r) \subseteq cursor .. cursor' - 1
      /\ cursor <= cursor' /\ cursor' <= top /\ RowRead'
      /\ c * r.step <= r.max - r.cur
  BY <1>1, <1>2, <1>3, FreshRange
<1>6. After(r, c) \in RangeRec /\ Ends(After(r, c))
  BY <1>4, <1>5, AfterType, BatchOff
<1>7. /\ Answer(s, t, r.cur, Ids(r.cur, c, r.step))
      /\ UNCHANGED entry /\ UNCHANGED next /\ UNCHANGED got /\ UNCHANGED issued
  BY <1>2, <1>3 DEF FinishBatLoad, FinishBatPull
<1>8. /\ rule.batchCache \in Nat /\ rule.batchFetch \in {x.batchFetch : x \in Rule}
      /\ r.status \in Nat /\ bat \in [Server -> BatRec \cup {NoRange}]
  BY <1>5, RuleAssumption DEF UInv, TInv, TypeOK, DataOK, RangeRec
<1>9. \E f \in [BatchCount -> RangeRec \cup {NoRange}] :
        /\ bat' = [bat EXCEPT ![s] = [status |-> r.status, cache |-> rule.batchCache,
                                      fetch |-> rule.batchFetch, map |-> f]]
        /\ \A d \in BatchCount : d # c =>
             f[d] = NoRange \/ (bat[s] # NoRange /\ f[d] = bat[s].map[d])
        /\ \/ f[c] = After(r, c)
           \/ bat[s] # NoRange /\ f[c] = bat[s].map[c]
  <2>1. CASE FinishBatLoad(s, t)
    <3> DEFINE f == [d \in BatchCount |-> IF d = c THEN After(r, c) ELSE NoRange]
    <3>1. /\ f \in [BatchCount -> RangeRec \cup {NoRange}] /\ f[c] = After(r, c)
          /\ \A d \in BatchCount : d # c => f[d] = NoRange
      BY <1>4, <1>6
    <3>2. bat' = [bat EXCEPT ![s] = [status |-> r.status, cache |-> rule.batchCache,
                                     fetch |-> rule.batchFetch, map |-> f]]
      BY <1>2, <1>3, <2>1 DEF FinishBatLoad
    <3> HIDE DEF f
    <3> QED BY <3>1, <3>2
  <2>2. CASE FinishBatPull(s, t)
    <3>1. bat[s] # NoRange
      BY <2>2 DEF FinishBatPull, UInv, TInv, Present, NeedsBat
    <3>2. bat[s].map \in [BatchCount -> RangeRec \cup {NoRange}]
      BY <1>8, <3>1 DEF BatRec
    <3> DEFINE keep == Cardinality({d \in BatchCount : bat[s].map[d] # NoRange})
                         < rule.batchCache
               f == IF keep THEN [bat[s].map EXCEPT ![c] = After(r, c)] ELSE bat[s].map
    <3>3. bat' = [bat EXCEPT ![s] = [status |-> r.status, cache |-> rule.batchCache,
                                     fetch |-> rule.batchFetch, map |-> f]]
      BY <1>2, <1>3, <2>2 DEF FinishBatPull
    <3> HIDE DEF keep
    <3>4. /\ f \in [BatchCount -> RangeRec \cup {NoRange}]
          /\ \A d \in BatchCount : d # c => f[d] = bat[s].map[d]
          /\ f[c] = After(r, c) \/ f[c] = bat[s].map[c]
      BY <1>4, <1>6, <3>2
    <3> HIDE DEF f
    <3> QED BY <3>1, <3>3, <3>4
  <2> QED BY <2>1, <2>2
<1>10. PICK f \in [BatchCount -> RangeRec \cup {NoRange}] :
        /\ bat' = [bat EXCEPT ![s] = [status |-> r.status, cache |-> rule.batchCache,
                                      fetch |-> rule.batchFetch, map |-> f]]
        /\ \A d \in BatchCount : d # c =>
             f[d] = NoRange \/ (bat[s] # NoRange /\ f[d] = bat[s].map[d])
        /\ \/ f[c] = After(r, c)
           \/ bat[s] # NoRange /\ f[c] = bat[s].map[c]
  BY <1>9
<1> DEFINE b == [status |-> r.status, cache |-> rule.batchCache,
                 fetch |-> rule.batchFetch, map |-> f]
<1>11. b \in BatRec /\ b.map = f /\ bat' = [bat EXCEPT ![s] = b]
  BY <1>8, <1>10 DEF BatRec
<1> HIDE DEF b
<1>12. UStep
  <2>1. /\ \A d \in BatchCount : d # c =>
            b.map[d] = NoRange \/ (bat[s] # NoRange /\ b.map[d] = bat[s].map[d])
        /\ \/ b.map[c] = After(r, c)
           \/ bat[s] # NoRange /\ b.map[c] = bat[s].map[c]
    BY <1>10, <1>11
  <2>2. \E A \in SUBSET Holder : Moves(A)
    BY <1>1, <1>4, <1>5, <1>7, <1>11, <2>1, BatOutMoves
  <2> QED BY <2>2 DEF UStep
<1>13. \A d \in BatchCount : b.map[d] # NoRange => Ends(b.map[d])
  BY <1>6, <1>10, <1>11 DEF UInv, InOrder
<1> QED BY <1>5, <1>7, <1>11, <1>12, <1>13, BatInOrder


-----------------------------------------------------------------------------
(* A delivery gives away what its place holds and disturbs nothing else.   *)
Gives(h) ==
  /\ cursor' = cursor /\ issued' = issued \cup Own(h)
  /\ Own(h)' = {}
  /\ \A g \in Holder \ {h} : Own(g)' = Own(g)

UGive == \E h \in Holder : Gives(h)

LEMMA DeliverGives ==
  ASSUME NEW top, UInv(top), NEW s \in Server, NEW t \in Thread, Deliver(s, t)
  PROVE  InOrder(top)' /\ UGive
<1>1. reply \in [Server -> [Thread -> SUBSET Nat]]
  BY DEF UInv, TInv, TypeOK, DataOK
<1>2. /\ reply'[s][t] = {}
      /\ \A q \in Server, u \in Thread : q # s \/ u # t => reply'[q][u] = reply[q][u]
      /\ UNCHANGED <<cursor, rowLock, read>>
      /\ UNCHANGED entry /\ UNCHANGED next /\ UNCHANGED bat /\ UNCHANGED got
      /\ issued' = issued \cup reply[s][t]
  BY <1>1 DEF Deliver, memVars
<1>3. /\ Y(s, t) \in Holder
      /\ Own(Y(s, t)) = reply[s][t] /\ Own(Y(s, t))' = reply'[s][t]
  BY Places, OwnAt, OwnAtNext
<1>4. ASSUME NEW g \in Holder \ {Y(s, t)} PROVE Own(g)' = Own(g)
  <2>1. CASE \E q \in Server : g = E(q) \/ g = N(q)
    BY <1>2, <2>1, OwnAt, OwnAtNext
  <2>2. CASE \E q \in Server, c \in BatchCount : g = B(q, c)
    <3>1. \A q, c : BatSpan(q, c)' = BatSpan(q, c)
      BY <1>2 DEF BatSpan, Span
    <3> QED BY <2>2, <3>1, OwnAt, OwnAtNext
  <2>3. CASE \E q \in Server, w \in Worker : g = G(q, w)
    BY <1>2, <2>3, OwnAt, OwnAtNext
  <2>4. CASE \E q \in Server, u \in Thread : g = Y(q, u)
    <3>1. PICK q \in Server, u \in Thread : g = Y(q, u)
      BY <2>4
    <3>2. q # s \/ u # t
      BY <3>1
    <3> QED BY <1>2, <3>1, <3>2, OwnAt, OwnAtNext
  <2> QED BY <2>1, <2>2, <2>3, <2>4, PlaceKinds
<1>5. Gives(Y(s, t))
  BY <1>2, <1>3, <1>4 DEF Gives
<1>6. RowRead'
  BY <1>2, RowSame, InOrderRow
<1>7. InOrder(top)'
  BY <1>2, <1>6 DEF UInv, InOrder, RowRead
<1> QED BY <1>3, <1>5, <1>7 DEF UGive

(* Every step moves ids or delivers them.                                  *)
LEMMA StepKinds ==
  ASSUME NEW top \in Nat, Healthy(top), UInv(top), [Next]_vars
  PROVE  InOrder(top)' /\ (UStep \/ UGive)
<1>1. CASE UNCHANGED vars
  BY <1>1, IdleQuiet
<1>2. CASE Next
  <2>1. CASE Reconfigure
    BY <2>1, IdleQuiet
  <2>2. ASSUME NEW s \in Server, NEW t \in Thread, ThreadStep(s, t)
        PROVE  InOrder(top)' /\ (UStep \/ UGive)
    <3>1. ~PrefetchRefused(s, t)
      BY DEF PrefetchRefused, Healthy
    <3>2. CASE Lookup(s, t) \/ BatLookup(s, t) \/ StartPull(s, t) \/ StartBatPull(s, t)
      BY <3>2, ThreadQuiet
    <3>3. CASE SwapNext(s, t) \/ Serve(s, t) \/ ServeAndPrefetch(s, t)
      BY <3>3, ServeMoves
    <3>4. CASE FinishLoad(s, t) \/ FinishPull(s, t)
      BY <3>4, FinishEntryMoves
    <3>5. CASE BatServe(s, t)
      BY <3>5, BatServeMoves
    <3>6. CASE FinishBatLoad(s, t) \/ FinishBatPull(s, t)
      BY <3>6, FinishBatMoves
    <3>7. CASE Deliver(s, t)
      BY <3>7, DeliverGives
    <3> QED BY <2>2, <3>1, <3>2, <3>3, <3>4, <3>5, <3>6, <3>7 DEF ThreadStep
  <2>3. ASSUME NEW s \in Server, NEW w \in Worker, WorkerStep(s, w)
        PROVE  InOrder(top)' /\ UStep
    BY <2>3, WorkerQuiet, FetchMoves, StoreMoves DEF WorkerStep
  <2>4. ASSUME NEW s \in Server, NEW p \in Proc, SelectRow(s, p) \/ FailRow(s, p)
        PROVE  InOrder(top)' /\ UStep
    BY <2>4, SelectQuiet
  <2>5. ASSUME NEW s \in Server, Crash(s) PROVE InOrder(top)' /\ UStep
    BY <2>5, CrashMoves
  <2> QED BY <1>2, <2>1, <2>2, <2>3, <2>4, <2>5 DEF Next
<1> QED BY <1>1, <1>2

LEMMA InitUnique ==
  ASSUME NEW top \in Nat, Healthy(top), Init PROVE UInv(top)
<1>1. TInv
  BY InitType
<1>2. /\ \A s \in Server : entry[s] = NoRange /\ next[s] = NoRange /\ bat[s] = NoRange
      /\ \A s \in Server, w \in Worker : got[s][w] = NoRange
      /\ \A s \in Server, t \in Thread : reply[s][t] = {}
      /\ rowLock = Free /\ cursor = StartVal /\ issued = {}
  BY DEF Init
<1>3. ASSUME NEW h \in Holder PROVE Own(h) = {}
  <2>1. /\ \A s \in Server : Own(E(s)) = {} /\ Own(N(s)) = {}
        /\ \A s \in Server, c \in BatchCount : Own(B(s, c)) = {}
        /\ \A s \in Server, w \in Worker : Own(G(s, w)) = {}
        /\ \A s \in Server, t \in Thread : Own(Y(s, t)) = {}
    BY <1>2, OwnAt DEF Span, BatSpan
  <2> QED BY <2>1, PlaceKinds
<1>4. Owned
  BY <1>2, <1>3 DEF Owned
<1>5. InOrder(top)
  BY <1>2, FreeNone DEF InOrder, Healthy
<1> QED BY <1>1, <1>4, <1>5 DEF UInv

LEMMA NextUnique ==
  ASSUME NEW top \in Nat, Healthy(top), UInv(top), [Next]_vars PROVE UInv(top)'
<1>1. TInv /\ TInv' /\ Owned
  BY NextType DEF UInv
<1>2. cursor \in Nat /\ cursor' \in Nat
  BY <1>1 DEF TInv, TypeOK, DataOK
<1>3. InOrder(top)' /\ (UStep \/ UGive)
  BY StepKinds
<1>4. UStep => Owned'
  BY <1>1, <1>2, MovesOwned DEF UStep
<1>5. UGive => Owned'
  BY <1>1, DeliverOwned DEF UGive, Gives
<1> QED BY <1>1, <1>3, <1>4, <1>5 DEF UInv

LEMMA OwnedUnique ==
  ASSUME NEW top, UInv(top) PROVE NoDuplicate
<1>1. \A s \in Server, t \in Thread :
         Y(s, t) \in Holder /\ Own(Y(s, t)) = reply[s][t]
  BY Places, OwnAt
<1>2. \A s, q, t, u : <<s, t>> # <<q, u>> => Y(s, t) # Y(q, u)
  BY DEF Y
<1> QED BY <1>1, <1>2 DEF UInv, Owned, NoDuplicate

LEMMA InOrderEnds ==
  ASSUME NEW top, UInv(top) PROVE EndReached
<1>1. ASSUME NEW r \in EntryRec \cup RangeRec, Ends(r), OnStep(r)
      PROVE  \E k \in 0 .. r.max - r.cur : r.max = r.cur + k * r.step
  <2>1. r.cur \in Nat /\ r.max \in Nat /\ r.step \in Nat \ {0} /\ r.cur <= r.max
    BY <1>1 DEF EntryRec, RangeRec, Ends
  <2>2. PICK k \in Nat : r.max = r.cur + k * r.step
    BY <1>1 DEF OnStep
  <2>3. k * 1 <= k * r.step
    BY <2>1
  <2>4. k * r.step \in Nat
    BY <2>1
  <2>5. k <= r.max - r.cur
    BY <2>1, <2>2, <2>3, <2>4
  <2> QED BY <2>1, <2>2, <2>5
<1>2. /\ entry \in [Server -> EntryRec \cup {NoRange}]
      /\ next \in [Server -> RangeRec \cup {NoRange}]
  BY DEF UInv, TInv, TypeOK, DataOK
<1> QED BY <1>1, <1>2 DEF UInv, InOrder, EndReached, Aligned


-----------------------------------------------------------------------------
(* The ledger: moves claim or lose, deliveries deliver.                    *)
LEMMA LiveOwn == \A x : x \in Live <=> \E h \in Holder : x \in Own(h)
  BY DEF Live

LEMMA LiveOwnNext == \A x : x \in Live' <=> \E h \in Holder : x \in Own(h)'
  BY DEF Live

LEMMA MovesLedger ==
  ASSUME cursor \in Nat, cursor' \in Nat, NEW A \in SUBSET Holder, Moves(A)
  PROVE  Ledger!Claim \/ Ledger!Lose
<1>1. issued' = issued /\ cursor <= cursor'
  BY DEF Moves
<1>2. \A h \in Holder : Own(h)' \subseteq Live \cup (cursor .. cursor' - 1)
  <2>1. ASSUME NEW h \in Holder \ A PROVE Own(h)' \subseteq Live
    BY LiveOwn DEF Moves
  <2>2. ASSUME NEW h \in A PROVE Own(h)' \subseteq Live \cup (cursor .. cursor' - 1)
    BY LiveOwn DEF Moves, Held
  <2> QED BY <2>1, <2>2
<1>3. Live' \subseteq Live \cup (cursor .. cursor' - 1)
  BY <1>2, LiveOwnNext
<1>4. CASE cursor' = cursor
  <2>1. cursor .. cursor' - 1 = {}
    BY <1>4
  <2>2. Live' \subseteq Live
    BY <1>3, <2>1
  <2> QED BY <1>1, <1>4, <2>2 DEF Ledger!Lose
<1>5. CASE cursor' # cursor
  <2>1. cursor' \in cursor .. cursor'
    BY <1>1
  <2> QED BY <1>1, <1>3, <1>5, <2>1 DEF Ledger!Claim
<1> QED BY <1>4, <1>5

LEMMA GivesLedger ==
  ASSUME Owned, NEW h \in Holder, Gives(h)
  PROVE  Ledger!Deliver \/ Ledger!Lose
<1>1. /\ cursor' = cursor /\ issued' = issued \cup Own(h)
      /\ Own(h)' = {} /\ \A g \in Holder \ {h} : Own(g)' = Own(g)
  BY DEF Gives
<1>2. Own(h) \subseteq Live /\ Own(h) \cap issued = {}
  BY LiveOwn DEF Owned
<1>3. \A g \in Holder \ {h} : Own(g) \cap Own(h) = {}
  BY DEF Owned
<1>4. Live' = Live \ Own(h)
  <2>1. ASSUME NEW x \in Live' PROVE x \in Live \ Own(h)
    BY <1>1, <1>3, LiveOwn, LiveOwnNext
  <2>2. ASSUME NEW x \in Live \ Own(h) PROVE x \in Live'
    BY <1>1, LiveOwn, LiveOwnNext
  <2> QED BY <2>1, <2>2
<1>5. issued' \ issued = Own(h)
  BY <1>1, <1>2
<1>6. CASE Own(h) = {}
  BY <1>1, <1>4, <1>6 DEF Ledger!Lose
<1>7. CASE Own(h) # {}
  BY <1>1, <1>2, <1>4, <1>5, <1>7 DEF Ledger!Deliver
<1> QED BY <1>6, <1>7

(* Two replies never share an id and no reply carries an id a client       *)
(* already has (the README's globally unique ids), whatever the numbers of *)
(* processes, threads and pool threads, however the prefetches, batches,   *)
(* restarts and changes of the row interleave.                             *)
THEOREM UniqueIds ==
  ASSUME NEW top \in Nat, Healthy(top) PROVE Spec => []NoDuplicate
<1>1. Init => UInv(top)
  BY InitUnique
<1>2. UInv(top) /\ [Next]_vars => UInv(top)'
  BY NextUnique
<1>3. UInv(top) => NoDuplicate
  BY OwnedUnique
<1> QED BY <1>1, <1>2, <1>3, PTL DEF Spec

(* No range in memory ever runs past its end: the steps left land on max_val *)
(* exactly, so that GetSequence's test max_val == cur_val sees every         *)
(* exhaustion, also when the row's step is changed under a prefetched range. *)
THEOREM EndsAreMet ==
  ASSUME NEW top \in Nat, Healthy(top) PROVE Spec => []EndReached
<1>1. Init => UInv(top)
  BY InitUnique
<1>2. UInv(top) /\ [Next]_vars => UInv(top)'
  BY NextUnique
<1>3. UInv(top) => EndReached
  BY InOrderEnds
<1> QED BY <1>1, <1>2, <1>3, PTL DEF Spec

(* The sequence centre implements the ledger: every transaction claims ids  *)
(* no one has had, every crash or full batch map only loses claimed ids,    *)
(* and every reply delivers ids that nothing else holds.                    *)
THEOREM ImplementsLedger ==
  ASSUME NEW top \in Nat, Healthy(top) PROVE Spec => LedgerSpec
<1>1. Init => UInv(top)
  BY InitUnique
<1>2. UInv(top) /\ [Next]_vars => UInv(top)'
  BY NextUnique
<1>3. Init => Ledger!Init
  <2> SUFFICES ASSUME Init PROVE Ledger!Init
    OBVIOUS
  <2>1. /\ \A s \in Server : entry[s] = NoRange /\ next[s] = NoRange /\ bat[s] = NoRange
        /\ \A s \in Server, w \in Worker : got[s][w] = NoRange
        /\ \A s \in Server, t \in Thread : reply[s][t] = {}
        /\ cursor = StartVal /\ issued = {}
    BY DEF Init
  <2>2. /\ \A s \in Server : Own(E(s)) = {} /\ Own(N(s)) = {}
        /\ \A s \in Server, c \in BatchCount : Own(B(s, c)) = {}
        /\ \A s \in Server, w \in Worker : Own(G(s, w)) = {}
        /\ \A s \in Server, t \in Thread : Own(Y(s, t)) = {}
    BY <2>1, OwnAt DEF Span, BatSpan
  <2>3. Live = {}
    BY <2>2, PlaceKinds, LiveOwn
  <2> QED BY <2>1, <2>3, RuleAssumption DEF Ledger!Init
<1>4. UInv(top) /\ [Next]_vars => [Ledger!Next]_(Ledger!ledger)
  <2> SUFFICES ASSUME UInv(top), [Next]_vars PROVE Ledger!Next
    BY DEF Ledger!ledger
  <2>1. cursor \in Nat /\ cursor' \in Nat /\ Owned
    BY NextType DEF UInv, TInv, TypeOK, DataOK
  <2>2. UStep \/ UGive
    BY StepKinds
  <2>3. UStep => Ledger!Next
    BY <2>1, MovesLedger DEF UStep, Ledger!Next
  <2>4. UGive => Ledger!Next
    BY <2>1, GivesLedger DEF UGive, Ledger!Next
  <2> QED BY <2>2, <2>3, <2>4
<1> QED BY <1>1, <1>2, <1>3, <1>4, PTL DEF Spec, LedgerSpec, Ledger!Spec

=============================================================================
