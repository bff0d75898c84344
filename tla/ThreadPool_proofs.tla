-------------------------- MODULE ThreadPool_proofs -------------------------
(***************************************************************************)
(* Theorems about ThreadPool, for every value of its constants.            *)
(***************************************************************************)
EXTENDS ThreadPool, FiniteSetTheorems, FunctionTheorems, SequenceTheorems, TLAPS

(* A thread between taking a task and giving it back holds one.            *)
Holding == \A t \in Thread : pc[t] \in {"run", "again"} => task[t] \in Task

IInv == TypeOK /\ SlotsOwned /\ WithinLimits /\ Holding

Used == {i \in Slots : slot[i] # None}

-----------------------------------------------------------------------------
(* Counting the slots in use.                                              *)

LEMMA UsedFinite == IsFiniteSet(Used)
<1>1. MaxThreads \in Nat
  BY PoolAssumption
<1>2. IsFiniteSet(Slots)
  BY <1>1, FS_Interval DEF Slots
<1> QED BY <1>2, FS_Subset DEF Used

(* A thread that gets a free slot adds one, a thread that gives its slot   *)
(* up takes one away.                                                      *)
LEMMA UsedPlus ==
  ASSUME TypeOK, NEW i \in Slots, slot[i] = None, NEW t \in Thread,
         slot' = [slot EXCEPT ![i] = t]
  PROVE  Cardinality(Used') = Cardinality(Used) + 1
<1>1. t # None
  BY PoolAssumption
<1>2. Used' = Used \cup {i} /\ i \notin Used
  BY <1>1 DEF Used, TypeOK
<1> QED BY <1>2, UsedFinite, FS_AddElement

LEMMA UsedMinus ==
  ASSUME TypeOK, NEW i \in Slots, slot[i] # None,
         slot' = [slot EXCEPT ![i] = None]
  PROVE  Cardinality(Used') = Cardinality(Used) - 1
<1>1. Used' = Used \ {i} /\ i \in Used
  BY DEF Used, TypeOK
<1> QED BY <1>1, UsedFinite, FS_RemoveElement

LEMMA UsedInit == Init => Cardinality(Used) = MinThreads
<1> SUFFICES ASSUME Init PROVE Cardinality(Used) = MinThreads
  OBVIOUS
<1>1. MinThreads \in Nat /\ MaxThreads \in Nat /\ MinThreads <= MaxThreads
      /\ None \notin Thread
  BY PoolAssumption
<1>2. PICK f \in [1 .. MinThreads -> Thread] :
        slot = [i \in Slots |-> IF i <= MinThreads THEN f[i] ELSE None]
  BY DEF Init
<1>3. Used = 1 .. MinThreads
  BY <1>1, <1>2 DEF Used, Slots
<1> QED BY <1>1, <1>3, FS_Interval

-----------------------------------------------------------------------------
(* A step that moves threads but gives and takes no slot.                  *)
LEMMA SameSlots ==
  ASSUME IInv, TypeOK', Holding',
         UNCHANGED <<slot, threadCount>>,
         \A t \in Thread : pc[t] \notin {"none", "quit"}
                           => pc'[t] \notin {"none", "quit"} /\ home'[t] = home[t],
         \A t \in Thread : pc[t] \in {"none", "quit"} => pc'[t] \in {"none", "quit"}
  PROVE  IInv'
<1>1. SlotsOwned'
  <2>1. threadCount' = Cardinality(Used')
    BY DEF IInv, SlotsOwned, Used, Slots
  <2>2. \A t \in Thread : pc'[t] \notin {"none", "quit"}
                          => home'[t] \in Slots /\ slot'[home'[t]] = t
    BY DEF IInv, SlotsOwned
  <2>3. \A i \in Slots : slot'[i] # None
          => home'[slot'[i]] = i /\ pc'[slot'[i]] \notin {"none", "quit"}
    BY DEF IInv, SlotsOwned, TypeOK
  <2> QED BY <2>1, <2>2, <2>3 DEF SlotsOwned, Used, Slots
<1>2. WithinLimits'
  BY DEF IInv, WithinLimits
<1> QED BY <1>1, <1>2 DEF IInv

(* A signal moves at most one sleeping thread, and only to woken.          *)
LEMMA SignalMoves ==
  ASSUME NEW f \in [Thread -> ThreadPc], Signal(f)
  PROVE  /\ pc' \in [Thread -> ThreadPc]
         /\ \A t \in Thread : pc'[t] = f[t] \/ (f[t] = "wait" /\ pc'[t] = "woken")
<1>1. CASE \E t \in Thread : f[t] = "wait"
  <2>1. PICK t \in Thread : f[t] = "wait" /\ pc' = [f EXCEPT ![t] = "woken"]
    BY <1>1 DEF Signal
  <2> QED BY <2>1 DEF ThreadPc
<1>2. CASE ~ \E t \in Thread : f[t] = "wait"
  BY <1>2 DEF Signal
<1> QED BY <1>1, <1>2

(* A new thread in a free slot.                                            *)
LEMMA NewOwner ==
  ASSUME IInv, TypeOK', Holding', NEW i \in Slots, NEW t \in Thread,
         slot[i] = None, pc[t] = "none", threadCount < MaxThreads,
         slot' = [slot EXCEPT ![i] = t],
         home' = [home EXCEPT ![t] = i],
         threadCount' = threadCount + 1,
         pc'[t] \notin {"none", "quit"},
         \A u \in Thread : u # t =>
           (pc'[u] \in {"none", "quit"} <=> pc[u] \in {"none", "quit"})
  PROVE  IInv'
<1>1. threadCount' = Cardinality(Used')
  <2>1. threadCount = Cardinality(Used)
    BY DEF IInv, SlotsOwned, Used
  <2>2. Cardinality(Used') = Cardinality(Used) + 1
    BY UsedPlus DEF IInv
  <2> QED BY <2>1, <2>2
<1>2. ASSUME NEW u \in Thread, pc'[u] \notin {"none", "quit"}
      PROVE  home'[u] \in Slots /\ slot'[home'[u]] = u
  <2>1. CASE u = t
    BY <2>1 DEF IInv, TypeOK
  <2>2. CASE u # t
    <3>1. home[u] \in Slots /\ slot[home[u]] = u
      BY <1>2, <2>2 DEF IInv, SlotsOwned
    <3>2. home'[u] = home[u]
      BY <2>2 DEF IInv, TypeOK
    <3>3. home[u] # i
      BY <3>1, PoolAssumption
    <3> QED BY <3>1, <3>2, <3>3 DEF IInv, TypeOK
  <2> QED BY <2>1, <2>2
<1>3. ASSUME NEW j \in Slots, slot'[j] # None
      PROVE  home'[slot'[j]] = j /\ pc'[slot'[j]] \notin {"none", "quit"}
  <2>1. CASE j = i
    BY <2>1 DEF IInv, TypeOK
  <2>2. CASE j # i
    <3>1. slot'[j] = slot[j] /\ slot[j] \in Thread
      BY <1>3, <2>2 DEF IInv, TypeOK
    <3>2. home[slot[j]] = j /\ pc[slot[j]] \notin {"none", "quit"}
      BY <1>3, <3>1 DEF IInv, SlotsOwned
    <3>3. slot[j] # t
      BY <3>2
    <3> QED BY <3>1, <3>2, <3>3 DEF IInv, TypeOK
  <2> QED BY <2>1, <2>2
<1>4. SlotsOwned'
  BY <1>1, <1>2, <1>3 DEF SlotsOwned, Used, Slots
<1>5. WithinLimits'
  BY PoolAssumption DEF IInv, WithinLimits
<1> QED BY <1>4, <1>5 DEF IInv

(* An idle thread gives its slot up.                                       *)
LEMMA OwnerLeaves ==
  ASSUME IInv, TypeOK', Holding', NEW t \in Thread,
         pc[t] \notin {"none", "quit"}, threadCount > MinThreads,
         slot' = [slot EXCEPT ![home[t]] = None],
         pc' = [pc EXCEPT ![t] = "quit"],
         threadCount' = threadCount - 1,
         UNCHANGED home
  PROVE  IInv'
<1> DEFINE h == home[t]
<1>1. h \in Slots /\ slot[h] = t /\ t # None
  BY PoolAssumption DEF IInv, SlotsOwned
<1> HIDE DEF h
<1>2. threadCount' = Cardinality(Used')
  <2>1. threadCount = Cardinality(Used)
    BY DEF IInv, SlotsOwned, Used
  <2>2. Cardinality(Used') = Cardinality(Used) - 1
    BY <1>1, UsedMinus DEF IInv, h
  <2> QED BY <2>1, <2>2
<1>3. ASSUME NEW u \in Thread, pc'[u] \notin {"none", "quit"}
      PROVE  home'[u] \in Slots /\ slot'[home'[u]] = u
  <2>1. u # t /\ pc'[u] = pc[u]
    BY <1>3 DEF IInv, TypeOK
  <2>2. home[u] \in Slots /\ slot[home[u]] = u
    BY <1>3, <2>1 DEF IInv, SlotsOwned
  <2>3. home[u] # h
    BY <1>1, <2>1, <2>2
  <2> QED BY <2>2, <2>3 DEF IInv, TypeOK, h
<1>4. ASSUME NEW j \in Slots, slot'[j] # None
      PROVE  home'[slot'[j]] = j /\ pc'[slot'[j]] \notin {"none", "quit"}
  <2>1. j # h /\ slot'[j] = slot[j] /\ slot[j] \in Thread
    BY <1>4 DEF IInv, TypeOK, h
  <2>2. home[slot[j]] = j /\ pc[slot[j]] \notin {"none", "quit"}
    BY <1>4, <2>1 DEF IInv, SlotsOwned
  <2>3. slot[j] # t
    BY <2>1, <2>2 DEF h
  <2> QED BY <2>1, <2>2, <2>3 DEF IInv, TypeOK
<1>5. SlotsOwned'
  BY <1>2, <1>3, <1>4 DEF SlotsOwned, Used, Slots
<1>6. WithinLimits'
  BY PoolAssumption DEF IInv, WithinLimits
<1> QED BY <1>5, <1>6 DEF IInv

-----------------------------------------------------------------------------
(* Adding a task, for the program or for a retry: f are the control points  *)
(* after it, where a retrying thread has gone back to its loop.            *)
LEMMA InsertKeeps ==
  ASSUME IInv, NEW k \in Task, NEW f \in [Thread -> ThreadPc],
         \A t \in Thread : pc[t] \in {"none", "quit"} => f[t] = pc[t],
         \A t \in Thread : pc[t] \notin {"none", "quit"} => f[t] \notin {"none", "quit"},
         Insert(k, f) \/ InsertFails(k, f),
         UNCHANGED <<idle, cmd, shutdown, tries, stop, refused>>,
         accept' \in [Task -> {"new", "added", "done", "dropped"}],
         task' \in [Thread -> Task \cup {None}],
         \A t \in Thread : f[t] \in {"run", "again"} => task'[t] \in Task
  PROVE  IInv'
<1>1. queue' \in Seq(Task)
  <2>1. queue' = Append(queue, k)
    BY DEF Insert, InsertFails
  <2>2. queue \in Seq(Task)
    BY DEF IInv, TypeOK
  <2> QED BY <2>1, <2>2
<1>2. ASSUME pc' \in [Thread -> ThreadPc], slot' \in [Slots -> Thread \cup {None}],
             home' \in [Thread -> Slots \cup {0}], threadCount' \in Nat,
             leaked' \in BOOLEAN
      PROVE  TypeOK'
  <2>1. queue' \in Seq(Task)
    BY <1>1
  <2> QED BY <1>2, <2>1 DEF IInv, TypeOK, Slots
<1>3. ASSUME ~Grows, Signal(f), UNCHANGED <<slot, home, threadCount, leaked>>
      PROVE  IInv'
  <2>1. pc' \in [Thread -> ThreadPc]
        /\ \A t \in Thread : pc'[t] = f[t] \/ (f[t] = "wait" /\ pc'[t] = "woken")
    BY <1>3, SignalMoves
  <2>2. TypeOK'
    BY <1>2, <1>3, <2>1 DEF IInv, TypeOK
  <2>3. Holding'
    BY <2>1 DEF Holding
  <2>4. \A t \in Thread : pc[t] \notin {"none", "quit"}
          => pc'[t] \notin {"none", "quit"} /\ home'[t] = home[t]
    BY <1>3, <2>1
  <2>5. \A t \in Thread : pc[t] \in {"none", "quit"} => pc'[t] \in {"none", "quit"}
    BY <2>1
  <2> QED BY <1>3, <2>2, <2>3, <2>4, <2>5, SameSlots
<1>4. ASSUME Grows, threadCount' = threadCount + 1, UNCHANGED leaked,
             NEW i \in Slots, NEW t \in Thread, FirstFree(i), pc[t] = "none",
             slot' = [slot EXCEPT ![i] = t], home' = [home EXCEPT ![t] = i],
             Signal([f EXCEPT ![t] = "top"])
      PROVE  IInv'
  <2> DEFINE g == [f EXCEPT ![t] = "top"]
  <2>1. g \in [Thread -> ThreadPc] /\ g[t] = "top"
        /\ \A u \in Thread : u # t => g[u] = f[u]
    BY DEF ThreadPc
  <2> HIDE DEF g
  <2>2. Signal(g)
    BY <1>4 DEF g
  <2>3. pc' \in [Thread -> ThreadPc]
        /\ \A u \in Thread : pc'[u] = g[u] \/ (g[u] = "wait" /\ pc'[u] = "woken")
    BY <2>1, <2>2, SignalMoves
  <2>4. TypeOK'
    <3>1. threadCount' \in Nat
      BY <1>4 DEF IInv, TypeOK
    <3>2. slot' \in [Slots -> Thread \cup {None}] /\ home' \in [Thread -> Slots \cup {0}]
      BY <1>4 DEF IInv, TypeOK
    <3>3. leaked' \in BOOLEAN
      BY <1>4 DEF IInv, TypeOK
    <3> QED BY <1>2, <2>3, <3>1, <3>2, <3>3
  <2>5. Holding'
    BY <2>1, <2>3 DEF Holding
  <2>6. pc'[t] \notin {"none", "quit"}
    BY <2>1, <2>3
  <2>7. \A u \in Thread : u # t =>
          (pc'[u] \in {"none", "quit"} <=> pc[u] \in {"none", "quit"})
    BY <2>1, <2>3
  <2>8. slot[i] = None /\ threadCount < MaxThreads
    BY <1>4 DEF FirstFree, Grows
  <2> QED BY <1>4, <2>4, <2>5, <2>6, <2>7, <2>8, NewOwner
<1>5. CASE InsertFails(k, f)
  <2>1. TypeOK'
    BY <1>2, <1>5 DEF IInv, TypeOK, InsertFails
  <2>2. Holding'
    BY <1>5 DEF Holding, InsertFails
  <2>3. UNCHANGED <<slot, threadCount, home>> /\ pc' = f
    BY <1>5 DEF InsertFails
  <2> QED BY <2>1, <2>2, <2>3, SameSlots
<1>6. CASE Insert(k, f)
  BY <1>3, <1>4, <1>6 DEF Insert
<1> QED BY <1>5, <1>6

LEMMA InitKeeps == Init => IInv
<1> SUFFICES ASSUME Init PROVE IInv
  OBVIOUS
<1>1. MinThreads \in Nat \ {0} /\ MaxThreads \in Nat /\ MinThreads <= MaxThreads
      /\ None \notin Thread /\ RetryTimes \in Nat
  BY PoolAssumption
<1>2. PICK f \in [1 .. MinThreads -> Thread] :
        /\ \A i, j \in 1 .. MinThreads : f[i] = f[j] => i = j
        /\ slot = [i \in Slots |-> IF i <= MinThreads THEN f[i] ELSE None]
        /\ pc = [t \in Thread |->
                   IF \E i \in 1 .. MinThreads : f[i] = t THEN "top" ELSE "none"]
        /\ home = [t \in Thread |-> CHOOSE i \in 0 .. MinThreads :
                     IF \E j \in 1 .. MinThreads : f[j] = t
                     THEN i > 0 /\ f[i] = t ELSE i = 0]
  BY DEF Init
<1>3. \A i \in 1 .. MinThreads : i \in Slots /\ slot[i] = f[i] /\ f[i] \in Thread
  BY <1>1, <1>2 DEF Slots
<1>4. \A i \in Slots : slot[i] # None => i \in 1 .. MinThreads
  BY <1>1, <1>2 DEF Slots
<1>5. ASSUME NEW i \in 1 .. MinThreads
      PROVE  home[f[i]] = i /\ pc[f[i]] = "top"
  <2>1. \E j \in 0 .. MinThreads : j > 0 /\ f[j] = f[i]
    BY <1>1
  <2>2. f[i] \in Thread /\ \E j \in 1 .. MinThreads : f[j] = f[i]
    BY <1>2
  <2>3. home[f[i]] = CHOOSE j \in 0 .. MinThreads : j > 0 /\ f[j] = f[i]
    BY <1>2, <2>2
  <2>4. home[f[i]] \in 0 .. MinThreads /\ home[f[i]] > 0 /\ f[home[f[i]]] = f[i]
    BY <2>1, <2>3
  <2>5. home[f[i]] = i
    BY <1>1, <1>2, <2>4
  <2> QED BY <1>2, <2>2, <2>5
<1>6. ASSUME NEW t \in Thread, \A i \in 1 .. MinThreads : f[i] # t
      PROVE  home[t] = 0 /\ pc[t] = "none"
  <2>1. home[t] = CHOOSE j \in 0 .. MinThreads : j = 0
    BY <1>2, <1>6
  <2> QED BY <1>1, <1>2, <1>6, <2>1
<1>7. home \in [Thread -> Slots \cup {0}]
  <2> DEFINE h(t) == CHOOSE i \in 0 .. MinThreads :
                       IF \E j \in 1 .. MinThreads : f[j] = t
                       THEN i > 0 /\ f[i] = t ELSE i = 0
  <2>1. home = [t \in Thread |-> h(t)]
    BY <1>2
  <2> HIDE DEF h
  <2>2. ASSUME NEW t \in Thread PROVE home[t] \in Slots \cup {0}
    BY <1>3, <1>5, <1>6
  <2>3. \A t \in Thread : home[t] = h(t)
    BY <2>1
  <2>4. \A t \in Thread : h(t) \in Slots \cup {0}
    BY <2>2, <2>3
  <2> QED BY <2>1, <2>4
<1>8. slot \in [Slots -> Thread \cup {None}] /\ pc \in [Thread -> ThreadPc]
  BY <1>1, <1>2 DEF Slots, ThreadPc
<1>9. TypeOK
  <2>1. threadCount \in Nat /\ stop \in -2 .. MaxThreads + 1 /\ refused \subseteq Resize
    BY <1>1 DEF Init
  <2>4. leaked \in BOOLEAN /\ shutdown \in BOOLEAN
    BY DEF Init
  <2>2. /\ idle \in [Slots -> -1 .. 2] /\ cmd \in [Slots -> BOOLEAN]
        /\ task \in [Thread -> Task \cup {None}]
        /\ tries \in [Task -> 0 .. RetryTimes]
        /\ accept \in [Task -> {"new", "added", "done", "dropped"}]
    BY <1>1 DEF Init
  <2>3. queue \in Seq(Task)
    <3>1. queue = <<>>
      BY DEF Init
    <3> QED BY <3>1, EmptySeq
  <2> QED BY <1>1, <1>7, <1>8, <2>1, <2>2, <2>3, <2>4 DEF TypeOK
<1>10. SlotsOwned
  <2>1. threadCount = Cardinality(Used)
    BY UsedInit DEF Init
  <2>2. \A t \in Thread :
          pc[t] \notin {"none", "quit"} => home[t] \in Slots /\ slot[home[t]] = t
    BY <1>3, <1>5, <1>6
  <2>3. \A i \in Slots :
          slot[i] # None => home[slot[i]] = i /\ pc[slot[i]] \notin {"none", "quit"}
    BY <1>3, <1>4, <1>5
  <2> QED BY <2>1, <2>2, <2>3 DEF SlotsOwned, Used
<1>11. WithinLimits /\ Holding
  BY <1>1, <1>2 DEF Init, WithinLimits, Holding
<1> QED BY <1>9, <1>10, <1>11 DEF IInv

-----------------------------------------------------------------------------
(* The actions.                                                            *)

LEMMA AddTaskKeeps ==
  ASSUME IInv, NEW k \in Task, AddTask(k) \/ AddTaskFails(k)
  PROVE  IInv'
<1>1. Insert(k, pc) \/ InsertFails(k, pc)
  BY DEF AddTask, AddTaskFails
<1>2. pc \in [Thread -> ThreadPc] /\ task \in [Thread -> Task \cup {None}]
  BY DEF IInv, TypeOK
<1>3. UNCHANGED <<idle, cmd, shutdown, tries, stop, refused, task>>
  BY DEF AddTask, AddTaskFails
<1>4. accept' \in [Task -> {"new", "added", "done", "dropped"}]
  BY DEF IInv, TypeOK, AddTask, AddTaskFails
<1>5. \A t \in Thread : pc[t] \in {"run", "again"} => task'[t] \in Task
  BY <1>3 DEF IInv, Holding
<1> QED BY <1>1, <1>2, <1>3, <1>4, <1>5, InsertKeeps

LEMMA RetryKeeps ==
  ASSUME IInv, NEW t \in Thread, Retry(t)
  PROVE  IInv'
<1> DEFINE f == [pc EXCEPT ![t] = "top"]
<1>1. /\ f \in [Thread -> ThreadPc] /\ f[t] = "top"
      /\ \A u \in Thread : u # t => f[u] = pc[u]
  BY DEF IInv, TypeOK, ThreadPc
<1>2. Insert(task[t], f) \/ InsertFails(task[t], f)
  BY DEF Retry
<1> HIDE DEF f
<1>3. pc[t] = "again" /\ task[t] \in Task
  BY DEF Retry, IInv, Holding
<1>4. UNCHANGED <<idle, cmd, shutdown, tries, stop, refused, accept>>
  BY DEF Retry
<1>5. task' \in [Thread -> Task \cup {None}]
  BY DEF IInv, TypeOK, Retry
<1>6. \A u \in Thread : f[u] \in {"run", "again"} => task'[u] \in Task
  BY <1>1 DEF IInv, TypeOK, Holding, Retry
<1>7. accept' \in [Task -> {"new", "added", "done", "dropped"}]
  BY <1>4 DEF IInv, TypeOK
<1>8. /\ \A u \in Thread : pc[u] \in {"none", "quit"} => f[u] = pc[u]
      /\ \A u \in Thread : pc[u] \notin {"none", "quit"} => f[u] \notin {"none", "quit"}
  BY <1>1, <1>3
<1> QED BY <1>1, <1>2, <1>3, <1>4, <1>5, <1>6, <1>7, <1>8, InsertKeeps

(* A thread that moves from one place of its loop to another.              *)
LEMMA MoveKeeps ==
  ASSUME IInv, NEW t \in Thread, NEW l \in ThreadPc \ {"none", "quit"},
         pc[t] \notin {"none", "quit"},
         pc' = [pc EXCEPT ![t] = l],
         UNCHANGED <<slot, threadCount, leaked, shutdown, home, stop, refused>>,
         idle' \in [Slots -> -1 .. 2], cmd' \in [Slots -> BOOLEAN],
         queue' \in Seq(Task), task' \in [Thread -> Task \cup {None}],
         tries' \in [Task -> 0 .. RetryTimes],
         accept' \in [Task -> {"new", "added", "done", "dropped"}],
         l \in {"run", "again"} => task'[t] \in Task,
         \A u \in Thread : u # t => task'[u] = task[u]
  PROVE  IInv'
<1>1. /\ pc' \in [Thread -> ThreadPc] /\ pc'[t] = l
      /\ \A u \in Thread : u # t => pc'[u] = pc[u]
  BY DEF IInv, TypeOK
<1>2. TypeOK'
  BY <1>1 DEF IInv, TypeOK, Slots
<1>3. Holding'
  BY <1>1 DEF IInv, Holding
<1> QED BY <1>1, <1>2, <1>3, SameSlots

LEMMA LoopKeeps ==
  ASSUME IInv, NEW t \in Thread,
         \/ RunCallback(t) \/ Take(t) \/ Finish(t) \/ AskRetry(t)
         \/ Leave(t) \/ Wait(t) \/ TimeOut(t) \/ WakeUp(t)
  PROVE  IInv'
<1> DEFINE Typed == /\ idle' \in [Slots -> -1 .. 2] /\ cmd' \in [Slots -> BOOLEAN]
                    /\ task' \in [Thread -> Task \cup {None}]
                    /\ tries' \in [Task -> 0 .. RetryTimes]
                    /\ accept' \in [Task -> {"new", "added", "done", "dropped"}]
           Moves(l) == /\ pc[t] \notin {"none", "quit"}
                       /\ pc' = [pc EXCEPT ![t] = l]
                       /\ UNCHANGED <<slot, threadCount, leaked, shutdown, home,
                                      stop, refused>>
                       /\ \A u \in Thread : u # t => task'[u] = task[u]
<1>1. CASE RunCallback(t)
  <2>1. Typed
    BY <1>1 DEF RunCallback, IInv, TypeOK
  <2>2. Moves("ready") /\ "ready" \in ThreadPc \ {"none", "quit"}
    BY <1>1 DEF RunCallback, Goto, ThreadPc
  <2>3. queue' \in Seq(Task)
    BY <1>1 DEF RunCallback, IInv, TypeOK
  <2> QED BY <2>1, <2>2, <2>3, MoveKeeps
<1>2. CASE Take(t)
  <2>1. queue \in Seq(Task) /\ queue # <<>>
    BY <1>2 DEF Take, IInv, TypeOK
  <2>2. Head(queue) \in Task /\ Tail(queue) \in Seq(Task)
    BY <2>1
  <2>3. Typed /\ task'[t] \in Task
    <3>1. idle' \in [Slots -> -1 .. 2]
      <4>1. idle' = [idle EXCEPT ![home[t]] = -1]
        BY <1>2 DEF Take
      <4>2. idle \in [Slots -> -1 .. 2]
        BY DEF IInv, TypeOK
      <4>3. home[t] \in Slots
        BY <1>2 DEF Take, IInv, SlotsOwned
      <4> QED BY <4>1, <4>2, <4>3
    <3>2. task' \in [Thread -> Task \cup {None}] /\ task'[t] \in Task
      <4>1. task' = [task EXCEPT ![t] = Head(queue)]
        BY <1>2 DEF Take
      <4>2. task \in [Thread -> Task \cup {None}]
        BY DEF IInv, TypeOK
      <4> DEFINE k == Head(queue)
      <4>3. k \in Task /\ task' = [task EXCEPT ![t] = k]
        BY <2>2, <4>1
      <4> HIDE DEF k
      <4> QED BY <4>2, <4>3
    <3> QED BY <1>2, <3>1, <3>2 DEF Take, IInv, TypeOK
  <2>4. Moves("run") /\ "run" \in ThreadPc \ {"none", "quit"}
    BY <1>2 DEF Take, Goto, ThreadPc, IInv, TypeOK
  <2>5. queue' \in Seq(Task)
    BY <1>2, <2>2 DEF Take
  <2> QED BY <2>3, <2>4, <2>5, MoveKeeps
<1>3. CASE Finish(t)
  <2>1. Typed
    BY <1>3 DEF Finish, IInv, TypeOK
  <2>2. Moves("top") /\ "top" \in ThreadPc \ {"none", "quit"}
    BY <1>3 DEF Finish, Goto, ThreadPc, IInv, TypeOK
  <2>3. queue' \in Seq(Task)
    BY <1>3 DEF Finish, IInv, TypeOK
  <2> QED BY <2>1, <2>2, <2>3, MoveKeeps
<1>4. CASE AskRetry(t)
  <2>1. task[t] \in Task
    BY <1>4 DEF AskRetry, IInv, Holding
  <2>2. tries' \in [Task -> 0 .. RetryTimes]
    BY <1>4, <2>1, PoolAssumption DEF AskRetry, IInv, TypeOK
  <2>3. Typed /\ task'[t] \in Task
    BY <1>4, <2>1, <2>2 DEF AskRetry, IInv, TypeOK
  <2>4. Moves("again") /\ "again" \in ThreadPc \ {"none", "quit"}
    BY <1>4 DEF AskRetry, Goto, ThreadPc
  <2>5. queue' \in Seq(Task)
    BY <1>4 DEF AskRetry, IInv, TypeOK
  <2> QED BY <2>3, <2>4, <2>5, MoveKeeps
<1>5. CASE Leave(t)
  <2>1. Typed
    BY <1>5 DEF Leave, IInv, TypeOK
  <2>2. Moves("leave") /\ "leave" \in ThreadPc \ {"none", "quit"}
    BY <1>5 DEF Leave, Goto, ThreadPc
  <2>3. queue' \in Seq(Task)
    BY <1>5 DEF Leave, IInv, TypeOK
  <2> QED BY <2>1, <2>2, <2>3, MoveKeeps
<1>6. CASE Wait(t) \/ TimeOut(t) \/ WakeUp(t)
  <2> DEFINE l == IF pc[t] = "ready" THEN "wait" ELSE "top"
  <2>1. idle' \in [Slots -> -1 .. 2]
    <3>1. home[t] \in Slots
      BY <1>6 DEF Wait, TimeOut, WakeUp, IInv, SlotsOwned
    <3>2. idle \in [Slots -> -1 .. 2]
      BY DEF IInv, TypeOK
    <3>3. \/ idle' = [idle EXCEPT ![home[t]] = IF @ < 0 THEN 0 ELSE @]
          \/ idle' = [idle EXCEPT ![home[t]] = IF @ < 2 THEN @ + 1 ELSE @]
          \/ idle' = [idle EXCEPT ![home[t]] = -1]
      BY <1>6 DEF Wait, TimeOut, WakeUp
    <3> QED BY <3>1, <3>2, <3>3
  <2>2. Typed
    BY <1>6, <2>1 DEF Wait, TimeOut, WakeUp, IInv, TypeOK
  <2>3. Moves(l) /\ l \in ThreadPc \ {"none", "quit"} /\ l \notin {"run", "again"}
    BY <1>6 DEF Wait, TimeOut, WakeUp, Goto, ThreadPc
  <2>4. queue' \in Seq(Task)
    BY <1>6 DEF Wait, TimeOut, WakeUp, IInv, TypeOK
  <2> HIDE DEF l
  <2> QED BY <2>2, <2>3, <2>4, MoveKeeps
<1> QED BY <1>1, <1>2, <1>3, <1>4, <1>5, <1>6

LEMMA QuitKeeps ==
  ASSUME IInv, NEW t \in Thread, Quit(t)
  PROVE  IInv'
<1>1. pc[t] \notin {"none", "quit"} /\ home[t] \in Slots /\ threadCount > MinThreads
  BY DEF Quit, MayQuit, IInv, SlotsOwned
<1>2. slot' = [slot EXCEPT ![home[t]] = None] /\ pc' = [pc EXCEPT ![t] = "quit"]
      /\ threadCount' = threadCount - 1 /\ UNCHANGED home
  BY DEF Quit, Goto
<1>3. idle' \in [Slots -> -1 .. 2]
  BY DEF Quit, IInv, TypeOK
<1>4. threadCount' \in Nat
  BY <1>1, <1>2, PoolAssumption DEF IInv, TypeOK
<1>5. slot' \in [Slots -> Thread \cup {None}] /\ pc' \in [Thread -> ThreadPc]
  BY <1>2 DEF IInv, TypeOK, ThreadPc
<1>6. TypeOK'
  BY <1>3, <1>4, <1>5 DEF Quit, IInv, TypeOK, Slots
<1>7. Holding'
  BY DEF Quit, Goto, IInv, TypeOK, Holding
<1> QED BY <1>1, <1>2, <1>6, <1>7, OwnerLeaves

LEMMA ExitKeeps ==
  ASSUME IInv, NEW t \in Thread, ExitCallback(t)
  PROVE  IInv'
<1>1. cmd' \in [Slots -> BOOLEAN]
  BY DEF ExitCallback, IInv, TypeOK
<1>2. CASE pc[t] = "leave"
  <2>1. pc' = [pc EXCEPT ![t] = "over"] /\ UNCHANGED home
    BY <1>2 DEF ExitCallback, Goto
  <2>2. UNCHANGED <<slot, threadCount, leaked, shutdown, home, stop, refused,
                    idle, queue, task, tries, accept>>
    BY <2>1 DEF ExitCallback
  <2>3. "over" \in ThreadPc \ {"none", "quit"}
    BY DEF ThreadPc
  <2> QED BY <1>1, <1>2, <2>1, <2>2, <2>3, MoveKeeps DEF IInv, TypeOK
<1>3. CASE pc[t] = "quit"
  <2>1. pc' = [pc EXCEPT ![t] = "none"] /\ home' = [home EXCEPT ![t] = 0]
    BY <1>3 DEF ExitCallback, Goto
  <2>2. pc' \in [Thread -> ThreadPc] /\ home' \in [Thread -> Slots \cup {0}]
    BY <2>1 DEF IInv, TypeOK, ThreadPc
  <2>3. TypeOK'
    BY <1>1, <2>2 DEF ExitCallback, IInv, TypeOK, Slots
  <2>4. Holding'
    BY <2>1 DEF ExitCallback, IInv, TypeOK, Holding
  <2>5. UNCHANGED <<slot, threadCount>>
    BY DEF ExitCallback
  <2>6. \A u \in Thread : pc[u] \notin {"none", "quit"}
          => pc'[u] \notin {"none", "quit"} /\ home'[u] = home[u]
    BY <1>3, <2>1 DEF IInv, TypeOK
  <2>7. \A u \in Thread : pc[u] \in {"none", "quit"} => pc'[u] \in {"none", "quit"}
    BY <2>1 DEF IInv, TypeOK
  <2> QED BY <2>3, <2>4, <2>5, <2>6, <2>7, SameSlots
<1> QED BY <1>2, <1>3 DEF ExitCallback

(* The program's other calls.                                              *)
LEMMA CallKeeps ==
  ASSUME IInv, Command \/ SetThreads \/ Stop \/ Join \/ Destroy \/ DestroyAgain
  PROVE  IInv'
<1>0. UNCHANGED <<slot, threadCount, home, task>>
  BY DEF Command, SetThreads, Stop, Join, Destroy, DestroyAgain
<1>1. /\ pc' \in [Thread -> ThreadPc]
      /\ \A t \in Thread : \/ pc'[t] = pc[t]
                           \/ pc[t] = "wait" /\ pc'[t] = "woken"
                           \/ pc[t] = "over" /\ pc'[t] = "joined"
  <2>1. CASE Command \/ SetThreads \/ Destroy \/ DestroyAgain
    BY <2>1 DEF Command, SetThreads, Destroy, DestroyAgain, IInv, TypeOK
  <2>2. CASE Stop
    BY <2>2 DEF Stop, IInv, TypeOK, ThreadPc
  <2>3. CASE Join
    BY <2>3 DEF Join, Goto, IInv, TypeOK, ThreadPc
  <2> QED BY <2>1, <2>2, <2>3
<1>2. TypeOK'
  <2>1. queue' \in Seq(Task)
    <3>1. queue' = queue \/ queue' = <<>>
      BY DEF Command, SetThreads, Stop, Join, Destroy, DestroyAgain
    <3>2. queue \in Seq(Task)
      BY DEF IInv, TypeOK
    <3> QED BY <3>1, <3>2, EmptySeq
  <2>2. cmd' \in [Slots -> BOOLEAN] /\ shutdown' \in BOOLEAN /\ leaked' \in BOOLEAN
    BY DEF Command, SetThreads, Stop, Join, Destroy, DestroyAgain, IInv, TypeOK
  <2>3. accept' \in [Task -> {"new", "added", "done", "dropped"}]
    BY DEF Command, SetThreads, Stop, Join, Destroy, DestroyAgain, IInv, TypeOK
  <2>4. stop' \in -2 .. MaxThreads + 1
    BY PoolAssumption
       DEF Command, SetThreads, Stop, Join, Destroy, DestroyAgain, IInv, TypeOK, Slots
  <2>5. refused' \subseteq Resize
    BY DEF Command, SetThreads, Stop, Join, Destroy, DestroyAgain, IInv, TypeOK
  <2>6. UNCHANGED <<idle, tries>>
    BY DEF Command, SetThreads, Stop, Join, Destroy, DestroyAgain
  <2> QED BY <1>0, <1>1, <2>1, <2>2, <2>3, <2>4, <2>5, <2>6 DEF IInv, TypeOK, Slots
<1>3. Holding'
  BY <1>0, <1>1 DEF IInv, Holding
<1>4. /\ \A t \in Thread : pc[t] \notin {"none", "quit"}
           => pc'[t] \notin {"none", "quit"} /\ home'[t] = home[t]
      /\ \A t \in Thread : pc[t] \in {"none", "quit"} => pc'[t] \in {"none", "quit"}
  BY <1>0, <1>1
<1> QED BY <1>0, <1>2, <1>3, <1>4, SameSlots

LEMMA StutterKeeps == IInv /\ UNCHANGED vars => IInv'
  BY DEF IInv, TypeOK, SlotsOwned, WithinLimits, Holding, vars, Slots

-----------------------------------------------------------------------------
THEOREM PoolInvariant == Spec => []IInv
<1>1. Init => IInv
  BY InitKeeps
<1>2. IInv /\ [Next]_vars => IInv'
  <2> SUFFICES ASSUME IInv, [Next]_vars PROVE IInv'
    OBVIOUS
  <2>1. ASSUME NEW k \in Task, AddTask(k) \/ AddTaskFails(k) PROVE IInv'
    BY <2>1, AddTaskKeeps
  <2>2. ASSUME NEW t \in Thread, Step(t) PROVE IInv'
    BY <2>2, RetryKeeps, LoopKeeps, QuitKeeps, ExitKeeps DEF Step
  <2>3. CASE Command \/ SetThreads \/ Stop \/ Join \/ Destroy \/ DestroyAgain
    BY <2>3, CallKeeps
  <2>4. CASE UNCHANGED vars
    BY <2>4, StutterKeeps
  <2> QED BY <2>1, <2>2, <2>3, <2>4 DEF Next
<1> QED BY <1>1, <1>2, PTL DEF Spec

(* However the pool grows and shrinks, thread_count is the number of slots  *)
(* in use and no slot is given to a thread while another works in it.      *)
THEOREM SlotsStayOwned == Spec => []SlotsOwned
<1>1. IInv => SlotsOwned
  BY DEF IInv
<1> QED BY <1>1, PoolInvariant, PTL

(* The number of threads stays between minThreads and maxThreads.          *)
THEOREM LimitsHold == Spec => []WithinLimits
<1>1. IInv => WithinLimits
  BY DEF IInv
<1> QED BY <1>1, PoolInvariant, PTL

-----------------------------------------------------------------------------
(* Where a task is: its positions in a list, the threads that hold it.     *)

Pos(q, k) == {i \in DOMAIN q : q[i] = k}
Hold(k)   == {t \in Thread : task[t] = k}

LEMMA PosFinite ==
  ASSUME NEW q \in Seq(Task), NEW k
  PROVE  IsFiniteSet(Pos(q, k)) /\ Cardinality(Pos(q, k)) \in Nat
<1>1. Len(q) \in Nat /\ DOMAIN q = 1 .. Len(q)
  BY LenProperties
<1>2. IsFiniteSet(1 .. Len(q))
  BY <1>1, FS_Interval
<1>3. Pos(q, k) \subseteq 1 .. Len(q)
  BY <1>1 DEF Pos
<1>4. IsFiniteSet(Pos(q, k))
  BY <1>2, <1>3, FS_Subset
<1> QED BY <1>4, FS_CardinalityType

(* The end of the list gains a task, the front loses one: all others keep  *)
(* their number of places.                                                 *)
LEMMA PosAppend ==
  ASSUME NEW q \in Seq(Task), NEW x \in Task, NEW k \in Task
  PROVE  Cardinality(Pos(Append(q, x), k))
           = Cardinality(Pos(q, k)) + (IF x = k THEN 1 ELSE 0)
<1> DEFINE n == Len(q) + 1
           r == Append(q, x)
<1>1. /\ Len(q) \in Nat /\ DOMAIN q = 1 .. Len(q)
      /\ r \in Seq(Task) /\ Len(r) = Len(q) + 1
      /\ \A i \in 1 .. Len(q) : r[i] = q[i]
      /\ r[n] = x
  BY LenProperties, AppendProperties
<1>2. DOMAIN r = 1 .. n
  BY <1>1, LenProperties
<1> HIDE DEF r
<1>3. n \in Nat /\ 1 .. n = (1 .. Len(q)) \cup {n} /\ n \notin 1 .. Len(q)
  BY <1>1
<1>4. CASE x = k
  <2>1. Pos(r, k) = Pos(q, k) \cup {n} /\ n \notin Pos(q, k)
    BY <1>1, <1>2, <1>3, <1>4 DEF Pos
  <2> QED BY <2>1, <1>4, PosFinite, FS_AddElement DEF r
<1>5. CASE x # k
  <2>1. Pos(r, k) = Pos(q, k)
    BY <1>1, <1>2, <1>3, <1>5 DEF Pos
  <2> QED BY <2>1, <1>5, PosFinite DEF r
<1> QED BY <1>4, <1>5

LEMMA PosTail ==
  ASSUME NEW q \in Seq(Task), q # <<>>, NEW k \in Task
  PROVE  Cardinality(Pos(q, k))
           = Cardinality(Pos(Tail(q), k)) + (IF Head(q) = k THEN 1 ELSE 0)
<1> DEFINE r == Tail(q)
           F == [i \in Pos(r, k) |-> i + 1]
           Rest == Pos(q, k) \ {1}
<1>1. /\ Len(q) \in Nat \ {0} /\ DOMAIN q = 1 .. Len(q)
      /\ r \in Seq(Task) /\ Len(r) = Len(q) - 1
      /\ \A i \in 1 .. Len(r) : r[i] = q[i + 1]
  BY LenProperties, HeadTailProperties, EmptySeq
<1>2. DOMAIN r = 1 .. Len(r)
  BY <1>1, LenProperties
<1>3. Head(q) = q[1]
  OBVIOUS
<1> HIDE DEF r
<1>4. F \in [Pos(r, k) -> Rest]
  <2>1. \A i \in Pos(r, k) : i + 1 \in Rest
    BY <1>1, <1>2 DEF Pos
  <2> QED BY <2>1
<1>5. \A i, j \in Pos(r, k) : F[i] = F[j] => i = j
  BY <1>1, <1>2 DEF Pos
<1>6. \A j \in Rest : \E i \in Pos(r, k) : F[i] = j
  <2> SUFFICES ASSUME NEW j \in Rest PROVE \E i \in Pos(r, k) : F[i] = j
    OBVIOUS
  <2>1. j \in 2 .. Len(q) /\ q[j] = k
    BY <1>1 DEF Pos
  <2>2. j - 1 \in Pos(r, k)
    BY <1>1, <1>2, <2>1 DEF Pos
  <2> QED BY <2>1, <2>2
<1>7. ExistsBijection(Pos(r, k), Rest)
  <2>1. F \in Bijection(Pos(r, k), Rest)
    <3> HIDE DEF F, Rest
    <3> QED BY <1>4, <1>5, <1>6, Fun_IsBij
  <2> HIDE DEF F, Rest
  <2> QED BY <2>1, Fun_ExistsBij
<1>8. Cardinality(Rest) = Cardinality(Pos(r, k))
  <2>1. IsFiniteSet(Pos(r, k))
    BY <1>1, PosFinite
  <2> HIDE DEF Rest
  <2> QED BY <1>7, <2>1, FS_Bijection
<1>9. Cardinality(Rest)
        = IF 1 \in Pos(q, k) THEN Cardinality(Pos(q, k)) - 1 ELSE Cardinality(Pos(q, k))
  BY PosFinite, FS_RemoveElement
<1>10. 1 \in Pos(q, k) <=> Head(q) = k
  BY <1>1, <1>3 DEF Pos
<1> HIDE DEF Rest
<1> QED BY <1>8, <1>9, <1>10, PosFinite DEF r

(* Only working threads hold a task: there are finitely many.              *)
Resting == \A t \in Thread : pc[t] \notin {"run", "again"} => task[t] = None

LEMMA HoldFinite ==
  ASSUME IInv, Resting, NEW k \in Task
  PROVE  IsFiniteSet(Hold(k)) /\ Cardinality(Hold(k)) \in Nat
<1> DEFINE F == [t \in Hold(k) |-> home[t]]
<1>1. IsFiniteSet(Slots)
  <2>1. MaxThreads \in Nat
    BY PoolAssumption
  <2> QED BY <2>1, FS_Interval DEF Slots
<1>2. \A t \in Hold(k) : home[t] \in Slots /\ slot[home[t]] = t
  <2>1. k # None
    BY PoolAssumption
  <2> QED BY <2>1 DEF Hold, Resting, IInv, SlotsOwned
<1>3. F \in [Hold(k) -> Slots] /\ \A t, u \in Hold(k) : F[t] = F[u] => t = u
  BY <1>2
<1> HIDE DEF F
<1>4. F \in Injection(Hold(k), Slots)
  BY <1>3, Fun_IsInj
<1>5. IsFiniteSet(Hold(k))
  BY <1>1, <1>4, FS_Injection
<1> QED BY <1>5, FS_CardinalityType

LEMMA HoldGains ==
  ASSUME IInv, Resting, NEW k \in Task, NEW t \in Thread, NEW x \in Task,
         task[t] = None, task' = [task EXCEPT ![t] = x]
  PROVE  Cardinality(Hold(k)') = Cardinality(Hold(k)) + (IF x = k THEN 1 ELSE 0)
<1>1. None # k /\ task \in [Thread -> Task \cup {None}]
  BY PoolAssumption DEF IInv, TypeOK
<1>2. CASE x = k
  <2>1. Hold(k)' = Hold(k) \cup {t} /\ t \notin Hold(k)
    BY <1>1, <1>2 DEF Hold
  <2> QED BY <2>1, <1>2, HoldFinite, FS_AddElement
<1>3. CASE x # k
  <2>1. Hold(k)' = Hold(k)
    BY <1>1, <1>3 DEF Hold
  <2> QED BY <2>1, <1>3, HoldFinite
<1> QED BY <1>2, <1>3

LEMMA HoldLoses ==
  ASSUME IInv, Resting, NEW k \in Task, NEW t \in Thread,
         task' = [task EXCEPT ![t] = None]
  PROVE  Cardinality(Hold(k)') = Cardinality(Hold(k)) - (IF task[t] = k THEN 1 ELSE 0)
<1>1. None # k /\ task \in [Thread -> Task \cup {None}]
  BY PoolAssumption DEF IInv, TypeOK
<1>2. CASE task[t] = k
  <2>1. Hold(k)' = Hold(k) \ {t} /\ t \in Hold(k)
    BY <1>1, <1>2 DEF Hold
  <2> QED BY <2>1, <1>2, HoldFinite, FS_RemoveElement
<1>3. CASE task[t] # k
  <2>1. Hold(k)' = Hold(k)
    BY <1>1, <1>3 DEF Hold
  <2> QED BY <2>1, <1>3, HoldFinite
<1> QED BY <1>2, <1>3

-----------------------------------------------------------------------------
(* A task is in one place.                                                 *)

Places(k) == Cardinality(Pos(queue, k)) + Cardinality(Hold(k))
Expected(k) == IF accept[k] = "added" THEN 1 ELSE 0

TaskInv == Resting /\ TaskOnce

LEMMA OncePlaces == TaskOnce <=> \A k \in Task : Places(k) = Expected(k)
  BY DEF TaskOnce, Places, Expected, Pos, Hold

LEMMA OncePlacesNext == TaskOnce' <=> \A k \in Task : Places(k)' = Expected(k)'
  BY DEF TaskOnce, Places, Expected, Pos, Hold

(* A thread waits for the list with empty hands, whoever is signalled.     *)
LEMMA InsertRests ==
  ASSUME IInv, Resting, NEW k, NEW f \in [Thread -> ThreadPc],
         Insert(k, f) \/ InsertFails(k, f),
         \A t \in Thread : pc[t] = "none" => f[t] = "none",
         \A t \in Thread : f[t] \notin {"run", "again"} => task'[t] = None
  PROVE  Resting'
<1>1. ASSUME NEW g \in [Thread -> ThreadPc], Signal(g),
             \A t \in Thread : g[t] \notin {"run", "again"} => task'[t] = None
      PROVE  Resting'
  <2>1. \A t \in Thread : pc'[t] = g[t] \/ (g[t] = "wait" /\ pc'[t] = "woken")
    BY <1>1, SignalMoves
  <2> QED BY <1>1, <2>1 DEF Resting
<1>2. CASE InsertFails(k, f)
  BY <1>2 DEF InsertFails, Resting
<1>3. CASE Insert(k, f) /\ ~Grows
  <2>1. Signal(f)
    BY <1>3 DEF Insert
  <2> QED BY <1>1, <2>1
<1>4. CASE Insert(k, f) /\ Grows
  <2>1. PICK t \in Thread : pc[t] = "none" /\ Signal([f EXCEPT ![t] = "top"])
    BY <1>4 DEF Insert
  <2> DEFINE g == [f EXCEPT ![t] = "top"]
  <2>2. g \in [Thread -> ThreadPc] /\ Signal(g)
    BY <2>1 DEF ThreadPc
  <2>3. \A u \in Thread : g[u] = f[u] \/ u = t
    OBVIOUS
  <2> HIDE DEF g
  <2>4. task'[t] = None
    BY <2>1
  <2>5. \A u \in Thread : g[u] \notin {"run", "again"} => task'[u] = None
    BY <2>3, <2>4
  <2> QED BY <1>1, <2>2, <2>5
<1> QED BY <1>2, <1>3, <1>4

LEMMA InsertAppends ==
  ASSUME NEW k, NEW f, Insert(k, f) \/ InsertFails(k, f)
  PROVE  queue' = Append(queue, k)
  BY DEF Insert, InsertFails

LEMMA AddTaskOnce ==
  ASSUME IInv, TaskInv, NEW k \in Task, AddTask(k) \/ AddTaskFails(k)
  PROVE  TaskInv'
<1>1. Insert(k, pc) \/ InsertFails(k, pc)
  BY DEF AddTask, AddTaskFails
<1>2. /\ task' = task /\ accept[k] = "new"
      /\ accept' = [accept EXCEPT ![k] = "added"]
  BY DEF AddTask, AddTaskFails
<1>3. /\ queue \in Seq(Task) /\ pc \in [Thread -> ThreadPc]
      /\ accept \in [Task -> {"new", "added", "done", "dropped"}]
  BY DEF IInv, TypeOK
<1>4. Resting'
  BY <1>1, <1>2, <1>3, InsertRests DEF TaskInv, Resting
<1>5. ASSUME NEW x \in Task PROVE Places(x)' = Expected(x)'
  <2>1. queue' = Append(queue, k)
    BY <1>1, InsertAppends
  <2>2. Cardinality(Pos(queue', x)) = Cardinality(Pos(queue, x)) + (IF k = x THEN 1 ELSE 0)
    BY <1>3, <2>1, PosAppend
  <2>3. Hold(x)' = Hold(x)
    BY <1>2 DEF Hold
  <2>4. Places(x) = Expected(x)
    BY OncePlaces DEF TaskInv
  <2>5. Cardinality(Pos(queue, x)) \in Nat /\ Cardinality(Hold(x)) \in Nat
    BY <1>3, PosFinite, HoldFinite DEF TaskInv
  <2>6. Expected(x)' = Expected(x) + (IF k = x THEN 1 ELSE 0)
    BY <1>2, <1>3 DEF Expected
  <2>7. Places(x)' = Places(x) + (IF k = x THEN 1 ELSE 0)
    BY <2>2, <2>3, <2>5 DEF Places
  <2> QED BY <2>4, <2>6, <2>7
<1> QED BY <1>4, <1>5, OncePlacesNext DEF TaskInv

LEMMA RetryOnce ==
  ASSUME IInv, TaskInv, NEW t \in Thread, Retry(t)
  PROVE  TaskInv'
<1> DEFINE k == task[t]
           f == [pc EXCEPT ![t] = "top"]
<1>1. pc[t] = "again" /\ k \in Task
  BY DEF Retry, IInv, Holding
<1>2. Insert(k, f) \/ InsertFails(k, f)
  BY DEF Retry
<1>3. /\ f \in [Thread -> ThreadPc] /\ f[t] = "top"
      /\ \A u \in Thread : u # t => f[u] = pc[u]
  BY DEF IInv, TypeOK, ThreadPc
<1>4. queue \in Seq(Task) /\ task \in [Thread -> Task \cup {None}]
  BY DEF IInv, TypeOK
<1>5. task' = [task EXCEPT ![t] = None] /\ accept' = accept
  BY DEF Retry
<1> HIDE DEF f
<1>6. Resting'
  <2>1. \A u \in Thread : f[u] \notin {"run", "again"} => task'[u] = None
    BY <1>3, <1>4, <1>5 DEF TaskInv, Resting
  <2>2. \A u \in Thread : pc[u] = "none" => f[u] = "none"
    BY <1>1, <1>3
  <2> HIDE DEF k
  <2> QED BY <1>2, <1>3, <2>1, <2>2, InsertRests DEF TaskInv
<1>7. ASSUME NEW x \in Task PROVE Places(x)' = Expected(x)'
  <2> HIDE DEF k
  <2>1. queue' = Append(queue, k)
    BY <1>2, InsertAppends
  <2>2. Cardinality(Pos(queue', x)) = Cardinality(Pos(queue, x)) + (IF k = x THEN 1 ELSE 0)
    BY <1>1, <1>4, <2>1, PosAppend
  <2>3. Cardinality(Hold(x)') = Cardinality(Hold(x)) - (IF k = x THEN 1 ELSE 0)
    BY <1>5, HoldLoses DEF TaskInv, k
  <2>4. Places(x) = Expected(x)
    BY OncePlaces DEF TaskInv
  <2>5. Cardinality(Pos(queue, x)) \in Nat /\ Cardinality(Hold(x)) \in Nat
    BY <1>4, PosFinite, HoldFinite DEF TaskInv
  <2>6. Expected(x)' = Expected(x)
    BY <1>5 DEF Expected
  <2>7. Places(x)' = Places(x)
    BY <2>2, <2>3, <2>5 DEF Places
  <2> QED BY <2>4, <2>6, <2>7
<1> QED BY <1>6, <1>7, OncePlacesNext DEF TaskInv

LEMMA TakeOnce ==
  ASSUME IInv, TaskInv, NEW t \in Thread, Take(t)
  PROVE  TaskInv'
<1> DEFINE k == Head(queue)
<1>1. queue \in Seq(Task) /\ queue # <<>> /\ task \in [Thread -> Task \cup {None}]
  BY DEF Take, IInv, TypeOK
<1>2. k \in Task
  BY <1>1
<1>3. task[t] = None
  BY DEF Take, TaskInv, Resting
<1>4. task' = [task EXCEPT ![t] = k] /\ queue' = Tail(queue) /\ accept' = accept
  BY DEF Take
<1>5. pc' = [pc EXCEPT ![t] = "run"] /\ pc \in [Thread -> ThreadPc]
  BY DEF Take, Goto, IInv, TypeOK
<1>6. Resting'
  <2> HIDE DEF k
  <2> QED BY <1>1, <1>4, <1>5 DEF TaskInv, Resting
<1>7. ASSUME NEW x \in Task PROVE Places(x)' = Expected(x)'
  <2>1. Cardinality(Pos(queue, x)) = Cardinality(Pos(queue', x)) + (IF k = x THEN 1 ELSE 0)
    BY <1>1, <1>4, PosTail
  <2> HIDE DEF k
  <2>2. Cardinality(Hold(x)') = Cardinality(Hold(x)) + (IF k = x THEN 1 ELSE 0)
    BY <1>2, <1>3, <1>4, HoldGains DEF TaskInv
  <2>3. Places(x) = Expected(x)
    BY OncePlaces DEF TaskInv
  <2>4. Cardinality(Pos(queue, x)) \in Nat /\ Cardinality(Hold(x)) \in Nat
    BY <1>1, PosFinite, HoldFinite DEF TaskInv
  <2>5. queue' \in Seq(Task)
    BY <1>1, <1>4
  <2>6. Cardinality(Pos(queue', x)) \in Nat
    BY <2>5, PosFinite
  <2>7. Expected(x)' = Expected(x)
    BY <1>4 DEF Expected
  <2>8. Places(x)' = Places(x)
    BY <2>1, <2>2, <2>4, <2>6 DEF Places
  <2> QED BY <2>3, <2>7, <2>8
<1> QED BY <1>6, <1>7, OncePlacesNext DEF TaskInv

LEMMA FinishOnce ==
  ASSUME IInv, TaskInv, NEW t \in Thread, Finish(t)
  PROVE  TaskInv'
<1> DEFINE k == task[t]
<1>1. k \in Task
  BY DEF Finish, IInv, Holding
<1>2. /\ task' = [task EXCEPT ![t] = None] /\ queue' = queue
      /\ accept' = [accept EXCEPT ![k] = "done"]
  BY DEF Finish
<1>3. /\ pc' = [pc EXCEPT ![t] = "top"] /\ pc \in [Thread -> ThreadPc]
      /\ queue \in Seq(Task) /\ task \in [Thread -> Task \cup {None}]
      /\ accept \in [Task -> {"new", "added", "done", "dropped"}]
  BY DEF Finish, Goto, IInv, TypeOK
<1>4. Resting'
  BY <1>2, <1>3 DEF TaskInv, Resting
<1>5. ASSUME NEW x \in Task PROVE Places(x)' = Expected(x)'
  <2>1. Cardinality(Hold(x)') = Cardinality(Hold(x)) - (IF k = x THEN 1 ELSE 0)
    BY <1>2, HoldLoses DEF TaskInv
  <2>2. Places(x) = Expected(x)
    BY OncePlaces DEF TaskInv
  <2>3. Cardinality(Pos(queue, x)) \in Nat /\ Cardinality(Hold(x)) \in Nat
    BY <1>3, PosFinite, HoldFinite DEF TaskInv
  <2>4. Cardinality(Hold(x)') \in Nat
    <3>1. CASE x = k
      <4>1. t \in Hold(x)
        BY <3>1 DEF Hold
      <4>2. Cardinality(Hold(x)) # 0
        BY <4>1, HoldFinite, FS_EmptySet DEF TaskInv
      <4> QED BY <3>1, <2>1, <2>3, <4>2
    <3>2. CASE x # k
      BY <3>2, <2>1, <2>3
    <3> QED BY <3>1, <3>2
  <2> HIDE DEF k
  <2>5. Places(x)' = Places(x) - (IF k = x THEN 1 ELSE 0)
    BY <1>2, <2>1, <2>3 DEF Places
  <2>6. Places(x)' \in Nat /\ Places(x) \in Nat
    BY <1>2, <2>3, <2>4 DEF Places
  <2>7. CASE x = k
    <3>1. Expected(x)' = 0
      BY <1>2, <1>3, <2>7 DEF Expected
    <3>2. Expected(x) \in {0, 1}
      BY DEF Expected
    <3> QED BY <2>2, <2>5, <2>6, <2>7, <3>1, <3>2
  <2>8. CASE x # k
    <3>1. Expected(x)' = Expected(x)
      BY <1>2, <1>3, <2>8 DEF Expected
    <3> QED BY <2>2, <2>5, <2>6, <2>8, <3>1
  <2> QED BY <2>7, <2>8
<1> QED BY <1>4, <1>5, OncePlacesNext DEF TaskInv

(* The tasks dropped are those of the list, and only those.                *)
LEMMA DropOnce ==
  ASSUME IInv, TaskInv, DestroyAgain
  PROVE  TaskInv'
<1>1. /\ UNCHANGED <<pc, task>> /\ queue' = <<>>
      /\ accept' = [k \in Task |-> IF \E i \in DOMAIN queue : queue[i] = k
                                   THEN "dropped" ELSE accept[k]]
  BY DEF DestroyAgain
<1>2. queue \in Seq(Task)
  BY DEF IInv, TypeOK
<1>3. Resting'
  BY <1>1 DEF TaskInv, Resting
<1>4. ASSUME NEW x \in Task PROVE Places(x)' = Expected(x)'
  <2>1. Cardinality(Pos(queue', x)) = 0
    <3>1. DOMAIN <<>> = {}
      OBVIOUS
    <3>2. Pos(queue', x) = {}
      BY <1>1, <3>1 DEF Pos
    <3> QED BY <3>2, FS_EmptySet
  <2>2. Hold(x)' = Hold(x)
    BY <1>1 DEF Hold
  <2>3. Places(x) = Expected(x) /\ Expected(x) \in {0, 1}
    BY OncePlaces DEF TaskInv, Expected
  <2>4. Cardinality(Pos(queue, x)) \in Nat /\ Cardinality(Hold(x)) \in Nat
    BY <1>2, PosFinite, HoldFinite DEF TaskInv
  <2>5. Places(x)' = Cardinality(Hold(x))
    BY <2>1, <2>2, <2>4 DEF Places
  <2>6. CASE Pos(queue, x) = {}
    <3>1. Cardinality(Pos(queue, x)) = 0
      BY <2>6, FS_EmptySet
    <3>2. Expected(x)' = Expected(x)
      BY <1>1, <2>6 DEF Expected, Pos
    <3> QED BY <2>3, <2>4, <2>5, <3>1, <3>2 DEF Places
  <2>7. CASE Pos(queue, x) # {}
    <3>1. Cardinality(Pos(queue, x)) # 0
      BY <1>2, <2>7, PosFinite, FS_EmptySet
    <3>2. Expected(x)' = 0
      BY <1>1, <2>7 DEF Expected, Pos
    <3>3. Places(x) = Cardinality(Pos(queue, x)) + Cardinality(Hold(x))
      BY DEF Places
    <3> QED BY <2>3, <2>4, <2>5, <3>1, <3>2, <3>3
  <2> QED BY <2>6, <2>7
<1> QED BY <1>3, <1>4, OncePlacesNext DEF TaskInv

(* Steps that leave the list, the tasks in hand and the books alone.       *)
LEMMA SamePlaces ==
  ASSUME IInv, TaskInv, UNCHANGED <<queue, task, accept>>,
         \A t \in Thread : pc[t] \in {"run", "again"} => pc'[t] \in {"run", "again"}
  PROVE  TaskInv'
<1>1. Resting'
  BY DEF TaskInv, Resting
<1>2. TaskOnce'
  BY DEF TaskInv, TaskOnce
<1> QED BY <1>1, <1>2 DEF TaskInv

LEMMA QuietOnce ==
  ASSUME IInv, TaskInv,
         \/ \E t \in Thread : \/ RunCallback(t) \/ AskRetry(t) \/ Leave(t) \/ Quit(t)
                              \/ Wait(t) \/ TimeOut(t) \/ WakeUp(t) \/ ExitCallback(t)
         \/ Command \/ SetThreads \/ Stop \/ Join \/ Destroy
         \/ UNCHANGED vars
  PROVE  TaskInv'
<1>0. pc \in [Thread -> ThreadPc]
  BY DEF IInv, TypeOK
<1>1. ASSUME NEW t \in Thread,
             \/ RunCallback(t) \/ AskRetry(t) \/ Leave(t) \/ Quit(t)
             \/ Wait(t) \/ TimeOut(t) \/ WakeUp(t) \/ ExitCallback(t)
      PROVE  TaskInv'
  <2>1. UNCHANGED <<queue, task, accept>>
    BY <1>1 DEF RunCallback, AskRetry, Leave, Quit, Wait, TimeOut, WakeUp, ExitCallback
  <2>2. /\ pc[t] \in {"run", "again"} => pc'[t] \in {"run", "again"}
        /\ \A u \in Thread : u # t => pc'[u] = pc[u]
    BY <1>0, <1>1
       DEF RunCallback, AskRetry, Leave, Quit, Wait, TimeOut, WakeUp, ExitCallback, Goto
  <2> QED BY <2>1, <2>2, SamePlaces
<1>2. CASE Command \/ SetThreads \/ Stop \/ Destroy \/ UNCHANGED vars
  <2>1. UNCHANGED <<queue, task, accept>>
    BY <1>2 DEF Command, SetThreads, Stop, Destroy, vars
  <2>2. \A t \in Thread : pc[t] \in {"run", "again"} => pc'[t] = pc[t]
    BY <1>2 DEF Command, SetThreads, Stop, Destroy, vars
  <2> QED BY <2>1, <2>2, SamePlaces
<1>3. CASE Join
  <2>1. UNCHANGED <<queue, task, accept>>
    BY <1>3 DEF Join
  <2>2. \A t \in Thread : pc[t] \in {"run", "again"} => pc'[t] = pc[t]
    BY <1>0, <1>3 DEF Join, Goto
  <2> QED BY <2>1, <2>2, SamePlaces
<1> QED BY <1>1, <1>2, <1>3

LEMMA InitOnce == Init => TaskInv
<1> SUFFICES ASSUME Init PROVE TaskInv
  OBVIOUS
<1>1. queue = <<>> /\ task = [t \in Thread |-> None]
      /\ accept = [k \in Task |-> "new"]
  BY DEF Init
<1>2. Resting
  BY <1>1 DEF Resting
<1>3. ASSUME NEW k \in Task PROVE Places(k) = Expected(k)
  <2>1. DOMAIN <<>> = {}
    OBVIOUS
  <2>2. Pos(queue, k) = {}
    BY <1>1, <2>1 DEF Pos
  <2>3. Hold(k) = {}
    BY <1>1, PoolAssumption DEF Hold
  <2>4. Expected(k) = 0
    BY <1>1 DEF Expected
  <2> QED BY <2>2, <2>3, <2>4, FS_EmptySet DEF Places
<1> QED BY <1>2, <1>3, OncePlaces DEF TaskInv

LEMMA TasksInvariant == Spec => []TaskInv
<1>1. Init => IInv /\ TaskInv
  BY InitKeeps, InitOnce
<1>2. IInv /\ TaskInv /\ [Next]_vars => TaskInv'
  <2> SUFFICES ASSUME IInv, TaskInv, [Next]_vars PROVE TaskInv'
    OBVIOUS
  <2>1. ASSUME NEW k \in Task, AddTask(k) \/ AddTaskFails(k) PROVE TaskInv'
    BY <2>1, AddTaskOnce
  <2>2. ASSUME NEW t \in Thread, Step(t) PROVE TaskInv'
    BY <2>2, TakeOnce, FinishOnce, RetryOnce, QuietOnce DEF Step
  <2>3. CASE Command \/ SetThreads \/ Stop \/ Join \/ Destroy \/ UNCHANGED vars
    BY <2>3, QuietOnce
  <2>4. CASE DestroyAgain
    BY <2>4, DropOnce
  <2> QED BY <2>1, <2>2, <2>3, <2>4 DEF Next
<1> QED BY <1>1, <1>2, PoolInvariant, PTL DEF Spec

(* A task that has been added and not finished is once in the list or with *)
(* one thread, whatever retries, refused creations, stops and late calls   *)
(* the program makes: none is run by two threads, freed twice or lost.     *)
THEOREM TasksStayOnce == Spec => []TaskOnce
<1>1. TaskInv => TaskOnce
  BY DEF TaskInv
<1> QED BY <1>1, TasksInvariant, PTL

-----------------------------------------------------------------------------
(***************************************************************************)
(* No task of the thread pool waits while a thread sleeps                  *)
(* (NoSleepOverWork), and none is left when the pool is destroyed          *)
(* (AllTasksDone).                                                         *)
(***************************************************************************)

Awake(f) == {t \in Thread : f[t] \in {"top", "ready", "woken"}}
Sleeps(f) == \E t \in Thread : f[t] = "wait"

LEMMA IdlingAwake == {t \in Thread : Idling(t)} = Awake(pc)
  BY DEF Idling, Awake

LEMMA IdlingAwakeNext == {t \in Thread : Idling(t)}' = Awake(pc')
  BY DEF Idling, Awake

(* The awake threads have a slot each, so they can be counted.             *)
LEMMA AwakeFinite ==
  ASSUME IInv
  PROVE  IsFiniteSet(Awake(pc)) /\ Cardinality(Awake(pc)) \in Nat
<1> DEFINE A == Awake(pc)
           F == [t \in A |-> home[t]]
<1>1. IsFiniteSet(Slots)
  <2>1. MaxThreads \in Nat
    BY PoolAssumption
  <2> QED BY <2>1, FS_Interval DEF Slots
<1>2. \A t \in A : home[t] \in Slots /\ slot[home[t]] = t
  BY DEF Awake, IInv, SlotsOwned
<1>3. F \in [A -> Slots] /\ \A t, u \in A : F[t] = F[u] => t = u
  BY <1>2
<1> HIDE DEF F, A
<1>4. F \in Injection(A, Slots)
  BY <1>3, Fun_IsInj
<1>5. IsFiniteSet(A)
  BY <1>1, <1>4, FS_Injection
<1> QED BY <1>5, FS_CardinalityType DEF A

LEMMA AwakeFiniteNext ==
  ASSUME IInv'
  PROVE  IsFiniteSet(Awake(pc')) /\ Cardinality(Awake(pc')) \in Nat
<1> DEFINE A == Awake(pc')
           F == [t \in A |-> home'[t]]
<1>1. IsFiniteSet(Slots)
  <2>1. MaxThreads \in Nat
    BY PoolAssumption
  <2> QED BY <2>1, FS_Interval DEF Slots
<1>2. \A t \in A : home'[t] \in Slots /\ slot'[home'[t]] = t
  BY DEF Awake, IInv, SlotsOwned, Slots
<1>3. F \in [A -> Slots] /\ \A t, u \in A : F[t] = F[u] => t = u
  BY <1>2
<1> HIDE DEF F, A
<1>4. F \in Injection(A, Slots)
  BY <1>3, Fun_IsInj
<1>5. IsFiniteSet(A)
  BY <1>1, <1>4, FS_Injection
<1> QED BY <1>5, FS_CardinalityType DEF A

-----------------------------------------------------------------------------
(* Enough threads are awake for a list q at the control points f.          *)
Enough(f, q) == Sleeps(f) => Cardinality(Awake(f)) >= Len(q)

LEMMA NoSleepEnough == NoSleepOverWork <=> (Free => Enough(pc, queue))
  BY IdlingAwake DEF NoSleepOverWork, Enough, Sleeps

LEMMA NoSleepEnoughNext == NoSleepOverWork' <=> (Free' => Enough(pc', queue'))
  BY IdlingAwakeNext DEF NoSleepOverWork, Enough, Sleeps

(* One more thread at the top of its loop.                                 *)
LEMMA OneMore ==
  ASSUME NEW f \in [Thread -> ThreadPc], IsFiniteSet(Awake(f)), NEW t \in Thread,
         NEW q \in Seq(Task), Enough(f, q),
         NEW g, g = [f EXCEPT ![t] = "top"]
  PROVE  /\ g \in [Thread -> ThreadPc] /\ IsFiniteSet(Awake(g)) /\ Enough(g, q)
         /\ Awake(g) = Awake(f) \cup {t}
<1>1. g \in [Thread -> ThreadPc]
  BY DEF ThreadPc
<1>2. Awake(g) = Awake(f) \cup {t} /\ (Sleeps(g) => Sleeps(f))
  BY DEF Awake, Sleeps
<1> DEFINE n == Cardinality(Awake(f))
<1>3. n \in Nat
  BY FS_CardinalityType
<1>4. /\ IsFiniteSet(Awake(g)) /\ Cardinality(Awake(g)) \in Nat
      /\ Cardinality(Awake(g)) >= n
  <2>1. /\ IsFiniteSet(Awake(f) \cup {t})
        /\ Cardinality(Awake(f) \cup {t}) = IF t \in Awake(f) THEN n ELSE n + 1
    BY FS_AddElement
  <2>2. Cardinality(Awake(g)) = n \/ Cardinality(Awake(g)) = n + 1
    BY <1>2, <2>1
  <2>3. IsFiniteSet(Awake(g))
    BY <1>2, <2>1
  <2> HIDE DEF n
  <2> QED BY <1>3, <2>2, <2>3
<1>5. Enough(g, q)
  <2>1. Len(q) \in Nat
    BY LenProperties
  <2> QED BY <1>2, <1>3, <1>4, <2>1 DEF Enough
<1> QED BY <1>1, <1>2, <1>4, <1>5

(* A signal sent with one more task in the list.                           *)
LEMMA SignalEnough ==
  ASSUME NEW f \in [Thread -> ThreadPc], IsFiniteSet(Awake(f)), Signal(f),
         NEW q \in Seq(Task), Enough(f, q), NEW k \in Task
  PROVE  Enough(pc', Append(q, k))
<1>1. Len(Append(q, k)) = Len(q) + 1 /\ Len(q) \in Nat
  BY AppendProperties, LenProperties
<1>2. CASE \E t \in Thread : f[t] = "wait"
  <2>1. PICK t \in Thread : f[t] = "wait" /\ pc' = [f EXCEPT ![t] = "woken"]
    BY <1>2 DEF Signal
  <2>2. Awake(pc') = Awake(f) \cup {t} /\ t \notin Awake(f)
    BY <2>1 DEF Awake
  <2>3. Cardinality(Awake(pc')) = Cardinality(Awake(f)) + 1
    BY <2>2, FS_AddElement
  <2>4. Cardinality(Awake(f)) >= Len(q) /\ Cardinality(Awake(f)) \in Nat
    BY <1>2, FS_CardinalityType DEF Enough, Sleeps
  <2> QED BY <1>1, <2>3, <2>4 DEF Enough
<1>3. CASE ~ \E t \in Thread : f[t] = "wait"
  BY <1>3 DEF Signal, Enough, Sleeps
<1> QED BY <1>2, <1>3

LEMMA InsertEnough ==
  ASSUME TypeOK, NEW f \in [Thread -> ThreadPc], IsFiniteSet(Awake(f)), NEW k \in Task,
         Free => Enough(f, queue), Insert(k, f) \/ InsertFails(k, f)
  PROVE  NoSleepOverWork'
<1>0. queue \in Seq(Task)
  BY DEF TypeOK
<1>1. Free /\ queue' = Append(queue, k)
  BY DEF Insert, InsertFails
<1>2. Enough(f, queue)
  BY <1>1
<1>3. CASE InsertFails(k, f)
  <2>1. ~Free'
    BY <1>3 DEF InsertFails, Free
  <2> QED BY <2>1, NoSleepEnoughNext
<1>4. CASE Insert(k, f) /\ ~Grows
  <2>1. Signal(f)
    BY <1>4 DEF Insert
  <2>2. Enough(pc', Append(queue, k))
    BY <1>0, <1>2, <2>1, SignalEnough
  <2> QED BY <1>1, <2>2, NoSleepEnoughNext
<1>5. CASE Insert(k, f) /\ Grows
  <2>1. PICK t \in Thread : Signal([f EXCEPT ![t] = "top"])
    BY <1>5 DEF Insert
  <2> DEFINE g == [f EXCEPT ![t] = "top"]
  <2>2. Signal(g) /\ g = [f EXCEPT ![t] = "top"]
    BY <2>1
  <2> HIDE DEF g
  <2>3. g \in [Thread -> ThreadPc] /\ IsFiniteSet(Awake(g)) /\ Enough(g, queue)
    BY <1>0, <1>2, <2>2, OneMore
  <2>4. Enough(pc', Append(queue, k))
    BY <1>0, <2>2, <2>3, SignalEnough
  <2> QED BY <1>1, <2>4, NoSleepEnoughNext
<1> QED BY <1>3, <1>4, <1>5

LEMMA AddTaskEnough ==
  ASSUME IInv, NoSleepOverWork, NEW k \in Task, AddTask(k) \/ AddTaskFails(k)
  PROVE  NoSleepOverWork'
<1>1. Insert(k, pc) \/ InsertFails(k, pc)
  BY DEF AddTask, AddTaskFails
<1>2. pc \in [Thread -> ThreadPc] /\ TypeOK
  BY DEF IInv, TypeOK
<1> QED BY <1>1, <1>2, AwakeFinite, NoSleepEnough, InsertEnough

LEMMA RetryEnough ==
  ASSUME IInv, NoSleepOverWork, NEW t \in Thread, Retry(t)
  PROVE  NoSleepOverWork'
<1> DEFINE f == [pc EXCEPT ![t] = "top"]
           k == task[t]
<1>1. Insert(k, f) \/ InsertFails(k, f)
  BY DEF Retry
<1>2. k \in Task
  BY DEF Retry, IInv, Holding
<1>3. pc \in [Thread -> ThreadPc] /\ TypeOK /\ queue \in Seq(Task)
  BY DEF IInv, TypeOK
<1>4. f = [pc EXCEPT ![t] = "top"]
  OBVIOUS
<1> HIDE DEF f, k
<1>5. Free
  BY <1>1 DEF Insert, InsertFails
<1>6. Enough(pc, queue)
  BY <1>5, NoSleepEnough
<1>7. f \in [Thread -> ThreadPc] /\ IsFiniteSet(Awake(f)) /\ Enough(f, queue)
  BY <1>3, <1>4, <1>6, AwakeFinite, OneMore
<1> QED BY <1>1, <1>2, <1>3, <1>7, InsertEnough

(* A thread that takes a task is awake no more, and the list is shorter.   *)
LEMMA TakeEnough ==
  ASSUME IInv, NoSleepOverWork, NEW t \in Thread, Take(t)
  PROVE  NoSleepOverWork'
<1>1. queue \in Seq(Task) /\ queue # <<>> /\ pc \in [Thread -> ThreadPc]
  BY DEF Take, IInv, TypeOK
<1>2. Len(queue') = Len(queue) - 1 /\ Len(queue) \in Nat
  BY <1>1, HeadTailProperties, LenProperties DEF Take
<1>3. Free /\ Enough(pc, queue)
  BY NoSleepEnough DEF Take
<1>4. pc[t] = "ready" /\ pc' = [pc EXCEPT ![t] = "run"]
  BY DEF Take, Goto
<1>5. Awake(pc') = Awake(pc) \ {t} /\ t \in Awake(pc) /\ (Sleeps(pc') => Sleeps(pc))
  BY <1>1, <1>4 DEF Awake, Sleeps
<1>6. Cardinality(Awake(pc')) = Cardinality(Awake(pc)) - 1
  BY <1>5, AwakeFinite, FS_RemoveElement
<1>7. Cardinality(Awake(pc)) \in Nat
  BY AwakeFinite
<1>8. Enough(pc', queue')
  BY <1>2, <1>3, <1>5, <1>6, <1>7 DEF Enough
<1> QED BY <1>8, NoSleepEnoughNext

LEMMA EmptyEnough ==
  ASSUME IInv', queue' = <<>>
  PROVE  NoSleepOverWork'
<1>1. Len(queue') = 0
  BY EmptySeq
<1>2. Cardinality(Awake(pc')) \in Nat
  BY AwakeFiniteNext
<1>3. Enough(pc', queue')
  BY <1>1, <1>2 DEF Enough
<1> QED BY <1>3, NoSleepEnoughNext

LEMMA MoreEnough ==
  ASSUME IInv, IInv', NoSleepOverWork, UNCHANGED <<queue, leaked>>,
         \A t \in Thread : t \in Awake(pc) => t \in Awake(pc'),
         Sleeps(pc') => Sleeps(pc)
  PROVE  NoSleepOverWork'
<1>1. Awake(pc) \subseteq Awake(pc')
  BY DEF Awake
<1>2. Cardinality(Awake(pc)) <= Cardinality(Awake(pc'))
  BY <1>1, AwakeFiniteNext, FS_Subset
<1>3. Cardinality(Awake(pc)) \in Nat /\ Cardinality(Awake(pc')) \in Nat
  BY AwakeFinite, AwakeFiniteNext
<1>4. Len(queue) \in Nat
  BY LenProperties DEF IInv, TypeOK
<1>5. Enough(pc, queue) => Enough(pc', queue')
  BY <1>2, <1>3, <1>4 DEF Enough
<1> QED BY <1>5, NoSleepEnough, NoSleepEnoughNext DEF Free

LEMMA StepEnough ==
  ASSUME IInv, IInv', NoSleepOverWork, NEW t \in Thread, Step(t)
  PROVE  NoSleepOverWork'
<1>0. pc \in [Thread -> ThreadPc]
  BY DEF IInv, TypeOK
<1>1. CASE Take(t)
  BY <1>1, TakeEnough
<1>2. CASE Retry(t)
  BY <1>2, RetryEnough
<1>3. CASE Leave(t) \/ Quit(t) \/ Wait(t)
  <2>1. queue' = <<>>
    BY <1>3 DEF Leave, Quit, Wait
  <2> QED BY <2>1, EmptyEnough
<1>4. CASE RunCallback(t) \/ Finish(t) \/ AskRetry(t) \/ TimeOut(t) \/ WakeUp(t)
           \/ ExitCallback(t)
  <2>1. UNCHANGED <<queue, leaked>>
    BY <1>4 DEF RunCallback, Finish, AskRetry, TimeOut, WakeUp, ExitCallback
  <2>2. \E l \in ThreadPc \ {"wait"} :
          /\ pc' = [pc EXCEPT ![t] = l]
          /\ pc[t] \in {"top", "ready", "woken"} => l \in {"top", "ready", "woken"}
    BY <1>4
       DEF RunCallback, Finish, AskRetry, TimeOut, WakeUp, ExitCallback, Goto, ThreadPc
  <2>3. \A u \in Thread : u \in Awake(pc) => u \in Awake(pc')
    BY <1>0, <2>2 DEF Awake
  <2>4. Sleeps(pc') => Sleeps(pc)
    BY <1>0, <2>2 DEF Sleeps
  <2> QED BY <2>1, <2>3, <2>4, MoreEnough
<1> QED BY <1>1, <1>2, <1>3, <1>4 DEF Step

LEMMA CallEnough ==
  ASSUME IInv, IInv', NoSleepOverWork,
         \/ Command \/ SetThreads \/ Stop \/ Join \/ Destroy \/ DestroyAgain
         \/ UNCHANGED vars
  PROVE  NoSleepOverWork'
<1>0. pc \in [Thread -> ThreadPc]
  BY DEF IInv, TypeOK
<1>1. CASE Command \/ SetThreads \/ Destroy \/ UNCHANGED vars
  <2>1. UNCHANGED <<pc, queue, leaked>>
    BY <1>1 DEF Command, SetThreads, Destroy, vars
  <2> QED BY <2>1, MoreEnough
<1>2. CASE Stop
  <2>1. ~Sleeps(pc')
    BY <1>2 DEF Stop, Sleeps
  <2> QED BY <2>1, NoSleepEnoughNext DEF Enough
<1>3. CASE Join
  <2>1. UNCHANGED <<queue, leaked>>
    BY <1>3 DEF Join
  <2>2. \A u \in Thread : pc'[u] = pc[u] \/ (pc[u] = "over" /\ pc'[u] = "joined")
    BY <1>0, <1>3 DEF Join, Goto
  <2>3. \A u \in Thread : u \in Awake(pc) => u \in Awake(pc')
    BY <2>2 DEF Awake
  <2>4. Sleeps(pc') => Sleeps(pc)
    BY <2>2 DEF Sleeps
  <2> QED BY <2>1, <2>3, <2>4, MoreEnough
<1>4. CASE DestroyAgain
  <2>1. queue' = <<>>
    BY <1>4 DEF DestroyAgain
  <2> QED BY <2>1, EmptyEnough
<1> QED BY <1>1, <1>2, <1>3, <1>4

(* One signal per task is enough: as long as no caller has returned with    *)
(* the lock, no thread sleeps while more tasks are in the list than threads *)
(* are on their way to it, for any number of threads, tasks and retries.    *)
THEOREM AddingWakes == Spec => []NoSleepOverWork
<1>1. Init => NoSleepOverWork
  <2> SUFFICES ASSUME Init PROVE NoSleepOverWork
    OBVIOUS
  <2>1. ~Sleeps(pc)
    BY DEF Init, Sleeps
  <2> QED BY <2>1, NoSleepEnough DEF Enough
<1>2. IInv /\ IInv' /\ NoSleepOverWork /\ [Next]_vars => NoSleepOverWork'
  <2> SUFFICES ASSUME IInv, IInv', NoSleepOverWork, [Next]_vars PROVE NoSleepOverWork'
    OBVIOUS
  <2>1. ASSUME NEW k \in Task, AddTask(k) \/ AddTaskFails(k) PROVE NoSleepOverWork'
    BY <2>1, AddTaskEnough
  <2>2. ASSUME NEW t \in Thread, Step(t) PROVE NoSleepOverWork'
    BY <2>2, StepEnough
  <2>3. CASE Command \/ SetThreads \/ Stop \/ Join \/ Destroy \/ DestroyAgain
             \/ UNCHANGED vars
    BY <2>3, CallEnough
  <2> QED BY <2>1, <2>2, <2>3 DEF Next
<1> QED BY <1>1, <1>2, PoolInvariant, PTL DEF Spec

-----------------------------------------------------------------------------
(* A stop.  Callers add no task once they have stopped the pool, and no     *)
(* callback asks for a retry.                                              *)
NoLateWork == ~LateTasks /\ RetryTimes = 0

Ending == {"leave", "over", "joined"}

(* How far a stop has got: only then threads end, nobody sleeps, somebody   *)
(* works as long as the list has tasks, and the slots passed are joined.   *)
StopInv ==
  /\ shutdown <=> stop # 0
  /\ \A t \in Thread : /\ pc[t] # "again"
                       /\ pc[t] \in Ending => shutdown
                       /\ pc[t] = "wait" => ~shutdown
  /\ shutdown /\ queue # <<>> => \E t \in Thread : Working(t)
  /\ \A i \in Slots : (i < stop \/ stop < 0) /\ slot[i] # None => pc[slot[i]] = "joined"

LEMMA StopInit == Init => StopInv
<1> SUFFICES ASSUME Init PROVE StopInv
  OBVIOUS
<1>1. stop = 0 /\ shutdown = FALSE
  BY DEF Init
<1>2. \A t \in Thread : pc[t] \in {"top", "none"}
  BY DEF Init
<1>3. \A i \in Slots : ~(i < 0)
  BY DEF Slots
<1> QED BY <1>1, <1>2, <1>3 DEF StopInv, Ending

(* Before a stop threads may come, go and sleep.                           *)
LEMMA NotStopped ==
  ASSUME ~shutdown, StopInv, UNCHANGED <<stop, shutdown>>,
         \A t \in Thread : pc'[t] = pc[t] \/ pc'[t] \notin Ending \cup {"again"}
  PROVE  StopInv'
<1>1. stop = 0 /\ \A i \in Slots : ~(i < stop')
  BY DEF StopInv, Slots
<1>2. \A t \in Thread : pc'[t] # "again" /\ pc'[t] \notin Ending
  BY DEF StopInv
<1> QED BY <1>1, <1>2 DEF StopInv, Slots

(* Once it is stopped a thread that works goes on, or leaves an empty list. *)
LEMMA MovesOn ==
  ASSUME IInv, shutdown, StopInv, NEW t \in Thread, NEW l \in ThreadPc \ {"again", "wait"},
         UNCHANGED <<stop, shutdown, slot>>,
         pc' = [pc EXCEPT ![t] = l], pc[t] # "joined",
         queue' # <<>> => queue # <<>>,
         queue' # <<>> /\ Working(t) => l \in {"top", "ready", "run"}
  PROVE  StopInv'
<1>1. pc' \in [Thread -> ThreadPc] /\ pc'[t] = l /\ \A u \in Thread : u # t => pc'[u] = pc[u]
  BY DEF IInv, TypeOK
<1>2. \A u \in Thread : pc'[u] # "again" /\ pc'[u] # "wait"
  BY <1>1 DEF StopInv
<1>3. ASSUME queue' # <<>> PROVE \E u \in Thread : Working(u)'
  <2>1. PICK u \in Thread : Working(u)
    BY <1>3 DEF StopInv
  <2> QED BY <1>1, <1>3, <2>1 DEF Working
<1>4. ASSUME NEW i \in Slots, i < stop' \/ stop' < 0, slot'[i] # None
      PROVE  pc'[slot'[i]] = "joined"
  <2>1. slot[i] \in Thread /\ pc[slot[i]] = "joined" /\ slot'[i] = slot[i]
    BY <1>4 DEF IInv, TypeOK, StopInv
  <2> QED BY <1>1, <2>1
<1>5. shutdown' <=> stop' # 0
  BY DEF StopInv
<1> QED BY <1>2, <1>3, <1>4, <1>5 DEF StopInv, Slots

LEMMA InsertMoves ==
  ASSUME IInv, NEW k, Insert(k, pc) \/ InsertFails(k, pc)
  PROVE  \A t \in Thread : pc'[t] = pc[t] \/ pc'[t] \in {"top", "woken"}
<1>0. pc \in [Thread -> ThreadPc]
  BY DEF IInv, TypeOK
<1>1. CASE InsertFails(k, pc)
  BY <1>1 DEF InsertFails
<1>2. CASE Insert(k, pc) /\ ~Grows
  <2>1. Signal(pc)
    BY <1>2 DEF Insert
  <2> QED BY <1>0, <2>1, SignalMoves
<1>3. CASE Insert(k, pc) /\ Grows
  <2>1. PICK u \in Thread : Signal([pc EXCEPT ![u] = "top"])
    BY <1>3 DEF Insert
  <2> DEFINE g == [pc EXCEPT ![u] = "top"]
  <2>2. Signal(g) /\ g \in [Thread -> ThreadPc]
        /\ \A t \in Thread : g[t] = pc[t] \/ g[t] = "top"
    BY <1>0, <2>1 DEF ThreadPc
  <2> HIDE DEF g
  <2>3. \A t \in Thread : pc'[t] = g[t] \/ pc'[t] = "woken"
    BY <2>2, SignalMoves
  <2> QED BY <2>2, <2>3
<1> QED BY <1>1, <1>2, <1>3

LEMMA AddTaskStop ==
  ASSUME NoLateWork, IInv, StopInv, NEW k \in Task, AddTask(k) \/ AddTaskFails(k)
  PROVE  StopInv'
<1>1. ~shutdown /\ UNCHANGED <<stop, shutdown>>
  BY DEF AddTask, AddTaskFails, NoLateWork
<1>2. Insert(k, pc) \/ InsertFails(k, pc)
  BY DEF AddTask, AddTaskFails
<1>3. \A t \in Thread : pc'[t] = pc[t] \/ pc'[t] \notin Ending \cup {"again"}
  BY <1>2, InsertMoves DEF Ending
<1> QED BY <1>1, <1>3, NotStopped

LEMMA StepStop ==
  ASSUME NoLateWork, IInv, StopInv, NEW t \in Thread, Step(t)
  PROVE  StopInv'
<1>0. pc \in [Thread -> ThreadPc]
  BY DEF IInv, TypeOK
<1>1. ~Retry(t)
  BY DEF Retry, StopInv
<1>2. ~AskRetry(t)
  <2>1. pc[t] = "run" => task[t] \in Task
    BY DEF IInv, Holding
  <2>2. pc[t] = "run" => tries[task[t]] \in 0 .. RetryTimes
    BY <2>1 DEF IInv, TypeOK
  <2> QED BY <2>2 DEF AskRetry, NoLateWork
<1>3. CASE Quit(t) \/ Wait(t)
  <2>1. ~shutdown /\ UNCHANGED <<stop, shutdown>>
    BY <1>3 DEF Quit, Wait
  <2>2. \A u \in Thread : pc'[u] = pc[u] \/ pc'[u] \notin Ending \cup {"again"}
    BY <1>0, <1>3 DEF Quit, Wait, Goto, Ending
  <2> QED BY <2>1, <2>2, NotStopped
<1>4. CASE Leave(t)
  <2>1. shutdown /\ queue = <<>> /\ UNCHANGED <<queue, stop, shutdown, slot>>
    BY <1>4 DEF Leave
  <2>2. pc[t] = "ready" /\ pc' = [pc EXCEPT ![t] = "leave"]
    BY <1>4 DEF Leave, Goto
  <2>3. "leave" \in ThreadPc \ {"again", "wait"}
    BY DEF ThreadPc
  <2> QED BY <2>1, <2>2, <2>3, MovesOn
<1>5. CASE RunCallback(t) \/ Take(t) \/ Finish(t) \/ TimeOut(t) \/ WakeUp(t) \/ ExitCallback(t)
  <2>1. UNCHANGED <<stop, shutdown, slot>>
    BY <1>5 DEF RunCallback, Take, Finish, TimeOut, WakeUp, ExitCallback
  <2>2. queue' # <<>> => queue # <<>>
    BY <1>5 DEF RunCallback, Take, Finish, TimeOut, WakeUp, ExitCallback
  <2>3. PICK l \in ThreadPc \ {"again", "wait"} :
          /\ pc' = [pc EXCEPT ![t] = l] /\ pc[t] # "joined"
          /\ Working(t) => l \in {"top", "ready", "run"}
          /\ l \in Ending => pc[t] \in Ending
    BY <1>5 DEF RunCallback, Take, Finish, TimeOut, WakeUp, ExitCallback, Goto, ThreadPc,
                Working, Ending
  <2>4. CASE shutdown
    BY <2>1, <2>2, <2>3, <2>4, MovesOn
  <2>5. CASE ~shutdown
    <3>1. l \notin Ending
      BY <2>3, <2>5 DEF StopInv
    <3>2. \A u \in Thread : pc'[u] = pc[u] \/ pc'[u] \notin Ending \cup {"again"}
      BY <1>0, <2>3, <3>1
    <3> QED BY <2>1, <2>5, <3>2, NotStopped
  <2> QED BY <2>4, <2>5
<1> QED BY <1>1, <1>2, <1>3, <1>4, <1>5 DEF Step

(* There is a thread in a slot, and before a stop it works.                *)
LEMMA SomeWorks ==
  ASSUME IInv, StopInv, ~shutdown
  PROVE  \E t \in Thread : pc[t] = "wait" \/ Working(t)
<1>1. Cardinality(Used) # 0
  BY PoolAssumption DEF IInv, SlotsOwned, WithinLimits, Used
<1>2. PICK i \in Slots : slot[i] # None
  BY <1>1, FS_EmptySet DEF Used
<1>3. slot[i] \in Thread /\ pc[slot[i]] \notin {"none", "quit"}
  BY <1>2 DEF IInv, SlotsOwned, TypeOK
<1>4. pc[slot[i]] \in ThreadPc /\ pc[slot[i]] \notin Ending
  BY <1>3 DEF IInv, TypeOK, StopInv
<1> QED BY <1>3, <1>4 DEF ThreadPc, Working, Ending

LEMMA CallStop ==
  ASSUME IInv, StopInv,
         \/ Command \/ SetThreads \/ Stop \/ Join \/ Destroy \/ DestroyAgain
         \/ UNCHANGED vars
  PROVE  StopInv'
<1>0. pc \in [Thread -> ThreadPc] /\ MaxThreads \in Nat
  BY PoolAssumption DEF IInv, TypeOK
<1>1. CASE Command \/ SetThreads \/ UNCHANGED vars
  <2>1. UNCHANGED <<stop, shutdown, pc, queue, slot>>
    BY <1>1 DEF Command, SetThreads, vars
  <2> QED BY <2>1 DEF StopInv, Working, Slots
<1>2. CASE Stop
  <2>1. ~shutdown /\ stop' = 1 /\ shutdown' /\ slot' = slot
    BY <1>2 DEF Stop, StopInv
  <2>2. \A t \in Thread : pc'[t] = IF pc[t] = "wait" THEN "woken" ELSE pc[t]
    BY <1>2 DEF Stop
  <2>3. \A t \in Thread : pc'[t] # "again" /\ pc'[t] # "wait"
    BY <2>2 DEF StopInv
  <2>4. \E t \in Thread : Working(t)'
    BY <2>1, <2>2, SomeWorks DEF Working
  <2>5. \A i \in Slots : ~(i < stop') /\ ~(stop' < 0)
    BY <2>1 DEF Slots
  <2> QED BY <2>1, <2>3, <2>4, <2>5 DEF StopInv, Slots
<1>3. CASE Join
  <2>1. /\ stop \in Slots /\ stop' = stop + 1 /\ UNCHANGED <<shutdown, queue, slot>>
        /\ \/ slot[stop] = None /\ pc' = pc
           \/ /\ slot[stop] # None /\ pc[slot[stop]] = "over"
              /\ pc' = [pc EXCEPT ![slot[stop]] = "joined"]
    BY <1>3 DEF Join, Goto
  <2>2. /\ \A t \in Thread : pc'[t] = pc[t] \/ (pc[t] = "over" /\ pc'[t] = "joined")
        /\ slot[stop] # None => pc'[slot[stop]] = "joined"
    BY <1>0, <2>1 DEF IInv, TypeOK
  <2>3. shutdown /\ shutdown' /\ stop' # 0 /\ ~(stop' < 0)
    BY <2>1 DEF StopInv, Slots
  <2>4. \A t \in Thread : pc'[t] # "again" /\ pc'[t] # "wait"
    BY <2>2, <2>3 DEF StopInv
  <2>5. queue' # <<>> => \E t \in Thread : Working(t)'
    BY <2>1, <2>2, <2>3 DEF StopInv, Working
  <2>6. ASSUME NEW i \in Slots, i < stop', slot'[i] # None
        PROVE  pc'[slot'[i]] = "joined"
    <3>1. i = stop \/ i < stop
      BY <2>1, <2>6 DEF Slots
    <3>2. slot[i] \in Thread /\ slot'[i] = slot[i]
      BY <2>1, <2>6 DEF IInv, TypeOK
    <3>3. CASE i = stop
      BY <2>2, <2>6, <3>2, <3>3
    <3>4. CASE i < stop
      <4>1. pc[slot[i]] = "joined"
        BY <2>6, <3>2, <3>4 DEF StopInv
      <4> QED BY <2>2, <3>2, <4>1
    <3> QED BY <3>1, <3>3, <3>4
  <2> QED BY <2>3, <2>4, <2>5, <2>6 DEF StopInv, Slots
<1>4. CASE Destroy
  <2>1. stop = MaxThreads + 1 /\ stop' < 0 /\ UNCHANGED <<shutdown, pc, queue, slot>>
    BY <1>4 DEF Destroy
  <2>2. stop # 0 /\ \A i \in Slots : i < stop
    BY <1>0, <2>1 DEF Slots
  <2> QED BY <2>1, <2>2 DEF StopInv, Working, Slots
<1>5. CASE DestroyAgain
  <2>1. stop = -2 /\ stop' = -1 /\ queue' = <<>> /\ UNCHANGED <<shutdown, pc, slot>>
    BY <1>5 DEF DestroyAgain
  <2> QED BY <2>1 DEF StopInv, Slots
<1> QED BY <1>1, <1>2, <1>3, <1>4, <1>5

(* Whoever destroys the pool waits for every task: once the slots have been *)
(* joined the list is empty and no thread holds a task, provided no task is *)
(* added or put back meanwhile (NoLateWork).                               *)
THEOREM StopFinishesTasks == NoLateWork => (Spec => []AllTasksDone)
<1> SUFFICES ASSUME NoLateWork PROVE Spec => []AllTasksDone
  OBVIOUS
<1>1. Init => StopInv
  BY StopInit
<1>2. IInv /\ StopInv /\ [Next]_vars => StopInv'
  <2> SUFFICES ASSUME IInv, StopInv, [Next]_vars PROVE StopInv'
    OBVIOUS
  <2>1. ASSUME NEW k \in Task, AddTask(k) \/ AddTaskFails(k) PROVE StopInv'
    BY <2>1, AddTaskStop
  <2>2. ASSUME NEW t \in Thread, Step(t) PROVE StopInv'
    BY <2>2, StepStop
  <2>3. CASE Command \/ SetThreads \/ Stop \/ Join \/ Destroy \/ DestroyAgain
             \/ UNCHANGED vars
    BY <2>3, CallStop
  <2> QED BY <2>1, <2>2, <2>3 DEF Next
<1>3. IInv /\ TaskInv /\ StopInv => AllTasksDone
  <2> SUFFICES ASSUME IInv, TaskInv, StopInv, stop < 0
               PROVE  queue = <<>> /\ \A t \in Thread : task[t] = None
    BY DEF AllTasksDone
  <2>1. ASSUME NEW t \in Thread PROVE ~Working(t)
    <3>1. Working(t) => home[t] \in Slots /\ slot[home[t]] = t
      BY DEF Working, IInv, SlotsOwned
    <3>2. t # None
      BY PoolAssumption
    <3> QED BY <3>1, <3>2 DEF StopInv, Working
  <2>2. shutdown
    BY DEF StopInv
  <2>3. queue = <<>>
    BY <2>1, <2>2 DEF StopInv
  <2>4. \A t \in Thread : task[t] = None
    BY <2>1 DEF TaskInv, Resting, Working
  <2> QED BY <2>3, <2>4
<1> QED BY <1>1, <1>2, <1>3, PoolInvariant, TasksInvariant, PTL DEF Spec
=============================================================================
