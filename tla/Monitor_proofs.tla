----------------------------- MODULE Monitor_proofs -----------------------------
(***************************************************************************)
(* The daemon keeps account of its workers: each worker is found by the     *)
(* slot that has its pid, each slot has one, and a flag reaches the worker  *)
(* it was meant for (Monitor).                                             *)
(***************************************************************************)
EXTENDS Monitor, TLAPS

(* Types; a pipe never holds more commands than there were signals.        *)
DaemonTyped ==
  /\ mpc \in {"main", "bind", "start", "record", "loop", "again", "over"} /\ at \in Slot
  /\ term \in BOOLEAN /\ usr1 \in BOOLEAN /\ count \in 0..Slots
  /\ wr \subseteq Slot /\ clock \in Nat /\ left \in 0..Reloads
  /\ asked \subseteq Pid
TableTyped ==
  /\ pid \in [Slot -> Pid \cup {None}] /\ age \in [Slot -> NotSet..Killed]
  /\ day \in [Slot -> Nat]
WorkersTyped ==
  /\ pc \in [Pid -> {"none", "boot", "run", "hup", "join", "recv", "pool", "zombie"}]
  /\ home \in [Pid -> Slot \cup {None}]
  /\ exit \in [Pid -> BOOLEAN]
  /\ holds \in [Pid -> SUBSET Slot]
  /\ bytes \in [Pid -> Nat]
Commands == \A p \in Pid : bytes[p] + left + (IF usr1 THEN 1 ELSE 0) <= Reloads
Typed == DaemonTyped /\ TableTyped /\ WorkersTyped /\ Commands

Started(i) == \E p \in Pid : Child(p) /\ home[p] = i

(* A child is in the slot that has its pid, until which is written in the   *)
(* slot being forked for; and no slot has another's.                       *)
Homes ==
  ~Orphan => /\ \A p \in Pid : Child(p) =>
                  home[p] \in wr /\ (pid[home[p]] = p \/ (mpc = "record" /\ at = home[p]))
             /\ \A p \in Pid, i \in Slot : Child(p) /\ pid[i] = p => home[p] = i
             /\ \A p, q \in Pid : Child(p) /\ Child(q) /\ home[p] = home[q] => p = q

(* Which slots have a worker and a pid, by the daemon's control.           *)
Phases ==
  /\ mpc \in {"main", "bind"} =>
       wr = {} /\ at = 1 /\ (\A p \in Pid : ~Child(p)) /\ \A i \in Slot : pid[i] = None
  /\ mpc = "start" =>
       /\ wr \subseteq 1..(at - 1) /\ ~Started(at)
       /\ \A i \in Slot : IF i < at THEN pid[i] # None /\ Started(i) ELSE pid[i] = None
  /\ mpc = "again" =>
       ~Started(at) /\ \A i \in Slot : pid[i] # None /\ (i # at => Started(i))
  /\ mpc = "record" =>
       \/ \A i \in Slot : Started(i) /\ pid[i] # None
       \/ /\ wr \subseteq 1..at
          /\ \A i \in Slot : (i <= at => Started(i)) /\ (pid[i] = None <=> i >= at)
  /\ mpc = "loop" => \A i \in Slot : pid[i] # None /\ (Started(i) \/ term)

Base == Typed /\ Homes /\ Phases /\ AskedItself

(* As long as reloads keep processCount.                                   *)
Counted == mpc \notin {"main", "over"} => count = Slots
Private == \A p \in Pid : Alive(p) => holds[p] = {}

-----------------------------------------------------------------------------
(* What the steps of processes that end, and of workers, do.               *)
LEMMA Constants ==
  /\ Slots \in Nat /\ Slots >= 1 /\ MaxExit \in Nat /\ Reloads \in Nat /\ Killed \in Nat
  /\ Pid \subseteq Nat /\ None \notin Pid /\ NotSet = -1 /\ Killed = MaxExit + 2
  /\ \A i \in Slot : i \in Nat /\ i >= 1 /\ i <= Slots
  /\ None \notin Slot
  BY MonitorAssumption DEF None, Slot, NotSet, Killed

LEMMA TypedTypeOK == Typed => TypeOK
<1> SUFFICES ASSUME Typed PROVE TypeOK
  OBVIOUS
<1>1. bytes \in [Pid -> 0..Reloads]
  <2>1. bytes \in [Pid -> Nat] /\ left \in Nat /\ Reloads \in Nat /\ Commands
    BY Constants DEF Typed, DaemonTyped, WorkersTyped
  <2>2. \A p \in Pid : bytes[p] <= Reloads
    BY <2>1 DEF Commands
  <2>3. \A p \in Pid : bytes[p] \in 0..Reloads
    BY <2>1, <2>2
  <2> QED BY <2>1, <2>3
<1> QED BY <1>1 DEF Typed, DaemonTyped, TableTyped, WorkersTyped, TypeOK

LEMMA EndEffect ==
  ASSUME Typed, NEW ps \in SUBSET Pid, \A p \in ps : Alive(p), End(ps)
  PROVE  /\ WorkersTyped' /\ home' = home
         /\ \A q \in Pid : bytes'[q] \in Nat /\ bytes'[q] <= bytes[q]
         /\ \A q \in Pid : Alive(q)' => Alive(q) /\ holds'[q] = holds[q]
         /\ ~Orphan => \A q \in Pid : Child(q)' <=> Child(q)
<1> USE DEF Typed, WorkersTyped
<1>1. /\ pc' = [p \in Pid |-> IF p \in ps THEN (IF Orphan THEN "none" ELSE "zombie") ELSE pc[p]]
      /\ exit' = [p \in Pid |-> IF p \in ps THEN FALSE ELSE exit[p]]
      /\ bytes' = [p \in Pid |-> IF p \in ps THEN 0 ELSE bytes[p]]
      /\ holds' = [p \in Pid |-> IF p \in ps THEN {} ELSE holds[p]]
      /\ home' = home
  BY DEF End
<1>2. WorkersTyped'
  BY <1>1
<1>3. \A q \in Pid : bytes'[q] \in Nat /\ bytes'[q] <= bytes[q]
  BY <1>1
<1>4. \A q \in Pid : Alive(q)' => Alive(q) /\ holds'[q] = holds[q]
  BY <1>1 DEF Alive
<1>5. ~Orphan => \A q \in Pid : Child(q)' <=> Child(q)
  BY <1>1 DEF Alive, Child
<1> QED BY <1>1, <1>2, <1>3, <1>4, <1>5

LEMMA DaemonEndsEffect ==
  ASSUME Typed, DaemonEnds
  PROVE  /\ mpc' = "over" /\ usr1' = FALSE /\ left' = 0 /\ wr' = {} /\ term' = term
         /\ UNCHANGED <<home, exit, bytes, holds>> /\ WorkersTyped'
         /\ \A q \in Pid : Alive(q)' => Alive(q)
<1>1. pc' = [p \in Pid |-> IF pc[p] = "zombie" THEN "none" ELSE pc[p]]
  BY DEF DaemonEnds
<1> QED BY <1>1 DEF DaemonEnds, Typed, WorkersTyped, Alive

(* A worker's step leaves the daemon alone; it may end, and stays a child. *)
LEMMA WorkerEffect ==
  ASSUME Typed, NEW p \in Pid, Worker(p)
  PROVE  /\ UNCHANGED <<mpc, at, count, wr, clock, asked, signals, table, home>>
         /\ WorkersTyped'
         /\ \A q \in Pid : bytes'[q] \in Nat /\ bytes'[q] <= bytes[q]
         /\ \A q \in Pid : Alive(q)' => Alive(q) /\ holds'[q] = holds[q]
         /\ ~Orphan => \A q \in Pid : Child(q)' <=> Child(q)
<1>1. CASE End({p}) /\ KeepDaemon /\ Alive(p)
  BY <1>1, EndEffect DEF KeepDaemon
<1>2. ASSUME NEW l \in {"run", "hup", "join", "recv", "pool"}, NEW b \in BOOLEAN,
             NEW k \in 0..bytes[p],
             pc[p] \notin {"none", "zombie"},
             KeepDaemon, pc' = [pc EXCEPT ![p] = l], UNCHANGED <<home, holds>>,
             exit' = [exit EXCEPT ![p] = b], bytes' = [bytes EXCEPT ![p] = k]
      PROVE  /\ UNCHANGED <<mpc, at, count, wr, clock, asked, signals, table, home>>
             /\ WorkersTyped'
             /\ \A q \in Pid : bytes'[q] \in Nat /\ bytes'[q] <= bytes[q]
             /\ \A q \in Pid : Alive(q)' => Alive(q) /\ holds'[q] = holds[q]
             /\ ~Orphan => \A q \in Pid : Child(q)' <=> Child(q)
  <2> USE DEF Typed, WorkersTyped
  <2>1. WorkersTyped'
    BY <1>2
  <2>2. \A q \in Pid : bytes'[q] \in Nat /\ bytes'[q] <= bytes[q]
    BY <1>2
  <2>3. \A q \in Pid : Alive(q)' => Alive(q) /\ holds'[q] = holds[q]
    BY <1>2 DEF Alive
  <2>4. \A q \in Pid : Child(q)' <=> Child(q)
    BY <1>2 DEF Child
  <2> QED BY <1>2, <2>1, <2>2, <2>3, <2>4 DEF KeepDaemon
<1> DEFINE Moves(l, b, k) ==
             /\ pc[p] \notin {"none", "zombie"} /\ KeepDaemon /\ UNCHANGED <<home, holds>>
             /\ pc' = [pc EXCEPT ![p] = l] /\ exit' = [exit EXCEPT ![p] = b]
             /\ bytes' = [bytes EXCEPT ![p] = k]
<1>3. (\E l \in {"run", "hup", "join", "recv", "pool"}, b \in BOOLEAN, k \in 0..bytes[p] : Moves(l, b, k))
       \/ (End({p}) /\ KeepDaemon /\ Alive(p))
  <2>1. /\ pc = [pc EXCEPT ![p] = pc[p]] /\ exit = [exit EXCEPT ![p] = exit[p]]
        /\ bytes = [bytes EXCEPT ![p] = bytes[p]]
        /\ pc[p] \in {"none", "boot", "run", "hup", "join", "recv", "pool", "zombie"}
        /\ exit[p] \in BOOLEAN /\ bytes[p] \in Nat /\ bytes[p] \in 0..bytes[p]
    BY DEF Typed, WorkersTyped
  <2>2. ASSUME BindFails(p) \/ CleanEnvironment(p) \/ Fall(p)
        PROVE  End({p}) /\ KeepDaemon /\ Alive(p)
    BY <2>2 DEF BindFails, CleanEnvironment, Fall, Alive
  <2>3. CASE Boot(p)
    <3>1. CASE End({p})
      BY <2>3, <3>1 DEF Boot, Alive
    <3>2. ASSUME NEW l \in {"run", "recv"}, Goes(p, l), UNCHANGED <<home, exit, bytes, holds>>
          PROVE  Moves(l, exit[p], bytes[p])
      BY <2>1, <2>3, <3>2 DEF Boot, Goes
    <3> HIDE DEF Moves
    <3> QED BY <2>1, <2>3, <3>1, <3>2 DEF Boot
  <2>4. ASSUME Leave(p) PROVE Moves("recv", exit[p] \/ age[home[p]] # NotSet, bytes[p])
    BY <2>1, <2>4 DEF Leave, Goes
  <2>5. ASSUME ThreadFails(p) PROVE Moves(pc[p], TRUE, bytes[p]) /\ pc[p] \in {"run", "join"}
    BY <2>1, <2>5 DEF ThreadFails
  <2>6. ASSUME HangUp(p) PROVE Moves("hup", exit[p], bytes[p])
    BY <2>1, <2>6 DEF HangUp, Goes
  <2>7. CASE HungUp(p)
    <3>1. CASE End({p})
      BY <2>7, <3>1 DEF HungUp, Alive
    <3>2. CASE Goes(p, "recv") /\ exit' = [exit EXCEPT ![p] = TRUE] /\ UNCHANGED <<home, bytes, holds>>
      <4>1. Moves("recv", TRUE, bytes[p])
        BY <2>1, <2>7, <3>2 DEF HungUp, Goes
      <4> HIDE DEF Moves
      <4> QED BY <2>1, <4>1
    <3> QED BY <2>7, <3>1, <3>2 DEF HungUp
  <2>8. ASSUME OnProcessPipeEvent(p)
        PROVE  bytes[p] - 1 \in 0..bytes[p] /\ (Moves("run", exit[p], bytes[p] - 1) \/ Moves("join", exit[p], bytes[p] - 1))
    BY <2>1, <2>8 DEF OnProcessPipeEvent, Goes
  <2>9. ASSUME Joined(p) PROVE Moves("run", exit[p], bytes[p]) \/ Moves("pool", exit[p], bytes[p])
    BY <2>1, <2>9 DEF Joined, Goes
  <2>10. (exit[p] \/ age[home[p]] # NotSet) \in BOOLEAN
    BY <2>1
  <2> HIDE DEF Moves
  <2> QED BY <2>1, <2>2, <2>3, <2>4, <2>5, <2>6, <2>7, <2>8, <2>9, <2>10
          DEF Worker, SessionsGone, NoParent
<1> QED BY <1>1, <1>2, <1>3

-----------------------------------------------------------------------------
(* Steps that leave the account of the workers alone.                      *)
LEMMA InitBase == Init => Base
<1> SUFFICES ASSUME Init PROVE Base
  OBVIOUS
<1>1. \A p \in Pid : ~Child(p) /\ ~Alive(p)
  BY DEF Init, Child, Alive
<1>2. Typed
  <2>1. 1 \in Slot /\ NotSet \in NotSet..Killed /\ 0 \in 0..Slots /\ Reloads \in 0..Reloads
    BY Constants DEF Slot
  <2>2. DaemonTyped
    BY <2>1 DEF Init, DaemonTyped
  <2>3. TableTyped
    BY <2>1 DEF Init, TableTyped
  <2>4. WorkersTyped /\ Commands
    BY Constants DEF Init, WorkersTyped, Commands
  <2> QED BY <2>2, <2>3, <2>4 DEF Typed
<1>3. Homes /\ AskedItself
  BY <1>1 DEF Homes, AskedItself
<1>4. Phases
  BY <1>1 DEF Init, Phases
<1> QED BY <1>2, <1>3, <1>4 DEF Base

LEMMA OverBase == ASSUME mpc' = "over" PROVE Homes' /\ Phases' /\ AskedItself'
  BY DEF Homes, Phases, AskedItself, Orphan

LEMMA FrameBase ==
  ASSUME Homes, Phases, UNCHANGED <<mpc, at, pid, wr, home>>, term => term',
         \A p \in Pid : Child(p)' <=> Child(p)
  PROVE  Homes' /\ Phases'
<1>1. \A i \in Slot : Started(i)' <=> Started(i)
  BY DEF Started
<1>2. Homes'
  BY DEF Homes, Orphan
<1>3. at' = at /\ (Started(at)' <=> Started(at))
  BY DEF Started
<1>4. Phases'
  BY <1>1, <1>3 DEF Phases
<1> QED BY <1>2, <1>4

LEMMA FrameFlags ==
  ASSUME Typed, AskedItself, UNCHANGED <<mpc, at, home>>, asked \subseteq asked',
         \A p \in Pid : Alive(p)' => Alive(p),
         \A p \in Pid : Alive(p) /\ ~Orphan /\ age'[home[p]] # NotSet =>
                          age[home[p]] # NotSet \/ p \in asked'
  PROVE  AskedItself'
  BY DEF AskedItself, Orphan

LEMMA WorkerBase ==
  ASSUME Base, NEW p \in Pid, Worker(p)
  PROVE  Base'
<1>1. /\ UNCHANGED <<mpc, at, count, wr, clock, asked, signals, table, home>>
      /\ WorkersTyped'
      /\ \A q \in Pid : bytes'[q] \in Nat /\ bytes'[q] <= bytes[q]
      /\ \A q \in Pid : Alive(q)' => Alive(q)
      /\ ~Orphan => \A q \in Pid : Child(q)' <=> Child(q)
  BY WorkerEffect DEF Base
<1>2. Typed'
  <2>1. Commands'
    BY <1>1, Constants DEF Base, Typed, Commands, signals, WorkersTyped, DaemonTyped
  <2> QED BY <1>1, <2>1 DEF Base, Typed, DaemonTyped, TableTyped, signals, table
<1>3. Homes' /\ Phases'
  <2>1. CASE Orphan
    BY <1>1, <2>1, OverBase DEF Orphan
  <2>2. CASE ~Orphan
    BY <1>1, <2>2, FrameBase DEF Base, signals, table
  <2> QED BY <2>1, <2>2
<1>4. AskedItself'
  BY <1>1, FrameFlags DEF Base, table
<1> QED BY <1>2, <1>3, <1>4 DEF Base

(* Signals and the passing of time.                                        *)
LEMMA OutsideBase ==
  ASSUME Base, Sigterm \/ Sigusr1 \/ Later \/ Tick
  PROVE  Base'
<1>1. /\ UNCHANGED <<mpc, at, count, wr, pid, day, asked, pc, home, exit, bytes, holds>>
      /\ (term => term')
  BY DEF Sigterm, Sigusr1, Later, Tick, workers, table, signals
<1>2. \A i \in Slot : age'[i] # NotSet => age[i] # NotSet
  <2>1. CASE age' = age
    BY <2>1
  <2>2. CASE Tick
    BY <2>2, Constants DEF Tick, Base, Typed, TableTyped
  <2> QED BY <2>1, <2>2 DEF Sigterm, Sigusr1, Later, Tick, workers, table, signals
<1>3. Typed'
  <2>1. DaemonTyped'
    <3>1. term' \in BOOLEAN /\ usr1' \in BOOLEAN
      BY DEF Base, Typed, DaemonTyped, Sigterm, Sigusr1, Later, Tick, signals
    <3>2. clock' \in Nat
      BY DEF Base, Typed, DaemonTyped, Sigterm, Sigusr1, Later, Tick
    <3>3. left' \in 0..Reloads
      BY Constants DEF Base, Typed, DaemonTyped, Sigterm, Sigusr1, Later, Tick, signals
    <3> QED BY <1>1, <3>1, <3>2, <3>3 DEF Base, Typed, DaemonTyped
  <2>2. TableTyped'
    <3>1. CASE age' = age
      BY <1>1, <3>1 DEF Base, Typed, TableTyped
    <3>2. CASE Tick
      BY <1>1, <3>2, Constants DEF Base, Typed, TableTyped, Tick
    <3> QED BY <3>1, <3>2 DEF Sigterm, Sigusr1, Later, Tick, workers, table, signals
  <2>3. WorkersTyped'
    BY <1>1 DEF Base, Typed, WorkersTyped
  <2>4. Commands'
    <3>1. \/ usr1' = usr1 /\ left' = left
          \/ usr1' = TRUE /\ left' = left - 1
      BY DEF Sigterm, Sigusr1, Later, Tick, workers, table, signals
    <3> QED BY <1>1, <3>1, Constants DEF Base, Typed, Commands, DaemonTyped, WorkersTyped
  <2> QED BY <2>1, <2>2, <2>3, <2>4 DEF Typed
<1>4. \A p \in Pid : (Child(p)' <=> Child(p)) /\ (Alive(p)' <=> Alive(p))
  BY <1>1 DEF Child, Alive
<1>5. Homes' /\ Phases'
  BY <1>1, <1>4, FrameBase DEF Base
<1>6. AskedItself'
  <2>1. \A p \in Pid : Alive(p) /\ ~Orphan => home[p] \in Slot
    BY DEF Base, Typed, DaemonTyped, Homes, Alive, Child
  <2> QED BY <1>1, <1>2, <1>4, <2>1, FrameFlags DEF Base
<1> QED BY <1>3, <1>5, <1>6 DEF Base

(* The daemon's looks at its table.                                        *)
LEMMA LookBase ==
  ASSUME Base, DealSigterm \/ ShowProcStatus
  PROVE  Base'
<1>1. PICK late \in SUBSET Slot, flag \in SUBSET Slot :
        /\ Kill(late) /\ mpc = "loop"
        /\ age' = [i \in Slot |-> IF i \in late THEN Killed ELSE IF i \in flag THEN 0 ELSE age[i]]
        /\ asked' = asked \cup {pid[i] : i \in flag}
        /\ \A i \in late : Late(i)
        /\ UNCHANGED <<mpc, at, count, pid, day, wr, clock, signals>>
  <2>0. 1..count \subseteq Slot
    BY Constants DEF Base, Typed, DaemonTyped, Slot
  <2>1. CASE DealSigterm
    <3> DEFINE late == {i \in 1..count : Late(i)}
               flag == {j \in 1..count : age[j] = NotSet}
    <3>1. age' = [i \in Slot |-> IF i \in late THEN Killed ELSE IF i \in flag THEN 0 ELSE age[i]]
      <4>1. \A i \in Slot : i <= count <=> i \in 1..count
        BY Constants DEF Base, Typed, DaemonTyped
      <4> QED BY <2>1, <4>1 DEF DealSigterm
    <3>2. late \in SUBSET Slot /\ flag \in SUBSET Slot /\ \A i \in late : Late(i)
      BY <2>0
    <3> QED BY <2>1, <3>1, <3>2 DEF DealSigterm, Idle
  <2>2. CASE ShowProcStatus
    <3> DEFINE due  == {i \in 1..count : age[i] = NotSet /\ Due(i)}
               seen == {i \in 1..count : \A j \in due : i <= j}
               late == {i \in seen : Late(i)}
               flag == due \cap seen
    <3>1. /\ Kill(late)
          /\ age' = [i \in Slot |-> IF i \in late THEN Killed ELSE IF i \in flag THEN 0 ELSE age[i]]
          /\ asked' = asked \cup {pid[i] : i \in flag}
      BY <2>2 DEF ShowProcStatus
    <3>2. late \in SUBSET Slot /\ flag \in SUBSET Slot /\ \A i \in late : Late(i)
      BY <2>0
    <3> QED BY <2>2, <3>1, <3>2 DEF ShowProcStatus, Idle
  <2> QED BY <2>1, <2>2
<1>2. /\ WorkersTyped' /\ home' = home
      /\ \A q \in Pid : bytes'[q] \in Nat /\ bytes'[q] <= bytes[q]
      /\ \A q \in Pid : Alive(q)' => Alive(q)
      /\ \A q \in Pid : Child(q)' <=> Child(q)
  <2> DEFINE ps == {p \in Pid : Alive(p) /\ \E i \in late : pid[i] = p}
  <2>1. End(ps) /\ ps \in SUBSET Pid /\ (\A p \in ps : Alive(p)) /\ ~Orphan
    BY <1>1 DEF Kill, Orphan
  <2> HIDE DEF ps
  <2> QED BY <2>1, EndEffect DEF Base
<1>3. \A i \in Slot : pid[i] \in Pid
  BY <1>1 DEF Base, Phases, Typed, TableTyped
<1>4. Typed'
  <2>1. TableTyped'
    BY <1>1, Constants DEF Base, Typed, TableTyped
  <2>2. Commands'
    BY <1>1, <1>2, Constants DEF Base, Typed, Commands, signals, WorkersTyped, DaemonTyped
  <2> QED BY <1>1, <1>2, <1>3, <2>1, <2>2 DEF Base, Typed, DaemonTyped, signals
<1>5. Homes' /\ Phases'
  BY <1>1, <1>2, FrameBase DEF Base, signals
<1>6. AskedItself'
  <2>1. ASSUME NEW p \in Pid, Alive(p), age'[home[p]] # NotSet
        PROVE  age[home[p]] # NotSet \/ p \in asked'
    <3>1. home[p] \in Slot /\ pid[home[p]] = p
      BY <1>1, <2>1 DEF Base, Typed, DaemonTyped, Homes, Alive, Child, Orphan
    <3>2. \A i \in late : age[i] # NotSet
      BY <1>1, Constants DEF Late
    <3> QED BY <1>1, <2>1, <3>1, <3>2
  <2> QED BY <1>1, <1>2, <2>1, FrameFlags DEF Base
<1> QED BY <1>4, <1>5, <1>6 DEF Base

LEMMA ReloadLogBase ==
  ASSUME Base, ReloadLog
  PROVE  Base'
<1>1. /\ UNCHANGED <<mpc, at, term, left, wr, pc, home, exit, holds, clock, asked, pid, age, day>>
      /\ usr1 /\ usr1' = FALSE /\ mpc = "loop"
  BY DEF ReloadLog, Idle, table
<1>2. count' \in 0..Slots
  BY MonitorAssumption DEF ReloadLog, LoadConfig, Base, Typed, DaemonTyped
<1>3. bytes' \in [Pid -> Nat] /\ \A p \in Pid : bytes'[p] <= bytes[p] + 1
  <2>1. bytes \in [Pid -> Nat]
    BY DEF Base, Typed, WorkersTyped
  <2>2. CASE UNCHANGED bytes
    BY <2>1, <2>2
  <2>3. CASE \E T : bytes' = [p \in Pid |-> IF Alive(p) /\ home[p] \in T THEN bytes[p] + 1 ELSE bytes[p]]
    BY <2>1, <2>3
  <2> QED BY <2>2, <2>3 DEF ReloadLog
<1>4. Typed'
  <2>1. Commands'
    <3> SUFFICES ASSUME NEW p \in Pid PROVE bytes'[p] + left' + 0 <= Reloads
      BY <1>1 DEF Commands
    <3>1. bytes[p] + left + 1 <= Reloads /\ bytes[p] \in Nat /\ left \in Nat /\ Reloads \in Nat
      BY <1>1, Constants DEF Base, Typed, Commands, DaemonTyped, WorkersTyped
    <3> QED BY <1>1, <1>3, <3>1
  <2> QED BY <1>1, <1>2, <1>3, <2>1 DEF Base, Typed, DaemonTyped, TableTyped, WorkersTyped
<1>5. \A p \in Pid : (Child(p)' <=> Child(p)) /\ (Alive(p)' <=> Alive(p))
  BY <1>1 DEF Child, Alive
<1>6. Homes' /\ Phases'
  BY <1>1, <1>5, FrameBase DEF Base
<1>7. AskedItself'
  BY <1>1, <1>5, FrameFlags DEF Base
<1> QED BY <1>4, <1>6, <1>7 DEF Base

-----------------------------------------------------------------------------
(* Steps that change the account.                                          *)
LEMMA OverTyped ==
  ASSUME Typed, DaemonEnds, UNCHANGED <<count, clock, table>>, at' \in Slot, asked' \subseteq Pid
  PROVE  Typed'
<1>1. /\ mpc' = "over" /\ usr1' = FALSE /\ left' = 0 /\ wr' = {} /\ term' = term
      /\ bytes' = bytes /\ WorkersTyped'
  BY DaemonEndsEffect
<1>2. DaemonTyped' /\ TableTyped'
  <2>1. 0 \in 0..Reloads
    BY Constants
  <2>2. DaemonTyped'
    BY <1>1, <2>1 DEF Typed, DaemonTyped
  <2>3. TableTyped'
    BY DEF Typed, TableTyped, table
  <2> QED BY <2>2, <2>3
<1>3. Commands'
  <2> SUFFICES ASSUME NEW p \in Pid PROVE bytes'[p] + left' + 0 <= Reloads
    BY <1>1 DEF Commands
  <2>1. bytes[p] + left <= Reloads /\ bytes[p] \in Nat /\ left \in Nat /\ Reloads \in Nat
    BY Constants DEF Typed, Commands, DaemonTyped, WorkersTyped
  <2> QED BY <1>1, <2>1
<1> QED BY <1>1, <1>2, <1>3 DEF Typed

(* The daemon ends: nobody keeps account any more.                         *)
LEMMA EndsBase ==
  ASSUME Base, DaemonEnds, UNCHANGED <<count, clock, table>>, at' \in Slot, asked' \subseteq Pid
  PROVE  Base'
<1>1. mpc' = "over"
  BY DEF DaemonEnds
<1> QED BY <1>1, OverTyped, OverBase DEF Base

LEMMA NoChildBase ==
  ASSUME Base, NoChild \/ Crash
  PROVE  Base'
<1>1. DaemonEnds /\ UNCHANGED <<at, count, clock, asked, table>>
  BY DEF NoChild, Crash
<1> QED BY <1>1, EndsBase DEF Base, Typed, DaemonTyped

LEMMA MainBase ==
  ASSUME Base, Main \/ Bind
  PROVE  Base'
<1>1. /\ mpc \in {"main", "bind"} /\ UNCHANGED <<at, clock, asked, table>>
      /\ count' \in 0..Slots
      /\ \/ DaemonEnds /\ count' = count
         \/ mpc = "main" /\ mpc' = "bind" /\ UNCHANGED <<wr, workers, signals>>
         \/ mpc = "bind" /\ mpc' = "start" /\ UNCHANGED <<wr, workers, signals>>
  BY Constants DEF Main, Bind, LoadConfig, Base, Typed, DaemonTyped
<1>2. CASE DaemonEnds /\ count' = count
  BY <1>1, <1>2, EndsBase DEF Base, Typed, DaemonTyped
<1>3. CASE UNCHANGED <<wr, workers, signals>> /\ mpc' \in {"bind", "start"}
  <2>1. Typed'
    BY <1>1, <1>3 DEF Base, Typed, DaemonTyped, TableTyped, WorkersTyped, Commands, workers, signals, table
  <2>2. \A p \in Pid : ~Child(p)' /\ ~Alive(p)'
    BY <1>1, <1>3 DEF Base, Phases, Child, Alive, workers
  <2>3. Homes' /\ AskedItself'
    BY <2>2 DEF Homes, AskedItself
  <2>4. wr' = {} /\ at' = 1 /\ \A i \in Slot : pid'[i] = None
    BY <1>1, <1>3 DEF Base, Phases, table
  <2>5. Phases'
    <3>1. ~Started(at)'
      BY <2>2 DEF Started
    <3>2. \A i \in Slot : ~(i < 1)
      BY Constants
    <3> QED BY <1>3, <2>2, <2>4, <3>1, <3>2 DEF Phases
  <2> QED BY <2>1, <2>3, <2>5 DEF Base
<1> QED BY <1>1, <1>2, <1>3

LEMMA ForkBase ==
  ASSUME Base, Start \/ Restart
  PROVE  Base'
<1> USE DEF Base
<1>1. PICK start \in BOOLEAN :
        /\ ForkProcess(at, start) /\ UNCHANGED <<count, clock, asked, table>>
        /\ mpc = (IF start THEN "start" ELSE "again")
  BY DEF Start, Restart
<1>2. CASE ForkMayFail /\ at' = at /\ DaemonEnds
  BY <1>1, <1>2, EndsBase DEF Typed, DaemonTyped
<1>3. ASSUME NEW p \in Pid, ~Child(p), mpc' = "record", at' = at,
             pc' = [pc EXCEPT ![p] = "boot"], home' = [home EXCEPT ![p] = at],
             holds' = [holds EXCEPT ![p] = Inherits(at, start)], wr' = wr \cup {at},
             UNCHANGED <<exit, bytes, signals>>
      PROVE  Base'
  <2>1. at \in Slot /\ at \in Nat /\ Slots \in Nat /\ count \in 0..Slots /\ mpc \in {"start", "again"}
    BY <1>1, Constants DEF Typed, DaemonTyped
  <2>2. Typed'
    <3>1. Inherits(at, start) \subseteq Slot
      BY <2>1 DEF Inherits, Typed, DaemonTyped
    <3>2. DaemonTyped' /\ TableTyped'
      BY <1>1, <1>3, <2>1 DEF Typed, DaemonTyped, TableTyped, table, signals
    <3>3. WorkersTyped'
      BY <1>3, <2>1, <3>1 DEF Typed, WorkersTyped
    <3>4. Commands'
      BY <1>3 DEF Typed, Commands, signals
    <3> QED BY <3>2, <3>3, <3>4 DEF Typed
  <2>3. /\ \A q \in Pid : Child(q)' <=> Child(q) \/ q = p
        /\ \A q \in Pid : Alive(q)' <=> Alive(q) \/ q = p
        /\ \A q \in Pid : home'[q] = IF q = p THEN at ELSE home[q]
    BY <1>3 DEF Typed, WorkersTyped, Child, Alive
  <2>4. \A q \in Pid : Child(q) => home[q] # at
    BY <1>1 DEF Phases, Started
  <2>5. \A i \in Slot : i # at /\ pid[i] = p => FALSE
    <3> SUFFICES ASSUME NEW i \in Slot, i # at, pid[i] = p PROVE FALSE
      OBVIOUS
    <3>1. Started(i)
      BY <1>1, Constants, <2>1 DEF Phases
    <3>2. PICK q \in Pid : Child(q) /\ home[q] = i
      BY <3>1 DEF Started
    <3>3. pid[i] = q
      BY <1>1, <3>2, <2>1 DEF Homes, Orphan
    <3> QED BY <1>3, <3>2, <3>3
  <2>6. ~Orphan /\ ~Orphan' /\ pid' = pid /\ age' = age /\ asked' = asked
    BY <1>1, <1>3, <2>1 DEF Orphan, table
  <2>7. Homes'
    <3>1. \A q \in Pid : Child(q)' =>
            home'[q] \in wr' /\ (pid'[home'[q]] = q \/ (mpc' = "record" /\ at' = home'[q]))
      BY <1>3, <2>1, <2>3, <2>6 DEF Homes
    <3>2. \A q \in Pid, i \in Slot : Child(q)' /\ pid'[i] = q => home'[q] = i
      BY <1>3, <2>3, <2>5, <2>6 DEF Homes
    <3>3. \A q, r \in Pid : Child(q)' /\ Child(r)' /\ home'[q] = home'[r] => q = r
      BY <2>3, <2>4, <2>6 DEF Homes
    <3> QED BY <3>1, <3>2, <3>3 DEF Homes
  <2>8. Phases'
    <3>1. \A i \in Slot : Started(i)' <=> Started(i) \/ i = at
      <4>1. \A i \in Slot : Started(i) => Started(i)'
        BY <1>3, <2>3 DEF Started
      <4>2. Started(at)'
        <5>1. Child(p)' /\ home'[p] = at'
          BY <1>3, <2>3
        <5> QED BY <5>1 DEF Started
      <4>3. \A i \in Slot : Started(i)' => Started(i) \/ i = at
        BY <2>3 DEF Started
      <4> QED BY <1>3, <4>1, <4>2, <4>3, <2>1
    <3>2. CASE start = TRUE
      <4>1. wr' \subseteq 1..at
        BY <1>1, <1>3, <2>1, <3>2, Constants DEF Phases
      <4>2. \A i \in Slot : (i <= at => Started(i)') /\ (pid'[i] = None <=> i >= at)
        BY <1>1, <2>1, <2>6, <3>1, <3>2, Constants DEF Phases
      <4> QED BY <1>3, <4>1, <4>2 DEF Phases
    <3>3. CASE start = FALSE
      <4>1. \A i \in Slot : Started(i)' /\ pid'[i] # None
        BY <1>1, <2>1, <2>6, <3>1, <3>3 DEF Phases
      <4> QED BY <1>3, <4>1 DEF Phases
    <3> QED BY <3>2, <3>3
  <2>9. AskedItself'
    BY <1>3, <2>3, <2>6 DEF AskedItself
  <2> QED BY <2>2, <2>7, <2>8, <2>9
<1> QED BY <1>1, <1>2, <1>3 DEF ForkProcess

LEMMA RecordBase ==
  ASSUME Base, Record
  PROVE  Base'
<1> USE DEF Base
<1>1. PICK p \in Pid : Child(p) /\ home[p] = at /\ NewStatus(at, p)
  BY DEF Record
<1>2. /\ mpc = "record" /\ UNCHANGED <<count, wr, clock, asked, signals, workers>>
      /\ at \in Slot /\ at \in Nat /\ Slots \in Nat
      /\ \/ at < Slots /\ pid[at + 1] = None /\ mpc' = "start" /\ at' = at + 1
         \/ ~(at < Slots /\ pid[at + 1] = None) /\ mpc' = "loop" /\ at' = at
  BY Constants DEF Record, Typed, DaemonTyped
<1>3. /\ \A i \in Slot : pid'[i] = IF i = at THEN p ELSE pid[i]
      /\ \A i \in Slot : age'[i] = IF i = at THEN NotSet ELSE age[i]
  BY <1>1, <1>2 DEF NewStatus, Typed, TableTyped
<1>4. \A q \in Pid : (Child(q)' <=> Child(q)) /\ (Alive(q)' <=> Alive(q)) /\ home'[q] = home[q]
  BY <1>2 DEF Child, Alive, workers
<1>5. ~Orphan /\ ~Orphan'
  BY <1>2 DEF Orphan
<1>6. \A q \in Pid : Child(q) => home[q] \in Slot /\ (home[q] = at => q = p)
  BY <1>1, <1>2, <1>5 DEF Homes, Typed, DaemonTyped
<1>7. Typed'
  <2>1. at' \in Slot
    BY <1>2 DEF Slot
  <2>2. Today \in Nat
    BY DEF Today, Typed, DaemonTyped
  <2>3. TableTyped'
    BY <1>1, <1>2, <2>2, Constants DEF NewStatus, Typed, TableTyped
  <2> QED BY <1>2, <2>1, <2>3 DEF Typed, DaemonTyped, WorkersTyped, Commands, workers, signals
<1>8. Homes'
  <2>1. \A q \in Pid : Child(q)' =>
          home'[q] \in wr' /\ (pid'[home'[q]] = q \/ (mpc' = "record" /\ at' = home'[q]))
    <3>1. ASSUME NEW q \in Pid, Child(q) PROVE home[q] \in wr /\ pid'[home[q]] = q
      <4>1. home[q] \in Slot /\ home[q] \in wr /\ (pid[home[q]] = q \/ at = home[q])
        BY <1>5, <1>6, <3>1 DEF Homes
      <4> QED BY <1>3, <1>6, <3>1, <4>1
    <3> QED BY <1>2, <1>4, <3>1
  <2>2. \A q \in Pid, i \in Slot : Child(q)' /\ pid'[i] = q => home'[q] = i
    BY <1>1, <1>3, <1>4, <1>5 DEF Homes
  <2>3. \A q, r \in Pid : Child(q)' /\ Child(r)' /\ home'[q] = home'[r] => q = r
    BY <1>4, <1>5 DEF Homes
  <2> QED BY <2>1, <2>2, <2>3 DEF Homes
<1>9. Phases'
  <2>1. \A i \in Slot : Started(i)' <=> Started(i)
    BY <1>4 DEF Started
  <2>2. p # None /\ term' = term /\ wr' = wr
    BY <1>2, Constants DEF signals
  <2>3. CASE \A i \in Slot : Started(i) /\ pid[i] # None
    <3>1. at < Slots => at + 1 \in Slot
      BY <1>2 DEF Slot
    <3>2. mpc' = "loop" /\ \A i \in Slot : Started(i)' /\ pid'[i] # None
      BY <1>2, <1>3, <2>1, <2>2, <2>3, <3>1
    <3> QED BY <3>2 DEF Phases
  <2>4. CASE /\ wr \subseteq 1..at
             /\ \A i \in Slot : (i <= at => Started(i)) /\ (pid[i] = None <=> i >= at)
    <3>1. CASE at < Slots
      <4>1. at + 1 \in Slot
        BY <1>2, <3>1 DEF Slot
      <4>2. mpc' = "start" /\ at' = at + 1
        BY <1>2, <2>4, <3>1, <4>1
      <4>3. ~Started(at + 1)
        <5>1. \A q \in Pid : Child(q) => home[q] \in wr
          BY <1>5 DEF Homes
        <5>2. at + 1 \notin 1..at
          BY <1>2
        <5> QED BY <2>4, <5>1, <5>2 DEF Started
      <4>4. ~Started(at)'
        BY <4>2, <4>3, <1>4 DEF Started
      <4>5. wr' \subseteq 1..(at' - 1)
        BY <1>2, <2>2, <2>4, <4>2
      <4>6. \A i \in Slot : IF i < at' THEN pid'[i] # None /\ Started(i)' ELSE pid'[i] = None
        BY <1>2, <1>3, <2>1, <2>2, <2>4, <4>2, Constants
      <4> QED BY <4>2, <4>4, <4>5, <4>6 DEF Phases
    <3>2. CASE ~(at < Slots)
      <4>1. mpc' = "loop"
        BY <1>2, <3>2
      <4>2. \A i \in Slot : Started(i)' /\ pid'[i] # None
        BY <1>2, <1>3, <2>1, <2>2, <2>4, <3>2, Constants
      <4> QED BY <4>1, <4>2 DEF Phases
    <3> QED BY <3>1, <3>2
  <2> QED BY <1>2, <2>3, <2>4 DEF Phases
<1>10. AskedItself'
  <2>1. \A q \in Pid : Alive(q) => Child(q)
    BY DEF Alive, Child
  <2> QED BY <1>2, <1>3, <1>4, <1>5, <1>6, <2>1 DEF AskedItself
<1> QED BY <1>7, <1>8, <1>9, <1>10

LEMMA ReapBase ==
  ASSUME Base, NEW p \in Pid, Reap(p)
  PROVE  Base'
<1> USE DEF Base
<1>1. mpc = "loop" /\ pc[p] = "zombie" /\ UNCHANGED <<count, clock, table>>
  BY DEF Reap
<1>2. CASE UNCHANGED <<at, asked>> /\ DaemonEnds
  BY <1>1, <1>2, EndsBase DEF Typed, DaemonTyped
<1>3. ASSUME NEW i \in FindProIndex(p), After(i), wr' = wr \ {i}, pc' = [pc EXCEPT ![p] = "none"],
             home' = [home EXCEPT ![p] = None], asked' = asked \ {p},
             UNCHANGED <<exit, bytes, holds, signals>>
      PROVE  Base'
  <2>1. i \in Slot /\ pid[i] = p
    BY <1>3, Constants DEF FindProIndex, Typed, DaemonTyped, Slot
  <2>2. ~Orphan /\ Child(p)
    BY <1>1 DEF Orphan, Child
  <2>3. home[p] = i
    BY <2>1, <2>2 DEF Homes
  <2>4. \/ term /\ UNCHANGED <<mpc, at>>
        \/ ~term /\ mpc' = "again" /\ at' = i
    BY <1>3 DEF After
  <2>5. ~Orphan' /\ pid' = pid /\ age' = age /\ mpc' # "record" /\ term' = term
    BY <1>1, <1>3, <2>4 DEF Orphan, table, signals
  <2>6. Typed'
    <3>1. DaemonTyped' /\ TableTyped'
      BY <1>1, <1>3, <2>1, <2>4 DEF Typed, DaemonTyped, TableTyped, table, signals
    <3>2. WorkersTyped'
      BY <1>3 DEF Typed, WorkersTyped
    <3>3. Commands'
      BY <1>3 DEF Typed, Commands, signals
    <3> QED BY <3>1, <3>2, <3>3 DEF Typed
  <2>7. /\ \A q \in Pid : Child(q)' <=> Child(q) /\ q # p
        /\ \A q \in Pid : Alive(q)' <=> Alive(q)
        /\ \A q \in Pid : q # p => home'[q] = home[q]
    BY <1>1, <1>3 DEF Typed, WorkersTyped, Child, Alive
  <2>8. \A q \in Pid : Child(q) /\ q # p => home[q] # i
    BY <2>2, <2>3 DEF Homes
  <2>9. Homes'
    <3>1. \A q \in Pid : Child(q)' =>
            home'[q] \in wr' /\ (pid'[home'[q]] = q \/ (mpc' = "record" /\ at' = home'[q]))
      BY <1>1, <1>3, <2>2, <2>5, <2>7, <2>8 DEF Homes
    <3>2. \A q \in Pid, j \in Slot : Child(q)' /\ pid'[j] = q => home'[q] = j
      BY <2>2, <2>5, <2>7 DEF Homes
    <3>3. \A q, r \in Pid : Child(q)' /\ Child(r)' /\ home'[q] = home'[r] => q = r
      BY <2>2, <2>7 DEF Homes
    <3> QED BY <3>1, <3>2, <3>3 DEF Homes
  <2>10. Phases'
    <3>1. \A j \in Slot : j # i /\ Started(j) => Started(j)'
      BY <2>3, <2>7 DEF Started
    <3>2. ~Started(i)'
      BY <2>7, <2>8 DEF Started
    <3>3. CASE term /\ UNCHANGED <<mpc, at>>
      BY <1>1, <2>5, <3>3 DEF Phases
    <3>4. CASE ~term /\ mpc' = "again" /\ at' = i
      <4>1. ~Started(at)'
        BY <3>4, <2>7, <2>8 DEF Started
      <4> QED BY <1>1, <2>5, <3>1, <3>4, <4>1 DEF Phases
    <3> QED BY <2>4, <3>3, <3>4
  <2>11. AskedItself'
    <3>1. ~Alive(p)
      BY <1>1 DEF Alive
    <3> QED BY <1>1, <1>3, <2>2, <2>5, <2>7, <3>1 DEF AskedItself
  <2> QED BY <2>6, <2>9, <2>10, <2>11
<1> QED BY <1>2, <1>3 DEF Reap

LEMMA NextBase == Base /\ [Next]_vars => Base'
<1> SUFFICES ASSUME Base, [Next]_vars PROVE Base'
  OBVIOUS
<1>1. CASE UNCHANGED vars
  <2>1. UNCHANGED <<mpc, at, term, usr1, count, pid, age, day, wr, pc, home, exit, bytes, holds,
                    clock, left, asked>>
    BY <1>1 DEF vars
  <2>2. Typed'
    BY <2>1 DEF Base, Typed, DaemonTyped, TableTyped, WorkersTyped, Commands
  <2>3. \A p \in Pid : (Child(p)' <=> Child(p)) /\ (Alive(p)' <=> Alive(p))
    BY <2>1 DEF Child, Alive
  <2>4. Homes' /\ Phases' /\ AskedItself'
    BY <2>1, <2>3, FrameBase, FrameFlags DEF Base
  <2> QED BY <2>2, <2>4 DEF Base
<1>2. CASE Daemon
  BY <1>2, MainBase, ForkBase, RecordBase, NoChildBase, ReloadLogBase, LookBase DEF Daemon
<1>3. ASSUME NEW p \in Pid, Reap(p) \/ Worker(p) PROVE Base'
  BY <1>3, ReapBase, WorkerBase
<1>4. CASE Sigterm \/ Sigusr1 \/ Later \/ Tick
  BY <1>4, OutsideBase
<1>5. CASE Crash
  BY <1>5, NoChildBase
<1>6. Done => UNCHANGED vars
  BY DEF Done
<1> QED BY <1>1, <1>2, <1>3, <1>4, <1>5, <1>6 DEF Next

(* The daemon's and the workers' state keeps its types.                    *)
THEOREM MonitorTypeCorrect == Spec => []TypeOK
<1>1. Base => TypeOK
  BY TypedTypeOK DEF Base
<1> QED BY <1>1, InitBase, NextBase, PTL DEF Spec

(* Whatever the numbers of slots and processes, and however workers end,    *)
(* are started anew with numbers used before, and are told to reload: a     *)
(* worker that sees a flag in its slot was flagged itself, except for the   *)
(* moment between fork and the daemon's clearing of the slot.              *)
THEOREM FlagsAreMeant == Spec => []AskedItself
<1>1. Base => AskedItself
  BY DEF Base
<1> QED BY <1>1, InitBase, NextBase, PTL DEF Spec

-----------------------------------------------------------------------------
(* With a processCount that stays, every slot is looked at.                *)
LEMMA InitCounted == Init => Counted /\ Private
  BY DEF Init, Counted, Private

LEMMA KeptCounted ==
  ASSUME Counted, Private, count' = count, mpc' = mpc,
         \A q \in Pid : Alive(q)' => Alive(q) /\ holds'[q] = holds[q]
  PROVE  Counted' /\ Private'
  BY DEF Counted, Private

LEMMA EndsCounted ==
  ASSUME Typed, Private, DaemonEnds
  PROVE  Counted' /\ Private'
<1>1. mpc' = "over" /\ holds' = holds /\ \A q \in Pid : Alive(q)' => Alive(q)
  BY DaemonEndsEffect
<1> QED BY <1>1 DEF Counted, Private

LEMMA ForkCounted ==
  ASSUME Base, Counted, Private, Start \/ Restart
  PROVE  Counted' /\ Private'
<1>1. PICK start \in BOOLEAN :
        /\ ForkProcess(at, start) /\ count' = count
        /\ mpc = (IF start THEN "start" ELSE "again")
  BY DEF Start, Restart
<1>2. CASE ForkMayFail /\ at' = at /\ DaemonEnds
  BY <1>2, EndsCounted DEF Base
<1>3. ASSUME NEW p \in Pid, mpc' = "record",
             pc' = [pc EXCEPT ![p] = "boot"], holds' = [holds EXCEPT ![p] = Inherits(at, start)]
      PROVE  Counted' /\ Private'
  <2>1. count = Slots /\ wr \subseteq Slot /\ at \in Nat
    BY <1>1, Constants DEF Counted, Base, Typed, DaemonTyped
  <2>2. Inherits(at, start) = {}
    BY <1>1, <2>1 DEF Inherits, Slot, Base, Phases
  <2>3. \A q \in Pid : Alive(q)' => holds'[q] = {}
    BY <1>3, <2>2 DEF Private, Alive, Base, Typed, WorkersTyped
  <2> QED BY <1>1, <1>3, <2>1, <2>3 DEF Counted, Private
<1> QED BY <1>1, <1>2, <1>3 DEF ForkProcess

LEMMA NextCounted ==
  ASSUME NewCounts \subseteq {Slots}, Base, Counted, Private, [Next]_vars
  PROVE  Counted' /\ Private'
<1>1. CASE UNCHANGED vars \/ Done \/ Sigterm \/ Sigusr1 \/ Later \/ Tick
  <2>1. count' = count /\ mpc' = mpc /\ pc' = pc /\ holds' = holds
    BY <1>1 DEF vars, Done, Sigterm, Sigusr1, Later, Tick, workers
  <2> QED BY <2>1, KeptCounted DEF Alive
<1>2. CASE Main \/ Bind \/ NoChild \/ Crash
  <2>1. CASE DaemonEnds
    BY <2>1, EndsCounted DEF Base
  <2>2. CASE ~DaemonEnds
    <3>1. pc' = pc /\ holds' = holds /\ mpc \in {"main", "bind"}
          /\ (mpc = "main" => count' = Slots) /\ (mpc # "main" => count' = count)
      BY <1>2, <2>2 DEF Main, Bind, NoChild, Crash, LoadConfig, workers
    <3> QED BY <3>1 DEF Counted, Private, Alive
  <2> QED BY <2>1, <2>2
<1>3. CASE Start \/ Restart
  BY <1>3, ForkCounted
<1>4. CASE Record
  <2>1. count' = count /\ pc' = pc /\ holds' = holds /\ mpc = "record"
    BY <1>4 DEF Record, workers
  <2> QED BY <2>1 DEF Counted, Private, Alive
<1>5. CASE ReloadLog
  <2>1. mpc' = mpc /\ pc' = pc /\ holds' = holds /\ (count' = count \/ count' = Slots)
    BY <1>5 DEF ReloadLog, LoadConfig
  <2> QED BY <2>1 DEF Counted, Private, Alive
<1>6. CASE DealSigterm \/ ShowProcStatus
  <2>1. PICK is : Kill(is) /\ count' = count /\ mpc' = mpc
    BY <1>6 DEF DealSigterm, ShowProcStatus
  <2> DEFINE ps == {p \in Pid : Alive(p) /\ \E i \in is : pid[i] = p}
  <2>2. End(ps) /\ ps \in SUBSET Pid /\ \A p \in ps : Alive(p)
    BY <2>1 DEF Kill
  <2> HIDE DEF ps
  <2>3. \A q \in Pid : Alive(q)' => Alive(q) /\ holds'[q] = holds[q]
    BY <2>2, EndEffect DEF Base
  <2> QED BY <2>1, <2>3, KeptCounted
<1>7. ASSUME NEW p \in Pid, Worker(p) PROVE Counted' /\ Private'
  BY <1>7, WorkerEffect, KeptCounted DEF Base
<1>8. ASSUME NEW p \in Pid, Reap(p) PROVE Counted' /\ Private'
  <2>1. CASE DaemonEnds
    BY <2>1, EndsCounted DEF Base
  <2>2. CASE ~DaemonEnds
    <3>1. count' = count /\ mpc = "loop" /\ holds' = holds /\ pc' = [pc EXCEPT ![p] = "none"]
      BY <1>8, <2>2 DEF Reap
    <3>2. \A q \in Pid : Alive(q)' => Alive(q)
      BY <3>1 DEF Alive, Base, Typed, WorkersTyped
    <3> QED BY <3>1, <3>2 DEF Counted, Private
  <2> QED BY <2>1, <2>2
<1> QED BY <1>1, <1>2, <1>3, <1>4, <1>5, <1>6, <1>7, <1>8 DEF Next, Daemon

(* While the daemon waits, FindProIndex finds every worker that may end,    *)
(* each slot has one unless the daemon is to stop, and no worker keeps the  *)
(* write end of another's pipe: for every number of slots, whenever pipes,  *)
(* forks, workers and the daemon fail, as long as no reload changes         *)
(* processCount (with one that does TLC finds it violated).                *)
THEOREM WorkersAccounted ==
  ASSUME NewCounts \subseteq {Slots}
  PROVE  Spec => []Accounted
<1> DEFINE Inv == Base /\ Counted /\ Private
<1>1. Init => Inv
  BY InitBase, InitCounted
<1>2. Inv /\ [Next]_vars => Inv'
  BY NextBase, NextCounted
<1>3. Inv => Accounted
  <2> SUFFICES ASSUME Inv PROVE Accounted
    OBVIOUS
  <2>1. ASSUME mpc = "loop", NEW p \in Pid, Child(p)
        PROVE  home[p] \in 1..count \cap wr /\ pid[home[p]] = p
    BY <2>1 DEF Base, Homes, Orphan, Counted, Typed, DaemonTyped, Slot
  <2>2. ASSUME mpc = "loop", ~term, NEW i \in Slot PROVE Started(i)
    BY <2>2 DEF Base, Phases
  <2> QED BY <2>1, <2>2 DEF Accounted, Started, Private
<1> QED BY <1>1, <1>2, <1>3, PTL DEF Spec
=============================================================================
