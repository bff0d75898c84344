-------------------------------- MODULE Monitor --------------------------------
(***************************************************************************)
(* The daemon and its worker processes (src/src/uhp/monitor.c; worker,     *)
(* InitWorkerEnv and UpdateWorkingStatus in worker.c; CleanEnvironment in  *)
(* env.c; OnProcessPipeEvent in app.c).                                    *)
(*                                                                         *)
(* The daemon forks one worker per slot of a shared status table, starts   *)
(* it anew when it ends, asks it to leave by writing a time into its slot  *)
(* and kills it when it has not left in time.  A pipe per slot carries the *)
(* reload command and tells a worker, by its hang-up, that the daemon is   *)
(* gone.  Time is counted in ticks since a flag was set.                   *)
(***************************************************************************)
EXTENDS Integers, FiniteSets, FiniteSetsExt

CONSTANTS
  Slots,           \* processCount when the daemon starts
  Pid,             \* process numbers workers may get
  MaxExit,         \* maxChildProcessExitTime, in ticks
  NewCounts,       \* processCount a reloaded configuration may have
  Reloads,         \* bound: SIGUSR1s
  Days,            \* bound: days on which restartWhen comes
  ForkMayFail,     \* may pipe or fork fail?
  MayCrash         \* may the daemon be killed?

None == 0          \* the pid of an empty slot

ASSUME MonitorAssumption ==
  /\ Slots \in Nat \ {0} /\ MaxExit \in Nat /\ Reloads \in Nat /\ Days \in Nat
  /\ Pid \subseteq Nat \ {None} /\ Cardinality(Pid) >= Slots
  /\ NewCounts \subseteq 0..Slots
  /\ {ForkMayFail, MayCrash} \subseteq BOOLEAN

VARIABLES
  mpc, at,         \* the daemon's control; the slot it forks a worker for
  term, usr1,      \* g_SIGTERM_flag, g_SIGUSR1_flag
  count,           \* processCount
  pid, age, day,   \* ProcStatus: pid, ticks of effect_exit_time, day of last_restarted_time
  wr,              \* slots whose pipe the daemon can write to
  pc, home,        \* per worker process: control of its main thread, its slot
  exit,            \* its g_exit_flag
  bytes, holds,    \* commands in its pipe; write ends it inherited
  clock, left,     \* the time of day; reloads left
  asked            \* history: workers that were flagged

table   == <<pid, age, day>>
workers == <<pc, home, exit, bytes, holds>>
signals == <<term, usr1, left>>
vars == <<mpc, at, term, usr1, count, pid, age, day, wr, pc, home, exit, bytes, holds,
          clock, left, asked>>

Slot == 1..Slots
NotSet == -1
Killed == MaxExit + 2       \* an hour ahead: no second signal for that long
Late(i) == age[i] = MaxExit + 1

(* A day has a time before, at and after restartWhen.                      *)
Today == clock \div 3
InWindow == clock % 3 = 1

Alive(p) == pc[p] \notin {"none", "zombie"}
Child(p) == pc[p] # "none"
Orphan == mpc = "over"
OfSlot(i) == {p \in Pid : Alive(p) /\ home[p] = i}

-----------------------------------------------------------------------------
(* Processes end.                                                          *)

(* ps end; the daemon, or init in its place, has yet to ask for them.      *)
End(ps) ==
  LET ended(f, v) == [p \in Pid |-> IF p \in ps THEN v ELSE f[p]]
  IN /\ pc' = ended(pc, IF Orphan THEN "none" ELSE "zombie")
     /\ exit' = ended(exit, FALSE)
     /\ bytes' = ended(bytes, 0)
     /\ holds' = ended(holds, {})
     /\ home' = home

(* The daemon ends with its signals; init takes over the workers.          *)
DaemonEnds ==
  /\ usr1' = FALSE /\ left' = 0 /\ term' = term
  /\ mpc' = "over"
  /\ pc' = [p \in Pid |-> IF pc[p] = "zombie" THEN "none" ELSE pc[p]]
  /\ wr' = {}
  /\ UNCHANGED <<home, exit, bytes, holds>>

-----------------------------------------------------------------------------
(* The daemon: starting and forking.                                       *)

(* The file has been read and parsed: n is its processCount.               *)
LoadConfig(n) == count' = n

(* main: without a configuration there is no daemon; with one the process  *)
(* goes into the background.                                               *)
Main ==
  /\ mpc = "main"
  /\ \/ LoadConfig(Slots) /\ mpc' = "bind" /\ UNCHANGED <<wr, workers, signals>>
     \/ UNCHANGED count /\ DaemonEnds
  /\ UNCHANGED <<at, clock, asked, table>>

(* bind_socket: the daemon tries the address and gives it back.            *)
Bind ==
  /\ mpc = "bind"
  /\ \/ mpc' = "start" /\ UNCHANGED <<wr, workers, signals>>
     \/ DaemonEnds
  /\ UNCHANGED <<at, count, clock, asked, table>>

(* defect: the child of a restart closes the pipes of earlier slots only.  *)
InheritsLater(i, start) == {j \in wr : j > i}

(* The child keeps the write ends its CloseInheritAlivePipe does not close. *)
Inherits(i, start) == {j \in wr \cup {i} : j # i /\ ~(j \in 1..(IF start THEN i - 1 ELSE count))}

(* ForkProcess up to fork: the child exists, its slot is not yet written.  *)
ForkProcess(i, start) ==
  \/ \E p \in {q \in Pid : ~Child(q)} :
       /\ mpc' = "record" /\ at' = i
       /\ pc' = [pc EXCEPT ![p] = "boot"]
       /\ home' = [home EXCEPT ![p] = i]
       /\ holds' = [holds EXCEPT ![p] = Inherits(i, start)]
       /\ wr' = wr \cup {i}
       /\ UNCHANGED <<exit, bytes, signals>>
  \/ ForkMayFail /\ at' = i /\ DaemonEnds

(* defect: the slot keeps the flag of the worker that left.                *)
NewStatusKeepsFlag(i, p) ==
  /\ pid' = [pid EXCEPT ![i] = p]
  /\ day' = [day EXCEPT ![i] = Today]
  /\ UNCHANGED age

(* memset, pid and last_restarted_time, by the parent.                     *)
NewStatus(i, p) ==
  /\ pid' = [pid EXCEPT ![i] = p]
  /\ age' = [age EXCEPT ![i] = NotSet]
  /\ day' = [day EXCEPT ![i] = Today]

(* The parent's part of ForkProcess after fork.                            *)
Record ==
  /\ mpc = "record"
  /\ \E p \in Pid : Child(p) /\ home[p] = at /\ NewStatus(at, p)
  /\ IF at < Slots /\ pid[at + 1] = None
     THEN mpc' = "start" /\ at' = at + 1
     ELSE mpc' = "loop" /\ at' = at
  /\ UNCHANGED <<count, wr, clock, asked, signals, workers>>

Start ==
  /\ mpc = "start"
  /\ ForkProcess(at, TRUE)
  /\ UNCHANGED <<count, clock, asked, table>>

Restart ==
  /\ mpc = "again"
  /\ ForkProcess(at, FALSE)
  /\ UNCHANGED <<count, clock, asked, table>>

-----------------------------------------------------------------------------
(* The daemon: its loop.                                                   *)

FindProIndex(p) == {i \in 1..count : pid[i] = p}

(* defect: after SIGTERM too a worker that has ended is started anew.      *)
AfterAnyway(i) == mpc' = "again" /\ at' = i

(* A worker has ended: it is started anew unless the daemon is to stop.    *)
After(i) ==
  IF term THEN UNCHANGED <<mpc, at>> ELSE mpc' = "again" /\ at' = i

(* waitpid returns p.                                                      *)
Reap(p) ==
  /\ mpc = "loop" /\ pc[p] = "zombie"
  /\ IF FindProIndex(p) = {}
     THEN UNCHANGED <<at, asked>> /\ DaemonEnds
     ELSE \E i \in FindProIndex(p) :
            /\ After(i)
            /\ wr' = wr \ {i}
            /\ pc' = [pc EXCEPT ![p] = "none"]
            /\ home' = [home EXCEPT ![p] = None]
            /\ asked' = asked \ {p}
            /\ UNCHANGED <<exit, bytes, holds, signals>>
  /\ UNCHANGED <<count, clock, table>>

(* waitpid fails: there are no children.                                   *)
NoChild ==
  /\ mpc = "loop" /\ \A p \in Pid : ~Child(p)
  /\ DaemonEnds
  /\ UNCHANGED <<at, count, clock, asked, table>>

(* waitpid returned 0: there are children.  One may have ended since.      *)
Idle == mpc = "loop" /\ \E p \in Pid : Child(p)

(* The daemon can write to the pipe of slot i while its reader lives.      *)
Readable(i) == i \in wr /\ OfSlot(i) # {}

(* Load the configuration and pass the command on, slot by slot, up to the *)
(* first pipe that fails.                                                  *)
ReloadLog ==
  /\ Idle /\ usr1
  /\ usr1' = FALSE
  /\ \/ UNCHANGED <<count, bytes>>          \* LoadConfig fails
     \/ \E n \in NewCounts :
          LET told == {i \in 1..n : \A j \in 1..i : Readable(j)}
          IN /\ LoadConfig(n)
             /\ bytes' = [p \in Pid |-> IF Alive(p) /\ home[p] \in told THEN bytes[p] + 1
                                                                       ELSE bytes[p]]
  /\ UNCHANGED <<mpc, at, term, left, wr, pc, home, exit, holds, clock, asked, table>>

(* kill(pid, SIGKILL) for the slots is.                                    *)
Kill(is) == End({p \in Pid : Alive(p) /\ \E i \in is : pid[i] = p})

(* After SIGTERM: flag the slots, kill what has not left in time.          *)
DealSigterm ==
  /\ Idle /\ ~usr1 /\ term
  /\ LET late == {i \in 1..count : Late(i)}
     IN /\ Kill(late)
        /\ age' = [i \in Slot |-> IF i \in late THEN Killed
                                  ELSE IF i <= count /\ age[i] = NotSet THEN 0
                                  ELSE age[i]]
        /\ asked' = asked \cup {pid[i] : i \in {j \in 1..count : age[j] = NotSet}}
  /\ UNCHANGED <<mpc, at, count, pid, day, wr, clock, signals>>

(* The slot's worker was started before today, and it is time.             *)
Due(i) == day[i] < Today /\ InWindow

(* Every showStatusInterval: kill what has not left in time; the first     *)
(* slot that is due is flagged and ends the look.                          *)
ShowProcStatus ==
  /\ Idle /\ ~usr1 /\ ~term
  /\ LET due  == {i \in 1..count : age[i] = NotSet /\ Due(i)}
         seen == {i \in 1..count : \A j \in due : i <= j}
         late == {i \in seen : Late(i)}
     IN /\ Kill(late)
        /\ age' = [i \in Slot |-> IF i \in late THEN Killed
                                  ELSE IF i \in due \cap seen THEN 0
                                  ELSE age[i]]
        /\ asked' = asked \cup {pid[i] : i \in due \cap seen}
  /\ UNCHANGED <<mpc, at, count, pid, day, wr, clock, signals>>

Daemon == Main \/ Bind \/ Start \/ Restart \/ Record \/ NoChild \/ ReloadLog \/ DealSigterm \/ ShowProcStatus

-----------------------------------------------------------------------------
(* A worker process.                                                       *)

Goes(p, l) == pc' = [pc EXCEPT ![p] = l]
KeepDaemon == UNCHANGED <<mpc, at, count, wr, clock, asked, signals, table>>

(* bind_socket: a worker that cannot listen at the address beside the      *)
(* others (SO_REUSEPORT) ends.                                             *)
BindFails(p) == pc[p] = "boot" /\ End({p}) /\ KeepDaemon

(* InitWorkerEnv.  What fails before the threads exist leaves none to wait  *)
(* for; when the accept thread cannot be created the receiving threads run *)
(* on and g_exit_flag is not set.                                          *)
Boot(p) ==
  /\ pc[p] = "boot"
  /\ \/ \E l \in {"run", "recv"} : Goes(p, l) /\ UNCHANGED <<home, exit, bytes, holds>>
     \/ End({p})
  /\ KeepDaemon

(* The main thread sees the flag of its slot, the end of the daemon (it    *)
(* does not set g_exit_flag then), or g_exit_flag.                         *)
Leave(p) ==
  /\ pc[p] = "run"
  /\ exit[p] \/ age[home[p]] # NotSet \/ Orphan
  /\ Goes(p, "recv")
  /\ exit' = [exit EXCEPT ![p] = @ \/ age[home[p]] # NotSet]
  /\ UNCHANGED <<home, bytes, holds>> /\ KeepDaemon

(* Accepting, receiving or sending fails and sets g_exit_flag.             *)
ThreadFails(p) ==
  /\ pc[p] \in {"run", "join"} /\ ~exit[p] /\ ~Orphan
  /\ exit' = [exit EXCEPT ![p] = TRUE]
  /\ UNCHANGED <<pc, home, bytes, holds>> /\ KeepDaemon

(* The pipe hangs up: the pool is stopped under the receiving threads.     *)
HangUp(p) ==
  /\ pc[p] = "run" /\ Orphan
  /\ \A q \in Pid : Alive(q) => home[p] \notin holds[q]
  /\ Goes(p, "hup")
  /\ UNCHANGED <<home, exit, bytes, holds>> /\ KeepDaemon

(* The pool is gone: UpdateWorkingStatus divides -1 by -1, finds every     *)
(* thread out of time and exits.  With tasks left over the pool stays.     *)
HungUp(p) ==
  /\ pc[p] = "hup"
  /\ \/ End({p})
     \/ Goes(p, "recv") /\ exit' = [exit EXCEPT ![p] = TRUE] /\ UNCHANGED <<home, bytes, holds>>
  /\ KeepDaemon

(* OnProcessPipeEvent: the configuration cannot be read, or the pool       *)
(* refuses its limits; or the main thread waits for the receiving thread.  *)
OnProcessPipeEvent(p) ==
  /\ pc[p] = "run" /\ bytes[p] > 0
  /\ bytes' = [bytes EXCEPT ![p] = @ - 1]
  /\ \/ UNCHANGED pc
     \/ Goes(p, "join")
  /\ UNCHANGED <<home, exit, holds>> /\ KeepDaemon

(* A receiving thread that is waited for has ended: on exit when its       *)
(* sessions are gone, which may never be, or at once without a parent.     *)
(* CleanEnvironment goes on to stop the pool.                              *)
Joined(p) ==
  /\ \/ pc[p] = "join" /\ Goes(p, "run")
     \/ pc[p] = "recv" /\ Goes(p, "pool")
  /\ UNCHANGED <<home, exit, bytes, holds>> /\ KeepDaemon
SessionsGone(p) == exit[p] /\ ~Orphan /\ Joined(p)

(* defect: receiving threads look for the daemon only once told to exit.   *)
NoParentOnExit(p) == Orphan /\ exit[p] /\ Joined(p)

NoParent(p) == Orphan /\ Joined(p)

(* The tasks of the pool have ended, which may never be, and with it       *)
(* CleanEnvironment and the process.                                       *)
CleanEnvironment(p) == pc[p] = "pool" /\ End({p}) /\ KeepDaemon

(* The worker falls, or too many tasks are out of time (exit(7)).          *)
Fall(p) == Alive(p) /\ ~Orphan /\ End({p}) /\ KeepDaemon

Worker(p) ==
  \/ BindFails(p) \/ Boot(p) \/ Leave(p) \/ ThreadFails(p) \/ HangUp(p) \/ HungUp(p) \/ OnProcessPipeEvent(p)
  \/ SessionsGone(p) \/ NoParent(p) \/ CleanEnvironment(p) \/ Fall(p)

-----------------------------------------------------------------------------
(* Outside.                                                                *)

(* The handlers are there once the address is bound; before, a signal kills.*)
Handled == mpc \notin {"main", "bind", "over"}
Sigterm == ~term /\ Handled /\ term' = TRUE
           /\ UNCHANGED <<mpc, at, usr1, left, count, wr, clock, asked, workers, table>>
Sigusr1 == left > 0 /\ Handled /\ usr1' = TRUE /\ left' = left - 1
           /\ UNCHANGED <<mpc, at, term, count, wr, clock, asked, workers, table>>
Crash   == MayCrash /\ ~Orphan /\ DaemonEnds
           /\ UNCHANGED <<at, count, clock, asked, table>>
Later   == clock < 3 * Days + 1 /\ ~Orphan /\ clock' = clock + 1
           /\ UNCHANGED <<mpc, at, count, wr, asked, signals, workers, table>>

(* A second passes for the flags that are set.                             *)
Tick ==
  /\ ~Orphan
  /\ age' = [i \in Slot |-> IF age[i] \in 0..MaxExit THEN age[i] + 1 ELSE age[i]]
  /\ age' # age
  /\ UNCHANGED <<mpc, at, count, pid, day, wr, clock, asked, signals, workers>>

Done == Orphan /\ UNCHANGED vars   \* nothing else need happen

Init ==
  /\ mpc = "main" /\ at = 1 /\ term = FALSE /\ usr1 = FALSE /\ count = 0
  /\ pid = [i \in Slot |-> None] /\ age = [i \in Slot |-> NotSet] /\ day = [i \in Slot |-> 0]
  /\ wr = {} /\ pc = [p \in Pid |-> "none"] /\ home = [p \in Pid |-> None]
  /\ exit = [p \in Pid |-> FALSE]
  /\ bytes = [p \in Pid |-> 0] /\ holds = [p \in Pid |-> {}]
  /\ clock = 2 /\ left = Reloads /\ asked = {}

Next ==
  \/ Daemon \/ Sigterm \/ Sigusr1 \/ Crash \/ Later \/ Tick \/ Done
  \/ \E p \in Pid : Reap(p) \/ Worker(p)

Spec == Init /\ [][Next]_vars

(* Processes are scheduled, seconds pass, and waitpid, which takes the     *)
(* oldest child first, passes none over for ever.  Sessions and tasks are  *)
(* taken to end only where nothing else would end their worker: when the   *)
(* daemon is gone.                                                         *)
Fairness ==
  /\ WF_vars(Daemon) /\ WF_vars(Tick)
  /\ \A p \in Pid :
       /\ SF_vars(Reap(p))
       /\ WF_vars(Boot(p) \/ Leave(p) \/ HangUp(p))
       /\ WF_vars(NoParent(p) \/ (Orphan /\ (HungUp(p) \/ CleanEnvironment(p))))

FairSpec == Spec /\ Fairness

-----------------------------------------------------------------------------
(* Properties.                                                             *)

(* The state has its types.                                                *)
TypeOK ==
  /\ mpc \in {"main", "bind", "start", "record", "loop", "again", "over"} /\ at \in Slot
  /\ {term, usr1} \subseteq BOOLEAN /\ count \in 0..Slots
  /\ pid \in [Slot -> Pid \cup {None}] /\ age \in [Slot -> NotSet..Killed]
  /\ day \in [Slot -> Nat] /\ wr \subseteq Slot
  /\ pc \in [Pid -> {"none", "boot", "run", "hup", "join", "recv", "pool", "zombie"}]
  /\ home \in [Pid -> Slot \cup {None}]
  /\ exit \in [Pid -> BOOLEAN]
  /\ bytes \in [Pid -> 0..Reloads] /\ holds \in [Pid -> SUBSET Slot]
  /\ clock \in Nat /\ left \in 0..Reloads
  /\ asked \subseteq Pid

(* FindProIndex finds every worker that may end, a slot has one worker,    *)
(* and the daemon alone keeps the write end of its pipe, so that commands  *)
(* reach it and a hang-up means what it is taken for (monitor.c:51, 225).  *)
Accounted ==
  /\ mpc = "loop" => \A p \in Pid : Child(p) =>
       home[p] \in 1..count \cap wr /\ pid[home[p]] = p
  /\ mpc = "loop" /\ ~term => \A i \in Slot : \E p \in Pid : Child(p) /\ home[p] = i
  /\ \A p \in Pid : Alive(p) => holds[p] = {}

(* A worker is asked to leave, and killed for not leaving, on a flag meant *)
(* for itself and not for the worker whose slot it took over.  (Until the  *)
(* daemon has written the slot the old flag is there to be seen.)          *)
AskedItself ==
  ~Orphan => \A p \in Pid : Alive(p) /\ age[home[p]] # NotSet =>
                              p \in asked \/ (mpc = "record" /\ at = home[p])

NoWorkers == \A p \in Pid : ~Child(p)

(* After SIGTERM every worker ends, those that hang too, and the daemon    *)
(* after them.                                                             *)
StopEnds == term ~> Orphan /\ NoWorkers

(* No worker survives a daemon that ended or was killed, reloading or not. *)
OrphansEnd == Orphan ~> NoWorkers
=============================================================================
