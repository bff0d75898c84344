--------------------------------- MODULE Log ---------------------------------
(***************************************************************************)
(* Writing to a log file that several threads and processes share          *)
(* (src/src/util/LOG.c and LOGS.c; InitLogEnv in env.c; SetLogRotate in    *)
(* uhp_util.c).                                                            *)
(*                                                                         *)
(* Every thread has handles of its own.  A line is written by opening the  *)
(* file, appending and closing it (LOG_OPTION_OPEN_AND_CLOSE).  Every few  *)
(* lines the writer looks at the size of the file and renames it when it   *)
(* has become too large, in a region guarded by a lock of the process on a *)
(* file (fcntl) and a mutex of its threads.  All lines have one length.    *)
(***************************************************************************)
EXTENDS Integers, Sequences, FiniteSets

CONSTANTS
  Process, Thread, Owner,  \* Owner[t]: the process of thread t
  RotateSize,              \* log_rotate_size, in lines
  Factor,                  \* pressure_factor (20 in the code)
  FileCount,               \* rotate_file_count (99999999 in the code)
  Lines,                   \* bound: lines written
  Renewals,                \* bound: how often threads make their handles anew
  Failures,                \* bound: how often open or write fails
  None

ASSUME LogAssumption ==
  /\ Owner \in [Thread -> Process] /\ IsFiniteSet(Thread)
  /\ {RotateSize, Factor, FileCount} \subseteq Nat \ {0}
  /\ {Lines, Renewals, Failures} \subseteq Nat /\ FileCount > Lines
  /\ None \notin Process \cup Thread

VARIABLES
  dir,       \* the file of each name: 0 is the log, n the log renamed to ".n"
  size,      \* the files made so far, by the number of their lines
  pc, fd,    \* per thread: control, the file it has open
  skip,      \* skip_count
  no,        \* rotate_file_no
  locked,    \* the process that holds the file lock
  mutex,     \* per process: the thread that holds g_pthread_mutex
  todo, renewals, failures,  \* lines, InitLogEnvs and failures left
  broken     \* history: threads of two processes were in the region at once

files == <<dir, size>>
locks == <<locked, mutex>>
left  == <<todo, renewals, failures>>
vars  == <<dir, size, pc, fd, skip, no, locked, mutex, todo, renewals, failures, broken>>

Name == 0 .. FileCount
NoFile == 0
InRegion(t) == pc[t] \in {"made", "stat", "find", "rename", "unlink", "again", "leave"}

Goes(t, l) == pc' = [pc EXCEPT ![t] = l]
Keep == UNCHANGED <<skip, no, left>>

-----------------------------------------------------------------------------
(* A line.                                                                 *)

(* WriteLogBase gives up: the line is not written, what is open stays.     *)
Drop(t) ==
  /\ failures > 0 /\ failures' = failures - 1
  /\ Goes(t, "idle")
  /\ UNCHANGED <<fd, skip, no, renewals, broken, locks, files>>

(* open with O_CREAT: a name that is not there gets an empty file.         *)
OpenLog_open(t) ==
  /\ pc[t] = "idle" /\ todo > 0
  /\ IF fd[t] # NoFile THEN UNCHANGED <<fd, files>>
     ELSE IF dir[0] # NoFile THEN fd' = [fd EXCEPT ![t] = dir[0]] /\ UNCHANGED files
     ELSE /\ size' = Append(size, 0)
          /\ dir' = [dir EXCEPT ![0] = Len(size) + 1]
          /\ fd' = [fd EXCEPT ![t] = Len(size) + 1]
  /\ todo' = todo - 1
  /\ Goes(t, "write")
  /\ UNCHANGED <<skip, no, renewals, failures, broken, locks>>

OpenFails(t) ==
  /\ pc[t] = "idle" /\ todo > 0 /\ fd[t] = NoFile
  /\ todo' = todo - 1 /\ Drop(t)

(* Append, close, count down to the next look at the size.                 *)
WriteLog_write(t) ==
  /\ pc[t] = "write"
  /\ size' = [size EXCEPT ![fd[t]] = @ + 1]
  /\ fd' = [fd EXCEPT ![t] = NoFile]
  /\ skip' = [skip EXCEPT ![t] = @ - 1]
  /\ Goes(t, IF skip[t] - 1 < 1 THEN "lock" ELSE "idle")
  /\ UNCHANGED <<dir, no, left, broken, locks>>

(* A failed write leaves the file open for the next line.                  *)
WriteFails(t) == pc[t] = "write" /\ Drop(t) /\ UNCHANGED todo

-----------------------------------------------------------------------------
(* The region.                                                             *)

(* A lock of the file belongs to the process, so a second thread of it     *)
(* passes.                                                                 *)
FileLock(t) ==
  /\ pc[t] \in {"lock", "lockNew"}
  /\ locked \in {None, Owner[t]}
  /\ locked' = Owner[t]
  /\ Goes(t, IF pc[t] = "lock" THEN "mutex" ELSE "mutexNew")
  /\ UNCHANGED <<mutex, fd, broken, files>> /\ Keep

(* defect: the mutex is left out, as if the file lock were the thread's.   *)
EnterUnlocked(t) ==
  /\ pc[t] \in {"mutex", "mutexNew"}
  /\ Goes(t, IF pc[t] = "mutex" THEN "stat" ELSE "made")
  /\ broken' = (broken \/ \E u \in Thread : Owner[u] # Owner[t] /\ InRegion(u))
  /\ UNCHANGED <<mutex, locked, fd, files>> /\ Keep

EnterMutexSection(t) ==
  /\ pc[t] \in {"mutex", "mutexNew"} /\ mutex[Owner[t]] = None
  /\ mutex' = [mutex EXCEPT ![Owner[t]] = t]
  /\ Goes(t, IF pc[t] = "mutex" THEN "stat" ELSE "made")
  /\ broken' = (broken \/ \E u \in Thread : Owner[u] # Owner[t] /\ InRegion(u))
  /\ UNCHANGED <<locked, fd, files>> /\ Keep

(* Unlock the mutex, then the file, for all threads of the process.        *)
LeaveMutexSection(t) ==
  /\ pc[t] \in {"leave", "made"}
  /\ mutex' = [mutex EXCEPT ![Owner[t]] = None]
  /\ Goes(t, "unlock")
  /\ UNCHANGED <<locked, fd, broken, files>> /\ Keep

FileUnlock(t) ==
  /\ pc[t] = "unlock"
  /\ locked' = IF locked = Owner[t] THEN None ELSE locked
  /\ Goes(t, "idle")
  /\ UNCHANGED <<mutex, fd, broken, files>> /\ Keep

-----------------------------------------------------------------------------
(* RotateLogFileSize, within the region.                                   *)

(* defect: a writer takes all the room that is left.                       *)
SkipAlone(n) == RotateSize - n + 1

(* Lines until the next look: the room left, shared by Factor writers.     *)
SkipCount(n) == (RotateSize - n) \div Factor + 1

(* The size; without a file there is nothing to rotate.                    *)
Stat(t) ==
  /\ pc[t] = "stat"
  /\ \/ dir[0] = NoFile /\ Goes(t, "leave") /\ UNCHANGED <<skip, no>>
     \/ /\ dir[0] # NoFile /\ size[dir[0]] >= RotateSize
        /\ Goes(t, "find") /\ no' = [no EXCEPT ![t] = 1] /\ UNCHANGED skip
     \/ /\ dir[0] # NoFile /\ size[dir[0]] < RotateSize
        /\ skip' = [skip EXCEPT ![t] = SkipCount(size[dir[0]])]
        /\ Goes(t, "leave") /\ UNCHANGED no
  /\ UNCHANGED <<fd, left, broken, locks, files>>

(* access: the first name that is free, or else the last.                  *)
FindName(t) ==
  /\ pc[t] = "find"
  /\ IF dir[no[t]] # NoFile /\ no[t] < FileCount
     THEN no' = [no EXCEPT ![t] = @ + 1] /\ UNCHANGED pc
     ELSE Goes(t, "rename") /\ UNCHANGED no
  /\ UNCHANGED <<fd, skip, left, broken, locks, files>>

(* rename replaces what has the name.                                      *)
Moved(n) == dir' = [dir EXCEPT ![0] = NoFile, ![n] = dir[0]]

(* The next look is after one line, and searches from 1.                   *)
Rotated(t) == /\ Goes(t, "leave")
              /\ skip' = [skip EXCEPT ![t] = 1] /\ no' = [no EXCEPT ![t] = 1]

(* A failed rename is tried again, with the new name unlinked.             *)
Rename(t) ==
  /\ pc[t] = "rename"
  /\ IF dir[0] # NoFile
     THEN Moved(no[t]) /\ Rotated(t)
     ELSE Goes(t, "unlink") /\ UNCHANGED <<dir, skip, no>>
  /\ UNCHANGED <<size, fd, left, broken, locks>>

Unlink(t) ==
  /\ pc[t] = "unlink"
  /\ dir' = [dir EXCEPT ![no[t]] = NoFile]
  /\ Goes(t, "again")
  /\ UNCHANGED <<size, fd, broken, locks>> /\ Keep

RenameAgain(t) ==
  /\ pc[t] = "again"
  /\ IF dir[0] # NoFile THEN Moved(no[t]) ELSE UNCHANGED dir
  /\ Rotated(t)
  /\ UNCHANGED <<size, fd, left, broken, locks>>

-----------------------------------------------------------------------------
(* A handle is destroyed: closing any descriptor of the lock file gives up  *)
(* the lock of the process.                                                *)
DestroyLogHandle(t) ==
  /\ locked' = IF locked = Owner[t] THEN None ELSE locked
  /\ fd' = [fd EXCEPT ![t] = NoFile]

(* A new one, whose memory is allocated in the region.                     *)
CreateLogHandle(t) ==
  /\ skip' = [skip EXCEPT ![t] = 0]
  /\ no' = [no EXCEPT ![t] = 1]
  /\ Goes(t, "lockNew")

InitLogEnv(t) ==
  /\ DestroyLogHandle(t) /\ CreateLogHandle(t)
  /\ UNCHANGED <<mutex, todo, failures, broken, files>>

(* The reload command reaches a thread between two tasks.                  *)
ThreadRunning(t) ==
  /\ pc[t] = "idle" /\ renewals > 0
  /\ renewals' = renewals - 1
  /\ InitLogEnv(t)

Init ==
  /\ dir = [n \in Name |-> NoFile] /\ size = <<>>
  /\ pc = [t \in Thread |-> "idle"] /\ fd = [t \in Thread |-> NoFile]
  /\ skip = [t \in Thread |-> 0] /\ no = [t \in Thread |-> 1]
  /\ locked = None /\ mutex = [p \in Process |-> None]
  /\ todo = Lines /\ renewals = Renewals /\ failures = Failures
  /\ broken = FALSE

WriteLogBase(t) ==
  \/ OpenLog_open(t) \/ OpenFails(t) \/ WriteLog_write(t) \/ WriteFails(t)
RotateLogFileSize(t) ==
  \/ Stat(t) \/ FindName(t) \/ Rename(t) \/ Unlink(t) \/ RenameAgain(t)
Region(t) ==
  \/ FileLock(t) \/ EnterMutexSection(t) \/ LeaveMutexSection(t) \/ FileUnlock(t)

Done == todo = 0 /\ (\A t \in Thread : pc[t] = "idle") /\ UNCHANGED vars

Next ==
  \/ \E t \in Thread : WriteLogBase(t) \/ Region(t) \/ RotateLogFileSize(t) \/ ThreadRunning(t)
  \/ Done

Spec == Init /\ [][Next]_vars

-----------------------------------------------------------------------------
(* Properties.                                                             *)

(* The state has its types.                                                *)
TypeOK ==
  /\ dir \in [Name -> {NoFile} \cup DOMAIN size]
  /\ fd \in [Thread -> {NoFile} \cup DOMAIN size]
  /\ pc \in [Thread -> {"idle", "write", "lock", "lockNew", "mutex", "mutexNew", "made",
                        "stat", "find", "rename", "unlink", "again", "leave", "unlock"}]
  /\ skip \in [Thread -> Int] /\ no \in [Thread -> Name]
  /\ locked \in Process \cup {None} /\ mutex \in [Process -> Thread \cup {None}]
  /\ todo \in 0..Lines /\ renewals \in 0..Renewals /\ failures \in 0..Failures
  /\ broken \in BOOLEAN

(* Rotation loses no line: what was written is in a file that has a name,  *)
(* whoever renames while others write, as long as the region has kept the  *)
(* processes apart.                                                        *)
Kept ==
  broken \/ \A f \in DOMAIN size : size[f] > 0 => \E n \in Name : dir[n] = f

(* No file grows past RotateSize by more than one stale SkipCount of each  *)
(* writer but one, though nobody looks at the size every time.             *)
Bounded ==
  \A f \in DOMAIN size :
    size[f] <= RotateSize + (Cardinality(Thread) - 1) * (RotateSize \div Factor + 1)
=============================================================================
