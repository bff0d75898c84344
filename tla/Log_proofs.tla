------------------------------ MODULE Log_proofs ------------------------------
(***************************************************************************)
(* Rotation loses no line and bounds the size of the log (Log).            *)
(***************************************************************************)
EXTENDS Log, FiniteSetTheorems, SequenceTheorems, TLAPS

(* Types.                                                                  *)
FilesTyped ==
  /\ size \in Seq(Nat)
  /\ dir \in [Name -> 0 .. Len(size)]
  /\ fd \in [Thread -> 0 .. Len(size)]
ThreadsTyped ==
  /\ pc \in [Thread -> {"idle", "write", "lock", "lockNew", "mutex", "mutexNew", "made",
                        "stat", "find", "rename", "unlink", "again", "leave", "unlock"}]
  /\ skip \in [Thread -> Int] /\ no \in [Thread -> 1 .. FileCount]
LocksTyped ==
  /\ locked \in Process \cup {None} /\ mutex \in [Process -> Thread \cup {None}]
  /\ todo \in 0..Lines /\ renewals \in 0..Renewals /\ failures \in 0..Failures
  /\ broken \in BOOLEAN
Typed == FilesTyped /\ ThreadsTyped /\ LocksTyped

(* Only a thread that is to write has a file open.                         *)
Open == \A t \in Thread : /\ pc[t] = "write" => fd[t] # NoFile
                          /\ fd[t] # NoFile => pc[t] \in {"idle", "write"}

(* A line is taken off todo for every file.                                *)
Made == Len(size) + todo <= Lines

(* The mutex, and who is in the region.                                    *)
Mutex == \A t \in Thread : InRegion(t) <=> mutex[Owner[t]] = t
Alone == \A t, u \in Thread : InRegion(t) /\ InRegion(u) => t = u

(* The names are used in their order, for files in theirs.                 *)
Ordered ==
  /\ \A n \in 1 .. FileCount : dir[n] # NoFile => n <= dir[n] /\ (dir[0] # NoFile => dir[n] < dir[0])
  /\ \A m, n \in 1 .. FileCount :
       m < n /\ dir[n] # NoFile => dir[m] # NoFile /\ dir[m] < dir[n]

(* Whoever is to rename has seen the file, and no name before its number.  *)
Seen ==
  /\ \A t \in Thread : pc[t] \notin {"unlink", "again"}
  /\ \A t \in Thread : pc[t] \in {"find", "rename"} =>
       dir[0] # NoFile /\ \A m \in 1 .. no[t] - 1 : dir[m] # NoFile
  /\ \A t \in Thread : pc[t] = "rename" => dir[no[t]] = NoFile

Named == \A f \in 1 .. Len(size) : \E n \in Name : dir[n] = f

Shape == Typed /\ Open /\ Made /\ Mutex
Rotation == broken \/ (Alone /\ Ordered /\ Seen /\ Named)

-----------------------------------------------------------------------------
(* The lines a thread may write before it looks, as a set of tokens.       *)
Stale == RotateSize \div Factor + 1
Limit == RotateSize + (Cardinality(Thread) - 1) * Stale
Looks == {"lock", "mutex", "stat", "find", "rename", "unlink", "again"}
Room(t) == IF pc[t] \in Looks THEN 0 ELSE IF skip[t] < 1 THEN 1 ELSE skip[t]
Tokens == {x \in Thread \X (1 .. Stale) : x[2] <= Room(x[1])}
Openers(f) == {t \in Thread : fd[t] = f}

Skips == \A t \in Thread : skip[t] <= Stale
Room0 == dir[0] # NoFile => size[dir[0]] + Cardinality(Tokens) <= Limit
Room1 == \A f \in 1 .. Len(size) : f # dir[0] => size[f] + Cardinality(Openers(f)) <= Limit
Filling == Skips /\ Room0 /\ Room1

-----------------------------------------------------------------------------
(* Types, open files and the mutex.                                        *)
LEMMA Constants ==
  /\ IsFiniteSet(Thread) /\ \A t \in Thread : Owner[t] \in Process
  /\ RotateSize \in Nat /\ RotateSize >= 1 /\ Factor \in Nat /\ Factor >= 1
  /\ FileCount \in Nat /\ FileCount >= 1 /\ FileCount > Lines
  /\ Lines \in Nat /\ Renewals \in Nat /\ Failures \in Nat
  /\ None \notin Process /\ None \notin Thread
  /\ Name = 0 .. FileCount /\ 0 \in Name /\ 1 \in 1 .. FileCount /\ 1 .. FileCount \subseteq Name
  /\ NoFile = 0
  BY LogAssumption DEF Name, NoFile

LEMMA TypedTypeOK == Typed => TypeOK
<1> SUFFICES ASSUME Typed PROVE TypeOK
  OBVIOUS
<1>1. DOMAIN size = 1 .. Len(size) /\ Len(size) \in Nat
  BY DEF Typed, FilesTyped
<1>2. {NoFile} \cup DOMAIN size = 0 .. Len(size)
  BY <1>1, Constants
<1> QED BY <1>2, Constants DEF Typed, FilesTyped, ThreadsTyped, LocksTyped, TypeOK

LEMMA InitShape == Init => Shape
<1> SUFFICES ASSUME Init PROVE Shape
  OBVIOUS
<1>1. size \in Seq(Nat) /\ Len(size) = 0
  BY DEF Init
<1>2. FilesTyped
  BY <1>1, Constants DEF Init, FilesTyped
<1>3. ThreadsTyped
  BY Constants DEF Init, ThreadsTyped
<1>5. LocksTyped
  <2>1. Lines \in 0..Lines /\ Renewals \in 0..Renewals /\ Failures \in 0..Failures
    BY Constants
  <2>2. locked \in Process \cup {None} /\ mutex \in [Process -> Thread \cup {None}]
    BY DEF Init
  <2> QED BY <2>1, <2>2 DEF Init, LocksTyped
<1>4. Open /\ Made /\ Mutex
  BY <1>1, Constants DEF Init, Open, Made, Mutex, InRegion
<1> QED BY <1>2, <1>3, <1>4, <1>5 DEF Shape, Typed

(* Steps that leave the files and the names alone.                         *)
LEMMA StillShape ==
  ASSUME Shape, UNCHANGED files, NEW t \in Thread, NEW l, Goes(t, l),
         l \in {"idle", "lock", "lockNew", "mutex", "mutexNew", "made",
                "stat", "find", "rename", "unlink", "again", "leave", "unlock"},
         \A u \in Thread : fd'[u] = fd[u] \/ (u = t /\ fd'[u] = NoFile), fd' \in [Thread -> 0 .. Len(size)],
         l # "idle" => fd'[t] = NoFile, todo' <= todo,
         ThreadsTyped', LocksTyped',
         \/ mutex' = mutex /\ (l \in {"made", "stat", "find", "rename", "unlink", "again", "leave"} <=> InRegion(t))
         \/ mutex' = [mutex EXCEPT ![Owner[t]] = t] /\ mutex[Owner[t]] = None /\ l \in {"stat", "made"}
         \/ mutex' = [mutex EXCEPT ![Owner[t]] = None] /\ mutex[Owner[t]] = t /\ l = "unlock"
  PROVE  Shape'
<1> USE DEF Shape
<1>1. size' = size /\ dir' = dir
  BY DEF files
<1>2. /\ pc'[t] = l
      /\ \A u \in Thread : u # t => pc'[u] = pc[u]
  BY DEF Goes, Typed, ThreadsTyped
<1>3. FilesTyped'
  BY <1>1 DEF Typed, FilesTyped
<1>4. Open'
  <2>1. ASSUME NEW u \in Thread PROVE (pc[u] = "write" => fd[u] # NoFile)'
    <3>1. CASE u = t
      BY <1>2, <3>1
    <3>2. CASE u # t
      BY <1>2, <3>2 DEF Open
    <3> QED BY <3>1, <3>2
  <2>2. ASSUME NEW u \in Thread PROVE (fd[u] # NoFile => pc[u] \in {"idle", "write"})'
    BY <1>2, <2>2 DEF Open
  <2> QED BY <2>1, <2>2 DEF Open
<1>5. Made'
  <2>1. Len(size) \in Nat /\ todo \in Nat /\ todo' \in Nat /\ Lines \in Nat
    BY Constants DEF Typed, FilesTyped, LocksTyped
  <2> QED BY <1>1, <2>1 DEF Made
<1>6. Mutex'
  <2>1. \A u \in Thread : u # t => (InRegion(u)' <=> InRegion(u))
    BY <1>2 DEF InRegion
  <2>2. InRegion(t)' <=> l \in {"made", "stat", "find", "rename", "unlink", "again", "leave"}
    BY <1>2 DEF InRegion
  <2>3. CASE mutex' = mutex /\ (l \in {"made", "stat", "find", "rename", "unlink", "again", "leave"} <=> InRegion(t))
    BY <2>1, <2>2, <2>3 DEF Mutex
  <2>4. CASE mutex' = [mutex EXCEPT ![Owner[t]] = t] /\ mutex[Owner[t]] = None /\ l \in {"stat", "made"}
    <3>1. \A u \in Thread : Owner[u] = Owner[t] => ~InRegion(u)
      BY <2>4, Constants DEF Mutex
    <3>2. /\ mutex'[Owner[t]] = t
          /\ \A u \in Thread : Owner[u] # Owner[t] => mutex'[Owner[u]] = mutex[Owner[u]]
      BY <2>4, Constants DEF Typed, LocksTyped
    <3> QED BY <2>1, <2>2, <2>4, <3>1, <3>2 DEF Mutex
  <2>5. CASE mutex' = [mutex EXCEPT ![Owner[t]] = None] /\ mutex[Owner[t]] = t /\ l = "unlock"
    <3>1. \A u \in Thread : Owner[u] = Owner[t] /\ u # t => ~InRegion(u)
      BY <2>5 DEF Mutex
    <3>2. /\ mutex'[Owner[t]] = None
          /\ \A u \in Thread : Owner[u] # Owner[t] => mutex'[Owner[u]] = mutex[Owner[u]]
      BY <2>5, Constants DEF Typed, LocksTyped
    <3> QED BY <2>1, <2>2, <2>5, <3>1, <3>2, Constants DEF Mutex
  <2> QED BY <2>3, <2>4, <2>5
<1> QED BY <1>3, <1>4, <1>5, <1>6 DEF Typed

LEMMA LineShape ==
  ASSUME Shape, NEW t \in Thread, OpenFails(t) \/ WriteFails(t) \/ ThreadRunning(t)
  PROVE  Shape'
<1> USE DEF Shape
<1>1. CASE OpenFails(t) \/ WriteFails(t)
  <2>1. ThreadsTyped' /\ Goes(t, "idle") /\ fd' = fd /\ UNCHANGED <<files, mutex>> /\ ~InRegion(t)
    BY <1>1 DEF OpenFails, WriteFails, Drop, Goes, Typed, ThreadsTyped, locks, InRegion
  <2>2. LocksTyped' /\ todo' <= todo
    <3>1. /\ UNCHANGED <<locked, mutex, renewals, broken>> /\ failures > 0 /\ failures' = failures - 1
          /\ (todo' = todo \/ (todo > 0 /\ todo' = todo - 1))
      BY <1>1 DEF OpenFails, WriteFails, Drop, locks
    <3> QED BY <3>1, Constants DEF Typed, LocksTyped
  <2> QED BY <2>1, <2>2, StillShape DEF Typed, FilesTyped
<1>2. CASE ThreadRunning(t)
  <2>1. /\ Goes(t, "lockNew") /\ fd' = [fd EXCEPT ![t] = NoFile] /\ UNCHANGED <<files, mutex, todo>>
        /\ ~InRegion(t)
    BY <1>2 DEF ThreadRunning, InitLogEnv, DestroyLogHandle, CreateLogHandle, InRegion
  <2>2. ThreadsTyped'
    BY <1>2, Constants DEF ThreadRunning, InitLogEnv, CreateLogHandle, Goes, Typed, ThreadsTyped
  <2>3. LocksTyped'
    BY <1>2, Constants DEF ThreadRunning, InitLogEnv, DestroyLogHandle, Typed, LocksTyped
  <2>4. /\ \A u \in Thread : fd'[u] = fd[u] \/ (u = t /\ fd'[u] = NoFile)
        /\ fd' \in [Thread -> 0 .. Len(size)] /\ fd'[t] = NoFile
    BY <2>1, Constants DEF Typed, FilesTyped
  <2>5. todo' <= todo
    BY <2>1, Constants DEF Typed, LocksTyped
  <2> QED BY <2>1, <2>2, <2>3, <2>4, <2>5, StillShape
<1> QED BY <1>1, <1>2

LEMMA OpenLog_openShape ==
  ASSUME Shape, NEW t \in Thread, OpenLog_open(t)
  PROVE  Shape'
<1> USE DEF Shape
<1>1. ThreadsTyped' /\ LocksTyped' /\ todo' = todo - 1 /\ todo \in Nat /\ todo > 0
  <2>1. /\ pc' = [pc EXCEPT ![t] = "write"] /\ todo' = todo - 1 /\ todo > 0
        /\ UNCHANGED <<skip, no, renewals, failures, broken, locked, mutex>>
    BY DEF OpenLog_open, Goes, locks
  <2>2. todo \in 0..Lines /\ Lines \in Nat
    BY Constants DEF Typed, LocksTyped
  <2>3. todo' \in 0..Lines /\ todo \in Nat
    BY <2>1, <2>2
  <2>4. ThreadsTyped'
    BY <2>1 DEF Typed, ThreadsTyped
  <2> QED BY <2>1, <2>3, <2>4 DEF Typed, LocksTyped
<1>2. /\ pc[t] = "idle" /\ mutex' = mutex
      /\ \A u \in Thread : pc'[u] = IF u = t THEN "write" ELSE pc[u]
  BY DEF OpenLog_open, Goes, Typed, ThreadsTyped, locks
<1>3. Mutex'
  BY <1>2 DEF Mutex, InRegion
<1>4. FilesTyped' /\ Open' /\ Len(size') <= Len(size) + 1 /\ Len(size') \in Nat
  <2>0. size \in Seq(Nat) /\ Len(size) \in Nat /\ fd \in [Thread -> 0 .. Len(size)]
        /\ dir \in [Name -> 0 .. Len(size)]
    BY DEF Typed, FilesTyped
  <2>1. CASE fd[t] # NoFile /\ UNCHANGED <<fd, files>>
    BY <1>2, <2>0, <2>1 DEF FilesTyped, Open, files
  <2>2. CASE dir[0] # NoFile /\ fd' = [fd EXCEPT ![t] = dir[0]] /\ UNCHANGED files
    <3>1. FilesTyped'
      BY <2>0, <2>2, Constants DEF FilesTyped, files
    <3>2. \A u \in Thread : fd'[u] = IF u = t THEN dir[0] ELSE fd[u]
      BY <2>0, <2>2
    <3> QED BY <1>2, <2>0, <2>2, <3>1, <3>2 DEF Open, files
  <2>3. CASE /\ size' = Append(size, 0)
             /\ dir' = [dir EXCEPT ![0] = Len(size) + 1]
             /\ fd' = [fd EXCEPT ![t] = Len(size) + 1]
    <3>1. size' \in Seq(Nat) /\ Len(size') = Len(size) + 1
      BY <2>0, <2>3, AppendProperties
    <3>2. FilesTyped'
      <4>1. Len(size') = Len(size) + 1 /\ 0 .. Len(size) \subseteq 0 .. Len(size')
            /\ Len(size) + 1 \in 0 .. Len(size')
        BY <2>0, <3>1
      <4>2. fd' \in [Thread -> 0 .. Len(size')]
        BY <2>0, <2>3, <4>1
      <4>3. dir' \in [Name -> 0 .. Len(size')]
        BY <2>0, <2>3, <4>1, Constants
      <4> QED BY <3>1, <4>2, <4>3 DEF FilesTyped
    <3>3. \A u \in Thread : fd'[u] = IF u = t THEN Len(size) + 1 ELSE fd[u]
      BY <2>0, <2>3
    <3>4. Len(size) + 1 # NoFile
      BY <2>0, Constants
    <3>5. Open'
      BY <1>2, <3>3, <3>4 DEF Open
    <3> QED BY <2>0, <3>1, <3>2, <3>5
  <2> QED BY <2>1, <2>2, <2>3 DEF OpenLog_open
<1>5. Made'
  BY <1>1, <1>4, Constants DEF Made, Typed, FilesTyped
<1> QED BY <1>1, <1>3, <1>4, <1>5 DEF Typed

LEMMA WriteLog_writeShape ==
  ASSUME Shape, NEW t \in Thread, WriteLog_write(t)
  PROVE  Shape'
<1> USE DEF Shape
<1>1. /\ pc[t] = "write" /\ UNCHANGED <<dir, no, todo, renewals, failures, broken, locked, mutex>>
      /\ size' = [size EXCEPT ![fd[t]] = @ + 1] /\ fd' = [fd EXCEPT ![t] = NoFile]
      /\ skip' = [skip EXCEPT ![t] = @ - 1]
      /\ \E l \in {"lock", "idle"} : pc' = [pc EXCEPT ![t] = l]
  BY DEF WriteLog_write, left, locks, Goes
<1>2. size \in Seq(Nat) /\ fd[t] \in 1 .. Len(size) /\ size[fd[t]] + 1 \in Nat
  BY <1>1, Constants DEF Open, Typed, FilesTyped
<1>3. size' \in Seq(Nat) /\ Len(size') = Len(size)
  BY <1>1, <1>2
<1>4. FilesTyped'
  BY <1>1, <1>3, Constants DEF FilesTyped, Typed
<1>5. ThreadsTyped'
  BY <1>1 DEF ThreadsTyped, Typed
<1>6. Open'
  BY <1>1 DEF Open, Typed, FilesTyped, ThreadsTyped
<1>7. Mutex'
  BY <1>1 DEF Mutex, InRegion, Typed, ThreadsTyped
<1> QED BY <1>1, <1>3, <1>4, <1>5, <1>6, <1>7 DEF Typed, LocksTyped, Made

LEMMA RegionShape ==
  ASSUME Shape, NEW t \in Thread, Region(t)
  PROVE  Shape'
<1> USE DEF Shape
<1>1. UNCHANGED <<fd, files, skip, no, todo, renewals, failures>> /\ fd[t] = NoFile
      /\ fd \in [Thread -> 0 .. Len(size)] /\ todo' <= todo
  <2>1. UNCHANGED <<fd, files, skip, no, todo, renewals, failures>>
    BY DEF Region, FileLock, EnterMutexSection, LeaveMutexSection, FileUnlock, Keep, left
  <2>2. pc[t] \notin {"idle", "write"}
    BY DEF Region, FileLock, EnterMutexSection, LeaveMutexSection, FileUnlock
  <2>3. fd[t] = NoFile
    BY <2>2 DEF Open
  <2>4. fd \in [Thread -> 0 .. Len(size)]
    BY DEF Typed, FilesTyped
  <2>5. todo \in Nat
    BY Constants DEF Typed, LocksTyped
  <2> QED BY <2>1, <2>3, <2>4, <2>5
<1>2. CASE FileLock(t)
  <2>1. PICK l \in {"mutex", "mutexNew"} : Goes(t, l)
    BY <1>2 DEF FileLock
  <2>2. mutex' = mutex /\ ~InRegion(t) /\ ThreadsTyped'
    BY <1>1, <1>2, <2>1 DEF FileLock, InRegion, Goes, Typed, ThreadsTyped
  <2>3. LocksTyped'
    BY <1>1, <1>2, Constants DEF FileLock, Typed, LocksTyped
  <2> QED BY <1>1, <2>1, <2>2, <2>3, StillShape
<1>3. CASE EnterMutexSection(t)
  <2>1. PICK l \in {"stat", "made"} : Goes(t, l)
    BY <1>3 DEF EnterMutexSection
  <2>2. mutex' = [mutex EXCEPT ![Owner[t]] = t] /\ mutex[Owner[t]] = None /\ ThreadsTyped'
    BY <1>1, <1>3, <2>1 DEF EnterMutexSection, Goes, Typed, ThreadsTyped
  <2>3. LocksTyped'
    <3>1. broken' \in BOOLEAN
      BY <1>3 DEF EnterMutexSection
    <3>2. mutex' \in [Process -> Thread \cup {None}]
      BY <2>2 DEF Typed, LocksTyped
    <3> QED BY <1>1, <1>3, <3>1, <3>2 DEF EnterMutexSection, Typed, LocksTyped
  <2> QED BY <1>1, <2>1, <2>2, <2>3, StillShape
<1>4. CASE LeaveMutexSection(t)
  <2>1. Goes(t, "unlock") /\ mutex' = [mutex EXCEPT ![Owner[t]] = None] /\ ThreadsTyped'
    BY <1>1, <1>4 DEF LeaveMutexSection, Goes, Typed, ThreadsTyped
  <2>2. mutex[Owner[t]] = t
    BY <1>4 DEF LeaveMutexSection, Mutex, InRegion
  <2>3. LocksTyped'
    BY <1>1, <1>4, <2>1 DEF LeaveMutexSection, Typed, LocksTyped
  <2> QED BY <1>1, <2>1, <2>2, <2>3, StillShape
<1>5. CASE FileUnlock(t)
  <2>1. Goes(t, "idle") /\ mutex' = mutex /\ ~InRegion(t) /\ ThreadsTyped'
    BY <1>1, <1>5 DEF FileUnlock, Goes, InRegion, Typed, ThreadsTyped
  <2>2. LocksTyped'
    BY <1>1, <1>5 DEF FileUnlock, Typed, LocksTyped
  <2> QED BY <1>1, <2>1, <2>2, StillShape
<1> QED BY <1>2, <1>3, <1>4, <1>5 DEF Region

(* Within the region.                                                      *)
LEMMA RotateShape ==
  ASSUME Shape, NEW t \in Thread, RotateLogFileSize(t)
  PROVE  Shape'
<1> USE DEF Shape
<1>1. /\ UNCHANGED <<fd, size, todo, renewals, failures, broken, locked, mutex>>
      /\ pc[t] \in {"stat", "find", "rename", "unlink", "again"}
  BY DEF RotateLogFileSize, Stat, FindName, Rename, Unlink, RenameAgain, left, locks, files, Keep
<1>2. \E l \in {"stat", "find", "rename", "unlink", "again", "leave"} : pc' = [pc EXCEPT ![t] = l]
  <2>1. pc = [pc EXCEPT ![t] = pc[t]]
    BY DEF Typed, ThreadsTyped
  <2> QED BY <1>1, <2>1 DEF RotateLogFileSize, Stat, FindName, Rename, Unlink, RenameAgain, Rotated, Goes
<1>3. skip' \in [Thread -> Int] /\ no' \in [Thread -> 1 .. FileCount]
  <2>1. CASE Stat(t)
    <3>1. \A n \in Nat : SkipCount(n) \in Int
      BY Constants DEF SkipCount
    <3>2. dir[0] # NoFile => size[dir[0]] \in Nat
      BY Constants DEF Typed, FilesTyped
    <3>3. skip \in [Thread -> Int] /\ no \in [Thread -> 1 .. FileCount]
      BY DEF Typed, ThreadsTyped
    <3>4. CASE UNCHANGED skip
      BY <2>1, <3>3, <3>4, Constants DEF Stat
    <3>5. CASE dir[0] # NoFile /\ skip' = [skip EXCEPT ![t] = SkipCount(size[dir[0]])] /\ UNCHANGED no
      BY <3>1, <3>2, <3>3, <3>5
    <3> QED BY <2>1, <3>4, <3>5 DEF Stat
  <2>2. CASE FindName(t)
    BY <2>2, Constants DEF FindName, Typed, ThreadsTyped
  <2>3. CASE Rename(t) \/ Unlink(t) \/ RenameAgain(t)
    BY <2>3, Constants DEF Rename, Unlink, RenameAgain, Rotated, Keep, Typed, ThreadsTyped
  <2> QED BY <2>1, <2>2, <2>3 DEF RotateLogFileSize
<1>4. dir' \in [Name -> 0 .. Len(size)]
  <2>1. no[t] \in Name /\ 0 \in 0 .. Len(size) /\ dir \in [Name -> 0 .. Len(size)]
    BY Constants DEF Typed, ThreadsTyped, FilesTyped
  <2>2. dir' = dir \/ Moved(no[t]) \/ dir' = [dir EXCEPT ![no[t]] = NoFile]
    BY DEF RotateLogFileSize, Stat, FindName, Rename, Unlink, RenameAgain, files
  <2> QED BY <2>1, <2>2, Constants DEF Moved
<1>5. Typed'
  BY <1>1, <1>2, <1>3, <1>4 DEF Typed, FilesTyped, ThreadsTyped, LocksTyped
<1>6. Open' /\ Made'
  BY <1>1, <1>2, Constants DEF Open, Made, Typed, ThreadsTyped
<1>7. Mutex'
  BY <1>1, <1>2 DEF Mutex, InRegion, Typed, ThreadsTyped
<1> QED BY <1>5, <1>6, <1>7

LEMMA NextShape == Shape /\ [Next]_vars => Shape'
<1> SUFFICES ASSUME Shape, [Next]_vars PROVE Shape'
  OBVIOUS
<1>1. CASE UNCHANGED vars
  BY <1>1 DEF vars, Shape, Typed, FilesTyped, ThreadsTyped, LocksTyped, Open, Made, Mutex, InRegion
<1>2. ASSUME NEW t \in Thread, WriteLogBase(t) \/ Region(t) \/ RotateLogFileSize(t) \/ ThreadRunning(t)
      PROVE  Shape'
  BY <1>2, OpenLog_openShape, WriteLog_writeShape, LineShape, RegionShape, RotateShape DEF WriteLogBase
<1>3. Done => UNCHANGED vars
  BY DEF Done
<1> QED BY <1>1, <1>2, <1>3 DEF Next

(* The log's variables keep their types.                                   *)
THEOREM LogTypeCorrect == Spec => []TypeOK
<1>1. Shape => TypeOK
  BY TypedTypeOK DEF Shape
<1> QED BY <1>1, InitShape, NextShape, PTL DEF Spec
-----------------------------------------------------------------------------
(* Rotation, as long as the region keeps the processes apart.              *)
Apart == Alone /\ Ordered /\ Seen /\ Named

LEMMA Numbers ==
  ASSUME Shape
  PROVE  /\ size \in Seq(Nat) /\ Len(size) \in Nat /\ Len(size) < FileCount
         /\ dir \in [Name -> 0 .. Len(size)] /\ no \in [Thread -> 1 .. FileCount]
         /\ \A t \in Thread : no[t] \in Name /\ no[t] \in Nat
<1>1. size \in Seq(Nat) /\ Len(size) \in Nat /\ todo \in Nat /\ dir \in [Name -> 0 .. Len(size)]
      /\ no \in [Thread -> 1 .. FileCount]
  BY Constants DEF Shape, Typed, FilesTyped, ThreadsTyped, LocksTyped
<1>2. Len(size) < FileCount
  BY <1>1, Constants DEF Shape, Made
<1> QED BY <1>1, <1>2, Constants

(* Steps that change no name and neither begin a search nor continue it.   *)
LEMMA StillApart ==
  ASSUME Shape, Apart, dir' = dir, Len(size') = Len(size), NEW t \in Thread, NEW l, Goes(t, l),
         l \notin {"find", "rename", "unlink", "again"}, \A u \in Thread : u # t => no'[u] = no[u],
         l \in {"made", "stat", "leave"} =>
           InRegion(t) \/ \A u \in Thread : ~InRegion(u)
  PROVE  Apart'
<1>1. /\ pc'[t] = l
      /\ \A u \in Thread : u # t => pc'[u] = pc[u]
  BY DEF Goes, Shape, Typed, ThreadsTyped
<1>2. \A u \in Thread : u # t => (InRegion(u)' <=> InRegion(u))
  BY <1>1 DEF InRegion
<1>3. InRegion(t)' => InRegion(t) \/ \A u \in Thread : ~InRegion(u)
  BY <1>1 DEF InRegion
<1>4. Alone'
  BY <1>2, <1>3 DEF Apart, Alone
<1>5. Ordered' /\ Named'
  BY DEF Apart, Ordered, Named
<1>6. Seen'
  <2>1. \A u \in Thread : (pc[u] \notin {"unlink", "again"})'
    BY <1>1 DEF Apart, Seen
  <2>2. ASSUME NEW u \in Thread, pc'[u] \in {"find", "rename"}
        PROVE  /\ u # t /\ pc[u] = pc'[u] /\ no'[u] = no[u]
               /\ dir[0] # NoFile /\ \A m \in 1 .. no[u] - 1 : dir[m] # NoFile
               /\ pc[u] = "rename" => dir[no[u]] = NoFile
    <3>1. u # t /\ pc[u] = pc'[u] /\ no'[u] = no[u]
      BY <1>1, <2>2
    <3> QED BY <2>2, <3>1 DEF Apart, Seen
  <2>3. ASSUME NEW u \in Thread, pc'[u] \in {"find", "rename"}
        PROVE  /\ dir'[0] # NoFile /\ \A m \in 1 .. no'[u] - 1 : dir'[m] # NoFile
               /\ pc'[u] = "rename" => dir'[no'[u]] = NoFile
    BY <2>2, <2>3
  <2> QED BY <2>1, <2>3 DEF Seen
<1> QED BY <1>4, <1>5, <1>6 DEF Apart

LEMMA LineApart ==
  ASSUME Shape, Apart, NEW t \in Thread,
         WriteLogBase(t) \/ ThreadRunning(t)
  PROVE  Apart'
<1>1. CASE OpenFails(t) \/ WriteFails(t)
  BY <1>1, StillApart DEF OpenFails, WriteFails, Drop, files
<1>2. CASE ThreadRunning(t)
  <2>1. Goes(t, "lockNew") /\ dir' = dir /\ size' = size /\ no' = [no EXCEPT ![t] = 1]
    BY <1>2 DEF ThreadRunning, InitLogEnv, CreateLogHandle, files
  <2> QED BY <2>1, StillApart, Numbers
<1>3. CASE WriteLog_write(t)
  <2>1. PICK l \in {"lock", "idle"} : Goes(t, l)
    BY <1>3 DEF WriteLog_write
  <2>2. dir' = dir /\ Len(size') = Len(size) /\ no' = no
    BY <1>3, Numbers DEF WriteLog_write
  <2> QED BY <2>1, <2>2, StillApart
<1>4. CASE OpenLog_open(t)
  <2>1. Goes(t, "write") /\ no' = no
    BY <1>4 DEF OpenLog_open
  <2>2. CASE UNCHANGED files
    BY <2>1, <2>2, StillApart DEF files
  <2>3. CASE dir[0] = NoFile /\ size' = Append(size, 0) /\ dir' = [dir EXCEPT ![0] = Len(size) + 1]
    <3>1. Len(size') = Len(size) + 1 /\ Len(size) \in Nat
      BY <2>3, Numbers, AppendProperties
    <3>2. dir'[0] = Len(size) + 1 /\ \A n \in Name : n # 0 => dir'[n] = dir[n]
      BY <2>3, Numbers, Constants
    <3>3. \A u \in Thread : pc[u] \notin {"find", "rename", "unlink", "again"}
      BY <2>3 DEF Apart, Seen
    <3>4. pc'[t] = "write" /\ \A u \in Thread : u # t => pc'[u] = pc[u]
      BY <2>1 DEF Goes, Shape, Typed, ThreadsTyped
    <3>5. Seen'
      BY <3>3, <3>4 DEF Seen
    <3>6. Alone'
      BY <3>4 DEF Apart, Alone, InRegion
    <3>7. Ordered'
      <4>1. \A n \in 1 .. FileCount : dir'[n] = dir[n] /\ dir[n] \in 0 .. Len(size)
        BY <3>2, Numbers, Constants
      <4> QED BY <3>1, <3>2, <4>1 DEF Apart, Ordered
    <3>8. Named'
      <4>1. ASSUME NEW f \in 1 .. Len(size) PROVE \E n \in Name : dir'[n] = f
        <5>1. PICK n \in Name : dir[n] = f
          BY DEF Apart, Named
        <5>2. n # 0
          BY <2>3, <3>1, <5>1, Constants
        <5> QED BY <3>2, <5>1, <5>2
      <4>2. \A f \in 1 .. Len(size') : f \in 1 .. Len(size) \/ f = Len(size) + 1
        BY <3>1
      <4> QED BY <3>2, <4>1, <4>2, Constants DEF Named
    <3> QED BY <3>5, <3>6, <3>7, <3>8 DEF Apart
  <2> QED BY <1>4, <2>2, <2>3 DEF OpenLog_open
<1> QED BY <1>1, <1>2, <1>3, <1>4 DEF WriteLogBase

LEMMA RegionApart ==
  ASSUME Shape, Apart, NEW t \in Thread, Region(t), ~broken'
  PROVE  Apart'
<1>1. dir' = dir /\ size' = size /\ no' = no
  BY DEF Region, FileLock, EnterMutexSection, LeaveMutexSection, FileUnlock, Keep, files
<1>2. CASE FileLock(t) \/ LeaveMutexSection(t) \/ FileUnlock(t)
  <2>1. PICK l \in {"mutex", "mutexNew", "unlock", "idle"} : Goes(t, l)
    BY <1>2 DEF FileLock, LeaveMutexSection, FileUnlock
  <2> QED BY <1>1, <2>1, StillApart
<1>3. CASE EnterMutexSection(t)
  <2>1. PICK l \in {"stat", "made"} : Goes(t, l)
    BY <1>3 DEF EnterMutexSection
  <2>2. \A u \in Thread : Owner[u] # Owner[t] => ~InRegion(u)
    BY <1>3 DEF EnterMutexSection
  <2>3. \A u \in Thread : Owner[u] = Owner[t] => ~InRegion(u)
    BY <1>3, Constants DEF EnterMutexSection, Shape, Mutex
  <2> QED BY <1>1, <2>1, <2>2, <2>3, StillApart
<1> QED BY <1>2, <1>3 DEF Region

LEMMA FindNameApart ==
  ASSUME Shape, Apart, NEW t \in Thread, FindName(t)
  PROVE  Apart'
<1>1. pc[t] = "find" /\ dir' = dir /\ size' = size /\ InRegion(t)
  BY DEF FindName, files, InRegion
<1>2. dir[0] # NoFile /\ \A m \in 1 .. no[t] - 1 : dir[m] # NoFile
  BY <1>1 DEF Apart, Seen
<1>3. pc'[t] \in {"find", "rename"} /\ \A u \in Thread : u # t => pc'[u] = pc[u] /\ no'[u] = no[u]
  BY <1>1, Numbers DEF FindName, Goes, Shape, Typed, ThreadsTyped
<1>4. \A u \in Thread : u # t => pc'[u] \notin {"find", "rename", "unlink", "again"}
  BY <1>1, <1>3 DEF Apart, Alone, InRegion
<1>5. Alone'
  BY <1>1, <1>3 DEF Apart, Alone, InRegion
<1>6. Ordered' /\ Named'
  BY <1>1 DEF Apart, Ordered, Named
<1>7. no[t] \in 1 .. FileCount /\ no[t] \in Nat /\ FileCount \in Nat
  BY Numbers, Constants
<1>8. CASE dir[no[t]] # NoFile /\ no[t] < FileCount
  <2>1. pc' = pc /\ no'[t] = no[t] + 1
    BY <1>8, Numbers DEF FindName
  <2>2. \A m \in 1 .. no'[t] - 1 : dir[m] # NoFile
    BY <1>2, <1>7, <1>8, <2>1
  <2> QED BY <1>1, <1>2, <1>4, <1>5, <1>6, <2>1, <2>2 DEF Seen, Apart
<1>9. CASE ~(dir[no[t]] # NoFile /\ no[t] < FileCount)
  <2>1. pc'[t] = "rename" /\ no' = no
    BY <1>9 DEF FindName, Goes, Shape, Typed, ThreadsTyped
  <2>2. dir[no[t]] = NoFile
    <3>1. SUFFICES ASSUME dir[no[t]] # NoFile PROVE FALSE
      OBVIOUS
    <3>2. no[t] = FileCount
      BY <1>7, <1>9, <3>1
    <3>3. FileCount <= dir[FileCount]
      BY <1>7, <3>1, <3>2 DEF Apart, Ordered
    <3>4. dir[FileCount] \in 0 .. Len(size) /\ Len(size) \in Nat /\ Len(size) < FileCount
      BY Numbers, Constants
    <3> QED BY <1>7, <3>3, <3>4
  <2> QED BY <1>1, <1>2, <1>3, <1>4, <1>5, <1>6, <2>1, <2>2 DEF Seen, Apart
<1> QED BY <1>8, <1>9

LEMMA RenameApart ==
  ASSUME Shape, Apart, NEW t \in Thread, Rename(t)
  PROVE  Apart'
<1> DEFINE k == no[t]
<1>1. pc[t] = "rename" /\ size' = size /\ InRegion(t)
  BY DEF Rename, InRegion
<1>2. dir[0] # NoFile /\ dir[k] = NoFile /\ \A m \in 1 .. k - 1 : dir[m] # NoFile
  BY <1>1 DEF Apart, Seen
<1>3. Moved(k) /\ Goes(t, "leave") /\ no' = [no EXCEPT ![t] = 1]
  BY <1>2 DEF Rename, Rotated
<1>4. k \in 1 .. FileCount /\ k \in Nat /\ k \in Name /\ FileCount \in Nat
  BY Numbers, Constants
<1>5. /\ dir'[0] = NoFile /\ dir'[k] = dir[0]
      /\ \A n \in Name : n # 0 /\ n # k => dir'[n] = dir[n]
  BY <1>3, <1>4, Numbers, Constants DEF Moved
<1>6. pc'[t] = "leave" /\ \A u \in Thread : u # t => pc'[u] = pc[u] /\ ~InRegion(u)
  BY <1>1, <1>3 DEF Goes, Shape, Typed, ThreadsTyped, Apart, Alone
<1>7. Alone' /\ Seen'
  BY <1>6 DEF Alone, Seen, InRegion
<1>8. \A n \in Name : dir[n] \in 0 .. Len(size) /\ dir[n] \in Nat
  BY Numbers
<1>9. Ordered'
  <2> HIDE DEF k
  <2>1. k <= dir[0]
    <3>1. CASE k = 1
      BY <1>2, <1>8, <3>1, Constants
    <3>2. CASE k # 1
      <4>1. k - 1 \in 1 .. k - 1 /\ k - 1 \in 1 .. FileCount /\ k - 1 \in Name
        BY <1>4, <3>2, Constants
      <4>2. k - 1 <= dir[k - 1] /\ dir[k - 1] < dir[0]
        BY <1>2, <4>1 DEF Apart, Ordered
      <4> QED BY <1>4, <1>8, <4>1, <4>2, Constants
    <3> QED BY <3>1, <3>2
  <2>2. ASSUME NEW n \in 1 .. FileCount, dir'[n] # NoFile PROVE n <= dir'[n]
    BY <1>4, <1>5, <2>1, <2>2, Constants DEF Apart, Ordered
  <2>3. ASSUME NEW m \in 1 .. FileCount, NEW n \in 1 .. FileCount, m < n, dir'[n] # NoFile
        PROVE  dir'[m] # NoFile /\ dir'[m] < dir'[n]
    <3>1. m # 0 /\ n # 0 /\ m \in Name /\ n \in Name /\ m \in Nat /\ n \in Nat
      BY Constants
    <3>2. CASE n = k
      <4>1. m \in 1 .. k - 1 /\ m # k
        BY <1>4, <2>3, <3>1, <3>2
      <4> QED BY <1>2, <1>5, <3>1, <3>2, <4>1 DEF Apart, Ordered
    <3>3. CASE n # k
      <4>1. dir'[n] = dir[n] /\ dir[m] # NoFile /\ dir[m] < dir[n]
        BY <1>5, <2>3, <3>1, <3>3 DEF Apart, Ordered
      <4> QED BY <1>2, <1>5, <3>1, <4>1
    <3> QED BY <3>2, <3>3
  <2> QED BY <1>5, <2>2, <2>3 DEF Ordered
<1>10. Named'
  <2>1. ASSUME NEW f \in 1 .. Len(size) PROVE \E n \in Name : dir'[n] = f
    <3>1. PICK n \in Name : dir[n] = f
      BY DEF Apart, Named
    <3>2. n # k
      BY <1>2, <3>1, Constants
    <3> QED BY <1>4, <1>5, <3>1, <3>2
  <2> QED BY <1>1, <2>1 DEF Named
<1> QED BY <1>7, <1>9, <1>10 DEF Apart

LEMMA RotateApart ==
  ASSUME Shape, Apart, NEW t \in Thread, RotateLogFileSize(t)
  PROVE  Apart'
<1>1. ~Unlink(t) /\ ~RenameAgain(t)
  BY DEF Unlink, RenameAgain, Apart, Seen
<1>2. CASE Stat(t)
  <2>1. pc[t] = "stat" /\ dir' = dir /\ size' = size /\ InRegion(t)
    BY <1>2 DEF Stat, files, InRegion
  <2>2. CASE Goes(t, "leave") /\ no' = no
    BY <2>1, <2>2, StillApart
  <2>3. CASE Goes(t, "find") /\ dir[0] # NoFile /\ no' = [no EXCEPT ![t] = 1]
    <3>1. pc'[t] = "find" /\ no'[t] = 1 /\ \A u \in Thread : u # t => pc'[u] = pc[u] /\ ~InRegion(u)
      BY <2>1, <2>3, Numbers DEF Goes, Shape, Typed, ThreadsTyped, Apart, Alone
    <3>2. \A u \in Thread : u # t => pc'[u] \notin {"find", "rename", "unlink", "again"}
      BY <3>1 DEF InRegion
    <3>3. Seen'
      BY <2>1, <2>3, <3>1, <3>2 DEF Seen
    <3>4. Alone'
      BY <3>1 DEF Alone, InRegion
    <3> QED BY <2>1, <3>3, <3>4 DEF Apart, Ordered, Named
  <2> QED BY <1>2, <2>2, <2>3 DEF Stat
<1> QED BY <1>1, <1>2, FindNameApart, RenameApart DEF RotateLogFileSize

LEMMA InitRotation == Init => Rotation
<1> SUFFICES ASSUME Init PROVE Alone /\ Ordered /\ Seen /\ Named
  BY DEF Rotation
<1>1. Len(size) = 0 /\ \A n \in Name : dir[n] = NoFile
  BY DEF Init
<1>2. \A t \in Thread : pc[t] = "idle"
  BY DEF Init
<1> QED BY <1>1, <1>2, Constants DEF Alone, Ordered, Seen, Named, InRegion

LEMMA NextRotation == Shape /\ Rotation /\ [Next]_vars => Rotation'
<1> SUFFICES ASSUME Shape, Rotation, [Next]_vars, ~broken' PROVE Apart'
  BY DEF Rotation, Apart
<1>1. ~broken
  <2>1. ASSUME NEW t \in Thread, WriteLogBase(t) \/ ThreadRunning(t) PROVE broken' = broken
    BY <2>1 DEF WriteLogBase, OpenLog_open, OpenFails, WriteLog_write, WriteFails, Drop,
                ThreadRunning, InitLogEnv
  <2>2. ASSUME NEW t \in Thread, Region(t) PROVE broken => broken'
    BY <2>2 DEF Region, FileLock, EnterMutexSection, LeaveMutexSection, FileUnlock
  <2>3. ASSUME NEW t \in Thread, RotateLogFileSize(t) PROVE broken' = broken
    BY <2>3 DEF RotateLogFileSize, Stat, FindName, Rename, Unlink, RenameAgain
  <2> QED BY <2>1, <2>2, <2>3 DEF Next, Done, vars
<1>2. Apart
  BY <1>1 DEF Rotation, Apart
<1>3. CASE UNCHANGED vars
  BY <1>2, <1>3 DEF vars, Apart, Alone, Ordered, Seen, Named, InRegion
<1> QED BY <1>2, <1>3, LineApart, RegionApart, RotateApart DEF Next, Done

LEMMA RotationKept == Shape /\ Rotation => Kept
<1> SUFFICES ASSUME Shape, Named PROVE Kept
  BY DEF Rotation, Kept
<1>1. DOMAIN size = 1 .. Len(size)
  BY Numbers
<1> QED BY <1>1 DEF Named, Kept

(* Rotation loses no line: as long as no two processes were in the region  *)
(* at once, what was written is in a file with a name, whatever renames    *)
(* and failures came between.                                              *)
THEOREM NoLineIsLost == Spec => []Kept
<1>1. Init => Shape /\ Rotation
  BY InitShape, InitRotation
<1>2. Shape /\ Rotation /\ [Next]_vars => (Shape /\ Rotation)'
  BY NextShape, NextRotation
<1> QED BY <1>1, <1>2, RotationKept, PTL DEF Spec
-----------------------------------------------------------------------------
(* How full a file gets.  A writer that is not at its look has as many     *)
(* tokens as lines it may still write before it.  Each line of the log     *)
(* takes one, and a look gives back no more than there is room for.        *)
LEMMA Halves ==
  ASSUME Factor >= 2
  PROVE  \A n \in Nat : /\ n \div Factor \in Nat
                        /\ n >= 1 => n \div Factor + 1 <= n
                        /\ \A m \in Nat : m <= n => m \div Factor <= n \div Factor
<1> SUFFICES ASSUME NEW n \in Nat
             PROVE  /\ n \div Factor \in Nat
                    /\ n >= 1 => n \div Factor + 1 <= n
                    /\ \A m \in Nat : m <= n => m \div Factor <= n \div Factor
  OBVIOUS
<1>1. Factor \in Nat
  BY Constants
<1>2. \A m \in Nat : /\ m \div Factor \in Nat
                     /\ Factor * (m \div Factor) <= m /\ m < Factor * (m \div Factor) + Factor
  BY <1>1, SMT
<1>3. ASSUME n >= 1 PROVE n \div Factor + 1 <= n
  <2>1. PICK q \in Nat : q = n \div Factor
    BY <1>2
  <2>2. 2 * q <= Factor * q
    BY <1>1, SMT
  <2>3. Factor * q <= n /\ Factor * q \in Nat
    BY <1>1, <1>2, <2>1
  <2> QED BY <1>3, <2>1, <2>2, <2>3
<1>4. ASSUME NEW m \in Nat, m <= n PROVE m \div Factor <= n \div Factor
  <2>1. PICK q \in Nat : q = n \div Factor
    BY <1>2
  <2>2. PICK r \in Nat : r = m \div Factor
    BY <1>2
  <2>3. Factor * r <= m /\ n < Factor * q + Factor
    BY <1>2, <2>1, <2>2
  <2>4. SUFFICES ASSUME r >= q + 1 PROVE FALSE
    BY <2>1, <2>2
  <2>5. Factor * r >= Factor * (q + 1) /\ Factor * (q + 1) = Factor * q + Factor
    BY <1>1, <2>4, SMT
  <2>6. Factor * r \in Nat /\ Factor * q \in Nat
    BY <1>1, SMT
  <2> QED BY <1>1, <1>4, <2>3, <2>5, <2>6
<1> QED BY <1>2, <1>3, <1>4

LEMMA Limits ==
  ASSUME Factor >= 2
  PROVE  /\ Stale \in Nat /\ Stale >= 1 /\ Stale <= RotateSize /\ Limit \in Int
         /\ \A n \in Nat : n < RotateSize =>
              SkipCount(n) \in Nat /\ n + SkipCount(n) <= RotateSize /\ SkipCount(n) <= Stale
<1>1. Stale \in Nat /\ Stale >= 1 /\ Stale <= RotateSize
  BY Constants, Halves DEF Stale
<1>2. Limit \in Int
  BY <1>1, Constants, FS_CardinalityType DEF Limit
<1>3. ASSUME NEW n \in Nat, n < RotateSize
      PROVE  SkipCount(n) \in Nat /\ n + SkipCount(n) <= RotateSize /\ SkipCount(n) <= Stale
  <2>1. PICK m \in Nat : m = RotateSize - n /\ m >= 1 /\ m <= RotateSize
    BY <1>3, Constants
  <2>2. SkipCount(n) = m \div Factor + 1
    BY <2>1 DEF SkipCount
  <2>3. m \div Factor \in Nat /\ m \div Factor + 1 <= m /\ m \div Factor <= RotateSize \div Factor
        /\ RotateSize \div Factor \in Nat
    BY <2>1, Constants, Halves
  <2> QED BY <2>1, <2>2, <2>3, Constants DEF Stale
<1> QED BY <1>1, <1>2, <1>3

(* A set of tokens that leaves all threads but t their largest share.      *)
Share(t, k) == ({t} \X (1 .. k)) \cup ((Thread \ {t}) \X (1 .. Stale))

LEMMA Shares ==
  ASSUME Factor >= 2, NEW t \in Thread, NEW k \in Nat
  PROVE  /\ IsFiniteSet(Share(t, k))
         /\ Cardinality(Share(t, k)) <= k + (Cardinality(Thread) - 1) * Stale
<1> DEFINE A == {t} \X (1 .. k)
           B == (Thread \ {t}) \X (1 .. Stale)
<1>1. Stale \in Nat /\ IsFiniteSet(Thread) /\ Cardinality(Thread) \in Nat
  BY Constants, Limits, FS_CardinalityType
<1>2. IsFiniteSet(1 .. k) /\ Cardinality(1 .. k) = k
  BY FS_Interval
<1>3. IsFiniteSet(1 .. Stale) /\ Cardinality(1 .. Stale) = Stale
  BY <1>1, FS_Interval
<1>4. IsFiniteSet({t}) /\ Cardinality({t}) = 1
  BY FS_Singleton
<1>5. IsFiniteSet(Thread \ {t}) /\ Cardinality(Thread \ {t}) = Cardinality(Thread) - 1
  BY <1>1, FS_RemoveElement
<1>6. IsFiniteSet(A) /\ Cardinality(A) = 1 * k
  BY <1>2, <1>4, FS_Product
<1>7. IsFiniteSet(B) /\ Cardinality(B) = (Cardinality(Thread) - 1) * Stale
  BY <1>3, <1>5, FS_Product
<1>8. /\ IsFiniteSet(A \cup B)
      /\ Cardinality(A \cup B) = Cardinality(A) + Cardinality(B) - Cardinality(A \cap B)
  BY <1>6, <1>7, FS_Union
<1>9. Cardinality(A \cap B) \in Nat
  BY <1>6, FS_Intersection, FS_CardinalityType
<1>10. Cardinality(A) \in Nat /\ Cardinality(B) \in Nat
  BY <1>6, <1>7, FS_CardinalityType
<1> HIDE DEF A, B
<1>11. Cardinality(A \cup B) <= k + (Cardinality(Thread) - 1) * Stale
  BY <1>6, <1>7, <1>8, <1>9, <1>10
<1> QED BY <1>8, <1>11 DEF A, B, Share

LEMMA Counts ==
  ASSUME Factor >= 2
  PROVE  /\ IsFiniteSet(Thread \X (1 .. Stale))
         /\ IsFiniteSet(Tokens) /\ Cardinality(Tokens) \in Nat
         /\ \A f : IsFiniteSet(Openers(f)) /\ Cardinality(Openers(f)) \in Nat
         /\ \A t \in Thread : Cardinality(Tokens) <= Stale + (Cardinality(Thread) - 1) * Stale
<1>1. IsFiniteSet(Thread \X (1 .. Stale))
  <2>1. IsFiniteSet(1 .. Stale)
    BY Limits, FS_Interval
  <2> QED BY <2>1, Constants, FS_Product
<1>2. Tokens \in SUBSET (Thread \X (1 .. Stale))
  BY DEF Tokens
<1>3. IsFiniteSet(Tokens) /\ Cardinality(Tokens) \in Nat
  BY <1>1, <1>2, FS_Subset, FS_CardinalityType
<1>4. ASSUME NEW f PROVE IsFiniteSet(Openers(f)) /\ Cardinality(Openers(f)) \in Nat
  <2>1. Openers(f) \in SUBSET Thread
    BY DEF Openers
  <2> QED BY <2>1, Constants, FS_Subset, FS_CardinalityType
<1>5. ASSUME NEW t \in Thread
      PROVE  Cardinality(Tokens) <= Stale + (Cardinality(Thread) - 1) * Stale
  <2>1. Tokens \in SUBSET Share(t, Stale)
    BY <1>2 DEF Share
  <2>2. /\ IsFiniteSet(Share(t, Stale)) /\ Cardinality(Share(t, Stale)) \in Nat
        /\ Cardinality(Share(t, Stale)) <= Stale + (Cardinality(Thread) - 1) * Stale
    BY Limits, Shares, FS_CardinalityType
  <2>3. Cardinality(Tokens) <= Cardinality(Share(t, Stale))
    BY <2>1, <2>2, FS_Subset
  <2>4. (Cardinality(Thread) - 1) * Stale \in Int
    BY Limits, Constants, FS_CardinalityType
  <2> QED BY <1>3, <2>2, <2>3, <2>4, Limits
<1> QED BY <1>1, <1>3, <1>4, <1>5

(* Who has a file open has a line to write.                                *)
LEMMA OpenersHaveTokens ==
  ASSUME Factor >= 2, Shape, NEW f \in 1 .. Len(size)
  PROVE  Cardinality(Openers(f)) <= Cardinality(Tokens)
<1> DEFINE g == [u \in Openers(f) |-> <<u, 1>>]
<1>1. \A u \in Openers(f) : <<u, 1>> \in Tokens
  <2>1. SUFFICES ASSUME NEW u \in Thread, fd[u] = f PROVE Room(u) >= 1
    BY Limits DEF Openers, Tokens
  <2>2. f # NoFile
    BY Constants
  <2>3. pc[u] \in {"idle", "write"}
    BY <2>1, <2>2 DEF Shape, Open
  <2>4. skip[u] \in Int
    BY DEF Shape, Typed, ThreadsTyped
  <2> QED BY <2>3, <2>4 DEF Room, Looks
<1>2. g \in Injection(Openers(f), Tokens)
  BY <1>1 DEF Injection, IsInjective
<1> QED BY <1>2, Counts, FS_Injection

(* No thread gets more to write, and the log and the files open stay.      *)
LEMMA StillFilling ==
  ASSUME Factor >= 2, Shape, Shape', Filling, size' = size, dir'[0] = dir[0],
         \A u \in Thread : (Room(u))' <= Room(u),
         \A u \in Thread : fd'[u] \in {fd[u], NoFile, dir[0]},
         \A u \in Thread : skip'[u] = skip[u] \/ skip'[u] <= Stale
  PROVE  Filling'
<1>1. Skips'
  BY DEF Skips, Filling
<1>2. Tokens' \in SUBSET Tokens
  <2>1. \A u \in Thread : Room(u) \in Int /\ (Room(u))' \in Int
    BY DEF Shape, Typed, ThreadsTyped, Room
  <2>2. ASSUME NEW x \in Thread \X (1 .. Stale), x[2] <= (Room(x[1]))' PROVE x[2] <= Room(x[1])
    <3>1. x[1] \in Thread /\ x[2] \in Int
      BY Limits
    <3> HIDE DEF Room
    <3> QED BY <2>1, <2>2, <3>1
  <2>3. \A x \in Tokens' : x \in Thread \X (1 .. Stale) /\ x[2] <= (Room(x[1]))'
    BY DEF Tokens
  <2> QED BY <2>2, <2>3 DEF Tokens
<1>3. Cardinality(Tokens') <= Cardinality(Tokens) /\ Cardinality(Tokens') \in Nat
      /\ Cardinality(Tokens) \in Nat
  BY <1>2, Counts, FS_Subset, FS_CardinalityType
<1>4. Room0'
  <2>1. SUFFICES ASSUME dir[0] # NoFile
                 PROVE  size[dir[0]] + Cardinality(Tokens') <= Limit
    BY DEF Room0
  <2>2. size[dir[0]] \in Nat /\ Limit \in Int
    BY <2>1, Numbers, Constants, Limits
  <2> QED BY <1>3, <2>1, <2>2 DEF Filling, Room0
<1>5. Room1'
  <2>1. SUFFICES ASSUME NEW f \in 1 .. Len(size), f # dir[0]
                 PROVE  size[f] + Cardinality((Openers(f))') <= Limit
    BY DEF Room1
  <2>2. (Openers(f))' \in SUBSET Openers(f)
    BY <2>1, Constants DEF Openers
  <2>3. Cardinality((Openers(f))') <= Cardinality(Openers(f)) /\ Cardinality((Openers(f))') \in Nat
        /\ Cardinality(Openers(f)) \in Nat
    BY <2>2, Counts, FS_Subset, FS_CardinalityType
  <2>4. size[f] \in Nat /\ Limit \in Int
    BY <2>1, Numbers, Limits
  <2>5. size[f] + Cardinality(Openers(f)) <= Limit
    BY <2>1 DEF Filling, Room1
  <2> HIDE DEF Openers
  <2> QED BY <2>3, <2>4, <2>5
<1> QED BY <1>1, <1>4, <1>5 DEF Filling
(* The thread that moves is the only one whose room may change.            *)
LEMMA RoomsStay ==
  ASSUME Shape, NEW t \in Thread, NEW l, Goes(t, l), \A u \in Thread : u # t => skip'[u] = skip[u]
  PROVE  /\ \A u \in Thread : u # t => (Room(u))' = Room(u)
         /\ (Room(t))' = IF l \in Looks THEN 0 ELSE IF skip'[t] < 1 THEN 1 ELSE skip'[t]
BY DEF Goes, Room, Looks, Shape, Typed, ThreadsTyped

LEMMA RegionFilling ==
  ASSUME Factor >= 2, Shape, Shape', Filling, NEW t \in Thread, Region(t)
  PROVE  Filling'
<1>1. dir' = dir /\ size' = size /\ fd' = fd /\ skip' = skip
  BY DEF Region, FileLock, EnterMutexSection, LeaveMutexSection, FileUnlock, Keep, files
<1>2. PICK l : Goes(t, l) /\ (l \in Looks <=> pc[t] \in Looks)
  BY DEF Region, FileLock, EnterMutexSection, LeaveMutexSection, FileUnlock, Looks
<1>3. \A u \in Thread : (Room(u))' = Room(u) /\ Room(u) \in Int
  BY <1>1, <1>2, RoomsStay DEF Room, Shape, Typed, ThreadsTyped
<1>4. \A u \in Thread : (Room(u))' <= Room(u)
  BY <1>3
<1> QED BY <1>1, <1>4, StillFilling

LEMMA LineFilling ==
  ASSUME Factor >= 2, Shape, Shape', Filling, NEW t \in Thread,
         OpenFails(t) \/ WriteFails(t) \/ ThreadRunning(t)
  PROVE  Filling'
<1>1. CASE OpenFails(t) \/ WriteFails(t)
  <2>1. dir' = dir /\ size' = size /\ fd' = fd /\ skip' = skip /\ Goes(t, "idle") /\ pc[t] \notin Looks
    BY <1>1 DEF OpenFails, WriteFails, Drop, files, Looks
  <2>2. \A u \in Thread : (Room(u))' = Room(u) /\ Room(u) \in Int
    BY <2>1, RoomsStay DEF Room, Looks, Shape, Typed, ThreadsTyped
  <2>3. \A u \in Thread : (Room(u))' <= Room(u)
    BY <2>2
  <2> QED BY <2>1, <2>3, StillFilling
<1>2. CASE ThreadRunning(t)
  <2>1. /\ dir' = dir /\ size' = size /\ fd' = [fd EXCEPT ![t] = NoFile]
        /\ skip' = [skip EXCEPT ![t] = 0] /\ Goes(t, "lockNew") /\ pc[t] = "idle"
    BY <1>2 DEF ThreadRunning, InitLogEnv, DestroyLogHandle, CreateLogHandle, files
  <2>2. skip'[t] = 0 /\ \A u \in Thread : u # t => skip'[u] = skip[u]
    BY <2>1 DEF Shape, Typed, ThreadsTyped
  <2>3. \A u \in Thread : (Room(u))' <= Room(u)
    <3>1. (Room(t))' = 1 /\ Room(t) >= 1
      BY <2>1, <2>2, RoomsStay DEF Room, Looks, Shape, Typed, ThreadsTyped
    <3>2. \A u \in Thread : u # t => (Room(u))' = Room(u) /\ Room(u) \in Int
      BY <2>1, <2>2, RoomsStay DEF Room, Shape, Typed, ThreadsTyped
    <3>3. \A u \in Thread : u # t => (Room(u))' <= Room(u)
      BY <3>2
    <3> QED BY <3>1, <3>3
  <2>4. \A u \in Thread : fd'[u] \in {fd[u], NoFile, dir[0]}
    BY <2>1 DEF Shape, Typed, FilesTyped
  <2>5. \A u \in Thread : skip'[u] = skip[u] \/ skip'[u] <= Stale
    BY <2>2, Limits
  <2> QED BY <2>1, <2>3, <2>4, <2>5, StillFilling
<1> QED BY <1>1, <1>2

LEMMA OpenLog_openFilling ==
  ASSUME Factor >= 2, Shape, Shape', Filling, NEW t \in Thread, OpenLog_open(t)
  PROVE  Filling'
<1>1. skip' = skip /\ Goes(t, "write") /\ pc[t] = "idle"
  BY DEF OpenLog_open
<1>2. \A u \in Thread : (Room(u))' = Room(u) /\ Room(u) \in Int
  BY <1>1, RoomsStay DEF Room, Looks, Shape, Typed, ThreadsTyped
<1>3. \A u \in Thread : (Room(u))' <= Room(u)
  BY <1>2
<1>4. CASE dir' = dir /\ size' = size /\ (fd' = fd \/ fd' = [fd EXCEPT ![t] = dir[0]])
  <2>1. \A u \in Thread : fd'[u] \in {fd[u], NoFile, dir[0]}
    BY <1>4 DEF Shape, Typed, FilesTyped
  <2> QED BY <1>1, <1>3, <1>4, <2>1, StillFilling
<1>5. CASE /\ dir[0] = NoFile /\ size' = Append(size, 0) /\ dir' = [dir EXCEPT ![0] = Len(size) + 1]
           /\ fd' = [fd EXCEPT ![t] = Len(size) + 1]
  <2>1. /\ Len(size) \in Nat /\ Len(size') = Len(size) + 1 /\ size'[Len(size) + 1] = 0
        /\ \A f \in 1 .. Len(size) : size'[f] = size[f]
    BY <1>5, Numbers, AppendProperties
  <2>2. dir'[0] = Len(size) + 1
    BY <1>5, Numbers, Constants
  <2>3. Skips'
    BY <1>1 DEF Filling, Skips
  <2>4. Room0'
    <3>1. /\ Cardinality(Tokens') <= Stale + (Cardinality(Thread) - 1) * Stale
          /\ Cardinality(Tokens') \in Nat
      <4>1. Tokens' = Tokens
        <5> HIDE DEF Room
        <5> QED BY <1>2 DEF Tokens
      <4> QED BY <4>1, Counts
    <3>2. (Cardinality(Thread) - 1) * Stale \in Int
      BY Limits, Constants, FS_CardinalityType
    <3>3. 0 + Cardinality(Tokens') <= Limit
      BY <3>1, <3>2, Limits, Constants DEF Limit
    <3> QED BY <2>1, <2>2, <3>3 DEF Room0
  <2>5. Room1'
    <3>1. SUFFICES ASSUME NEW f \in 1 .. Len(size'), f # dir'[0]
                   PROVE  size'[f] + Cardinality((Openers(f))') <= Limit
      BY DEF Room1
    <3>2. f \in 1 .. Len(size) /\ f # dir[0] /\ f # Len(size) + 1
      BY <1>5, <2>1, <2>2, <3>1, Constants
    <3>3. (Openers(f))' \in SUBSET Openers(f)
      BY <1>5, <3>2 DEF Openers, Shape, Typed, FilesTyped
    <3>4. /\ Cardinality((Openers(f))') <= Cardinality(Openers(f)) /\ Cardinality((Openers(f))') \in Nat
          /\ Cardinality(Openers(f)) \in Nat
      BY <3>3, Counts, FS_Subset, FS_CardinalityType
    <3>5. size[f] + Cardinality(Openers(f)) <= Limit /\ size'[f] = size[f]
      BY <2>1, <3>2 DEF Filling, Room1
    <3>6. size[f] \in Nat /\ Limit \in Int
      BY <3>2, Numbers, Limits
    <3> HIDE DEF Openers
    <3> QED BY <3>4, <3>5, <3>6
  <2> QED BY <2>3, <2>4, <2>5 DEF Filling
<1> QED BY <1>4, <1>5 DEF OpenLog_open, files

(* A line of the log takes a token; one of another file, an opener.        *)
LEMMA WriteLog_writeFilling ==
  ASSUME Factor >= 2, Shape, Shape', Filling, NEW t \in Thread, WriteLog_write(t)
  PROVE  Filling'
<1> DEFINE f == fd[t]
<1>1. /\ pc[t] = "write" /\ dir' = dir /\ size' = [size EXCEPT ![f] = @ + 1]
      /\ fd' = [fd EXCEPT ![t] = NoFile] /\ skip' = [skip EXCEPT ![t] = @ - 1]
      /\ Goes(t, IF skip[t] - 1 < 1 THEN "lock" ELSE "idle")
  BY DEF WriteLog_write
<1>2. f \in 1 .. Len(size) /\ size \in Seq(Nat) /\ Len(size) \in Nat /\ size[f] \in Nat
  <2>1. f \in 0 .. Len(size) /\ f # NoFile /\ size \in Seq(Nat) /\ Len(size) \in Nat
    BY <1>1 DEF Shape, Typed, FilesTyped, Open
  <2> QED BY <2>1, Constants
<1>3. /\ Len(size') = Len(size) /\ size'[f] = size[f] + 1
      /\ \A g \in 1 .. Len(size) : g # f => size'[g] = size[g]
  BY <1>1, <1>2
<1>4. fd'[t] = NoFile /\ \A u \in Thread : u # t => fd'[u] = fd[u]
  BY <1>1 DEF Shape, Typed, FilesTyped
<1>5. skip[t] \in Int /\ skip'[t] = skip[t] - 1 /\ \A u \in Thread : u # t => skip'[u] = skip[u]
  BY <1>1 DEF Shape, Typed, ThreadsTyped
<1>6. \A u \in Thread : skip'[u] <= Stale
  BY <1>5, Limits DEF Filling, Skips
<1>7. /\ (Room(t))' = Room(t) - 1 /\ Room(t) \in 1 .. Stale
      /\ \A u \in Thread : u # t => (Room(u))' = Room(u)
  <2>1. pc[t] \notin Looks /\ skip[t] <= Stale
    BY <1>1 DEF Looks, Filling, Skips
  <2>2. Room(t) = IF skip[t] < 1 THEN 1 ELSE skip[t]
    BY <2>1 DEF Room
  <2>3. CASE skip[t] - 1 < 1
    <3>1. (Room(t))' = 0 /\ Room(t) = 1
      BY <1>1, <1>5, <2>2, <2>3, RoomsStay DEF Looks
    <3> QED BY <1>1, <1>5, <3>1, Limits, RoomsStay
  <2>4. CASE ~(skip[t] - 1 < 1)
    <3>1. (Room(t))' = skip[t] - 1 /\ Room(t) = skip[t]
      BY <1>1, <1>5, <2>2, <2>4, RoomsStay DEF Looks
    <3> QED BY <1>1, <1>5, <2>1, <2>4, <3>1, Limits, RoomsStay
  <2> QED BY <2>3, <2>4
<1>8. Tokens' \in SUBSET (Tokens \ {<<t, Room(t)>>}) /\ <<t, Room(t)>> \in Tokens
  <2> HIDE DEF Room
  <2>1. <<t, Room(t)>> \in Tokens
    BY <1>7, Limits DEF Tokens
  <2>2. ASSUME NEW x \in Tokens' PROVE x \in Tokens /\ x # <<t, Room(t)>>
    <3>1. x \in Thread \X (1 .. Stale) /\ x[2] <= (Room(x[1]))' /\ x[1] \in Thread /\ x[2] \in Int
      BY Limits DEF Tokens
    <3>2. CASE x[1] = t
      BY <1>7, <3>1, <3>2, Limits DEF Tokens
    <3>3. CASE x[1] # t
      BY <1>7, <3>1, <3>3 DEF Tokens
    <3> QED BY <3>2, <3>3
  <2> QED BY <2>1, <2>2
<1>9. Cardinality(Tokens') <= Cardinality(Tokens) - 1 /\ Cardinality(Tokens') \in Nat
      /\ Cardinality(Tokens) \in Nat
  <2>1. /\ IsFiniteSet(Tokens \ {<<t, Room(t)>>})
        /\ Cardinality(Tokens \ {<<t, Room(t)>>}) = Cardinality(Tokens) - 1
    BY <1>8, Counts, FS_RemoveElement
  <2> QED BY <1>8, <2>1, Counts, FS_Subset, FS_CardinalityType
<1>10. Room0'
  <2>1. SUFFICES ASSUME dir[0] # NoFile
                 PROVE  size'[dir[0]] + Cardinality(Tokens') <= Limit
    BY <1>1 DEF Room0
  <2>2. dir[0] \in 1 .. Len(size) /\ size[dir[0]] \in Nat /\ Limit \in Int
    <3>1. dir[0] \in 0 .. Len(size) /\ size \in Seq(Nat) /\ Len(size) \in Nat
      BY Numbers, Constants
    <3>2. dir[0] \in 1 .. Len(size)
      BY <2>1, <3>1, Constants
    <3>3. size[dir[0]] \in Nat
      BY <3>1, <3>2, ElementOfSeq
    <3> QED BY <3>2, <3>3, Limits
  <2>3. size'[dir[0]] = size[dir[0]] \/ size'[dir[0]] = size[dir[0]] + 1
    BY <1>3, <2>2
  <2>4. size[dir[0]] + Cardinality(Tokens) <= Limit
    BY <2>1 DEF Filling, Room0
  <2> QED BY <1>9, <2>2, <2>3, <2>4
<1>11. Room1'
  <2>1. SUFFICES ASSUME NEW g \in 1 .. Len(size), g # dir[0]
                 PROVE  size'[g] + Cardinality((Openers(g))') <= Limit
    BY <1>1, <1>3 DEF Room1
  <2>2. (Openers(g))' = Openers(g) \ {t}
    BY <1>4, <2>1, Constants DEF Openers
  <2>3. size[g] + Cardinality(Openers(g)) <= Limit /\ size[g] \in Nat /\ Limit \in Int
    BY <2>1, Numbers, Limits DEF Filling, Room1
  <2>4. Cardinality(Openers(g)) \in Nat /\ IsFiniteSet(Openers(g))
    BY Counts
  <2>5. Cardinality(Openers(g) \ {t}) = IF g = f THEN Cardinality(Openers(g)) - 1
                                                 ELSE Cardinality(Openers(g))
    <3>1. t \in Openers(g) <=> g = f
      BY DEF Openers
    <3> QED BY <2>4, <3>1, FS_RemoveElement
  <2> HIDE DEF f, Openers
  <2> QED BY <1>3, <2>1, <2>2, <2>3, <2>4, <2>5
<1> QED BY <1>6, <1>10, <1>11 DEF Filling, Skips
(* A look at a log with room.                                              *)
LEMMA StatFilling ==
  ASSUME Factor >= 2, Shape, Shape', Filling, NEW t \in Thread, Stat(t)
  PROVE  Filling'
<1>1. dir' = dir /\ size' = size /\ fd' = fd /\ pc[t] = "stat"
  BY DEF Stat, files
<1>2. Room(t) = 0 /\ \A u \in Thread : Room(u) \in Int /\ skip[u] \in Int
  BY <1>1 DEF Room, Looks, Shape, Typed, ThreadsTyped
<1>3. CASE Goes(t, "find") /\ skip' = skip
  <2>1. \A u \in Thread : (Room(u))' <= Room(u)
    <3>1. \A u \in Thread : (Room(u))' = Room(u)
      BY <1>2, <1>3, RoomsStay DEF Looks
    <3> QED BY <1>2, <3>1
  <2> QED BY <1>1, <1>3, <2>1, StillFilling
<1>4. CASE Goes(t, "leave") /\ dir[0] = NoFile /\ skip' = skip
  <2>1. Skips' /\ Room0' /\ Room1'
    BY <1>1, <1>4 DEF Filling, Skips, Room0, Room1, Openers
  <2> QED BY <2>1 DEF Filling
<1>5. CASE /\ Goes(t, "leave") /\ dir[0] # NoFile /\ size[dir[0]] < RotateSize
           /\ skip' = [skip EXCEPT ![t] = SkipCount(size[dir[0]])]
  <2> DEFINE n == size[dir[0]]
             k == SkipCount(n)
  <2>1. n \in Nat /\ k \in Nat /\ n + k <= RotateSize /\ k <= Stale /\ Limit \in Int
    BY <1>5, Numbers, Constants, Limits
  <2>2. skip'[t] = k /\ \A u \in Thread : u # t => skip'[u] = skip[u]
    BY <1>5 DEF Shape, Typed, ThreadsTyped
  <2>3. k >= 1
    <3>1. RotateSize - n \in Nat
      BY <1>5, <2>1, Constants
    <3>2. (RotateSize - n) \div Factor \in Nat
      BY <3>1, Halves
    <3> QED BY <3>2 DEF SkipCount
  <2>4. (Room(t))' = k
    <3>1. (Room(t))' = IF skip'[t] < 1 THEN 1 ELSE skip'[t]
      BY <1>5, <2>2, RoomsStay DEF Looks
    <3> HIDE DEF k, n
    <3> QED BY <2>1, <2>2, <2>3, <3>1
  <2> HIDE DEF k
  <2>5. Skips'
    BY <2>1, <2>2 DEF Filling, Skips
  <2>6. Tokens' \in SUBSET Share(t, k)
    <3>1. ASSUME NEW x \in Tokens' PROVE x \in Share(t, k)
      <4>1. /\ x \in Thread \X (1 .. Stale) /\ x[2] <= (Room(x[1]))'
            /\ x[1] \in Thread /\ x[2] \in 1 .. Stale /\ x = <<x[1], x[2]>>
        BY Limits DEF Tokens
      <4>2. CASE x[1] = t
        <5>1. x[2] \in 1 .. k
          BY <2>1, <2>4, <4>1, <4>2, Limits
        <5> QED BY <4>1, <4>2, <5>1 DEF Share
      <4>3. CASE x[1] # t
        BY <4>1, <4>3 DEF Share
      <4> QED BY <4>2, <4>3
    <3> QED BY <3>1
  <2>7. Cardinality(Tokens') <= k + (Cardinality(Thread) - 1) * Stale /\ Cardinality(Tokens') \in Nat
    <3>1. /\ IsFiniteSet(Share(t, k)) /\ Cardinality(Share(t, k)) \in Nat
          /\ Cardinality(Share(t, k)) <= k + (Cardinality(Thread) - 1) * Stale
      BY <2>1, Shares, FS_CardinalityType
    <3>2. IsFiniteSet(Tokens') /\ Cardinality(Tokens') <= Cardinality(Share(t, k))
      BY <2>6, <3>1, FS_Subset
    <3>3. Cardinality(Tokens') \in Nat
      BY <3>2, FS_CardinalityType
    <3>4. (Cardinality(Thread) - 1) * Stale \in Int
      BY Limits, Constants, FS_CardinalityType
    <3> QED BY <2>1, <3>1, <3>2, <3>3, <3>4
  <2>8. Room0'
    <3>1. (Cardinality(Thread) - 1) * Stale \in Int
      BY Limits, Constants, FS_CardinalityType
    <3>2. n + Cardinality(Tokens') <= Limit
      BY <2>1, <2>7, <3>1, Constants DEF Limit
    <3> QED BY <1>1, <3>2 DEF Room0
  <2>9. Room1'
    BY <1>1 DEF Filling, Room1, Openers
  <2> QED BY <2>5, <2>8, <2>9 DEF Filling
<1> QED BY <1>3, <1>4, <1>5 DEF Stat

(* A renamed log keeps the writers that have it open.                      *)
LEMMA MovedFilling ==
  ASSUME Factor >= 2, Shape, Shape', Filling, NEW t \in Thread, Moved(no[t]), Rotated(t),
         size' = size, fd' = fd, dir[0] # NoFile
  PROVE  Filling'
<1>1. no[t] \in 1 .. FileCount /\ no[t] # 0
  BY Numbers, Constants
<1>2. dir'[0] = NoFile
  BY <1>1, Numbers, Constants DEF Moved
<1>3. Skips'
  BY Limits DEF Filling, Skips, Rotated, Shape, Typed, ThreadsTyped
<1>4. Room0'
  BY <1>2 DEF Room0
<1>5. Room1'
  <2>1. SUFFICES ASSUME NEW f \in 1 .. Len(size) PROVE size[f] + Cardinality(Openers(f)) <= Limit
    BY DEF Room1, Openers
  <2>2. CASE f = dir[0]
    <3>1. size[f] + Cardinality(Tokens) <= Limit /\ Cardinality(Openers(f)) <= Cardinality(Tokens)
      BY <2>2, OpenersHaveTokens DEF Filling, Room0
    <3>2. size[f] \in Nat /\ Limit \in Int /\ Cardinality(Tokens) \in Nat
          /\ Cardinality(Openers(f)) \in Nat
      BY Numbers, Limits, Counts
    <3> QED BY <3>1, <3>2
  <2>3. CASE f # dir[0]
    BY <2>3 DEF Filling, Room1
  <2> QED BY <2>2, <2>3
<1> QED BY <1>3, <1>4, <1>5 DEF Filling

LEMMA RotateFilling ==
  ASSUME Factor >= 2, Shape, Shape', Filling, NEW t \in Thread, RotateLogFileSize(t)
  PROVE  Filling'
<1>1. CASE FindName(t) \/ Unlink(t)
  <2>1. /\ size' = size /\ fd' = fd /\ skip' = skip /\ pc[t] \in {"find", "unlink"}
        /\ dir' = dir \/ dir' = [dir EXCEPT ![no[t]] = NoFile]
    BY <1>1 DEF FindName, Unlink, Keep, files
  <2>2. dir'[0] = dir[0]
    <3>1. no[t] \in 1 .. FileCount /\ no[t] # 0
      BY Numbers, Constants
    <3> QED BY <2>1, <3>1, Numbers, Constants
  <2>3. \E l \in {"find", "rename", "again"} : Goes(t, l)
    <3>1. pc = [pc EXCEPT ![t] = pc[t]]
      BY DEF Shape, Typed, ThreadsTyped
    <3>2. CASE FindName(t)
      BY <3>1, <3>2 DEF FindName, Goes
    <3>3. CASE Unlink(t)
      BY <3>3 DEF Unlink
    <3> QED BY <1>1, <3>2, <3>3
  <2>4. \A u \in Thread : (Room(u))' = Room(u) /\ Room(u) \in Int
    BY <2>1, <2>3, RoomsStay DEF Room, Looks, Shape, Typed, ThreadsTyped
  <2>5. \A u \in Thread : (Room(u))' <= Room(u)
    BY <2>4
  <2> QED BY <2>1, <2>2, <2>5, StillFilling
<1>2. CASE (Rename(t) \/ RenameAgain(t)) /\ dir[0] # NoFile
  BY <1>2, MovedFilling DEF Rename, RenameAgain
<1>3. CASE (Rename(t) \/ RenameAgain(t)) /\ dir[0] = NoFile
  <2>1. dir' = dir /\ size' = size /\ fd' = fd
    BY <1>3 DEF Rename, RenameAgain
  <2>2. Skips'
    BY <1>3, Limits DEF Rename, RenameAgain, Rotated, Filling, Skips, Shape, Typed, ThreadsTyped
  <2>3. Room0' /\ Room1'
    BY <1>3, <2>1 DEF Filling, Room0, Room1, Openers
  <2> QED BY <2>2, <2>3 DEF Filling
<1>4. CASE Stat(t)
  BY <1>4, StatFilling
<1> QED BY <1>1, <1>2, <1>3, <1>4 DEF RotateLogFileSize

LEMMA InitFilling == ASSUME Factor >= 2, Init PROVE Filling
<1>1. dir[0] = NoFile /\ Len(size) = 0 /\ \A t \in Thread : skip[t] = 0
  BY Constants DEF Init
<1> QED BY <1>1, Limits DEF Filling, Skips, Room0, Room1

LEMMA NextFilling ==
  ASSUME Factor >= 2, Shape, Filling, [Next]_vars
  PROVE  Filling'
<1>1. Shape'
  BY NextShape
<1>2. CASE UNCHANGED vars
  BY <1>2 DEF vars, Filling, Skips, Room0, Room1, Tokens, Room, Openers
<1>3. ASSUME NEW t \in Thread, WriteLogBase(t) \/ Region(t) \/ RotateLogFileSize(t) \/ ThreadRunning(t)
      PROVE  Filling'
  BY <1>1, <1>3, OpenLog_openFilling, WriteLog_writeFilling, LineFilling, RegionFilling, RotateFilling
     DEF WriteLogBase
<1> QED BY <1>2, <1>3 DEF Next, Done

LEMMA FillingBounded == ASSUME Factor >= 2, Shape, Filling PROVE Bounded
<1>1. SUFFICES ASSUME NEW f \in 1 .. Len(size) PROVE size[f] <= Limit
  <2>1. DOMAIN size = 1 .. Len(size)
    BY Numbers
  <2> QED BY <2>1 DEF Bounded, Limit, Stale
<1>2. /\ size[f] \in Nat /\ Limit \in Int /\ Cardinality(Tokens) \in Nat
      /\ Cardinality(Openers(f)) \in Nat
  BY Numbers, Limits, Counts
<1>3. CASE f = dir[0]
  <2>1. size[f] + Cardinality(Tokens) <= Limit
    BY <1>3, Constants DEF Filling, Room0
  <2> QED BY <1>2, <2>1
<1>4. CASE f # dir[0]
  <2>1. size[f] + Cardinality(Openers(f)) <= Limit
    BY <1>4 DEF Filling, Room1
  <2> QED BY <1>2, <2>1
<1> QED BY <1>3, <1>4

(* No file grows past the limit by more than the stale share of each       *)
(* writer but one, whatever fails and though the lock of the region may    *)
(* be lost.  With Factor = 1 a look would give more than there is room.    *)
THEOREM LogBounded ==
  ASSUME Factor >= 2
  PROVE  Spec => []Bounded
<1>1. Init => Shape /\ Filling
  BY InitShape, InitFilling
<1>2. Shape /\ Filling /\ [Next]_vars => (Shape /\ Filling)'
  BY NextShape, NextFilling
<1>3. Shape /\ Filling => Bounded
  BY FillingBounded
<1> QED BY <1>1, <1>2, <1>3, PTL DEF Spec
=============================================================================
