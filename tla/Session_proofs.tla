---------------------------- MODULE Session_proofs ----------------------------
(***************************************************************************)
(* A session has one keeper (Custody) and nobody handles a freed one        *)
(* (UseLive), for any sessions, pool threads and requests, notifications    *)
(* and late answers included, as long as clients leave politely, the idle   *)
(* and hang time-outs are prompt and tasks are accepted (Calm).            *)
(***************************************************************************)
EXTENDS Session, FiniteSetTheorems, TLAPS

Calm ==
  /\ Polite /\ Prompt
  /\ ~KeysClash /\ ~TaskMayFail /\ ~MayExit
  /\ Kinds # {}

-----------------------------------------------------------------------------
(* Where a session can be.                                                 *)
Keeps(t, s) == at[t] = s /\ pc[t] # "end"
Nobody(s)   == queued[s] = 0 /\ \A t \in Thread : ~Keeps(t, s)
Only(t, s)  == queued[s] = 0 /\ \A u \in Thread : Keeps(u, s) <=> u = t
Waits(s)    == client[s] = "waiting" /\ ~unread[s]

Open(s) ==
  /\ mem[s] = "live" /\ client[s] \in {"idle", "waiting", "closed"}
  /\ unread[s] => client[s] = "waiting"

(* Not accepted yet, or freed.                                             *)
Absent(s) ==
  /\ Nobody(s) /\ s \notin listed /\ s \notin inRecv /\ s \notin inSend
  /\ ~unread[s] /\ client[s] \in {"none", "closed"}
  /\ mem[s] \in {"none", "freed"}

Coming(s) ==
  /\ Only("accept", s)
  /\ s \in listed /\ s \notin inRecv /\ s \notin inSend /\ status[s] = "receive"

(* Watched for input.                                                      *)
Input(s) ==
  /\ Nobody(s)
  /\ s \in listed /\ s \in inRecv /\ s \notin inSend
  /\ status[s] # "publish" /\ (status[s] = "hang" => Waits(s))

(* With the receiving thread.                                              *)
Reading(s) ==
  /\ Only("recv", s) /\ pc["recv"] \in {"recv", "reply"}
  /\ pc["recv"] = "reply" => Waits(s)
  /\ s \in listed /\ s \in inRecv /\ s \notin inSend
  /\ status[s] \notin {"publish", "hang"}

(* With a thread that closes it; the other one does not watch it.          *)
ClosedBy(t, s) ==
  /\ Only(t, s) /\ pc[t] \in {"close", "close2", "erase", "decide"}
  /\ s \in listed <=> pc[t] # "decide"
  /\ t = "recv" => s \notin inSend
  /\ t = "send" => s \notin inRecv
  /\ status[s] \notin {"publish", "hang"}
Closing(s) == \E t \in {"recv", "send"} : ClosedBy(t, s)

(* With the pool: in its list, or with one of its threads.                 *)
Listed1(s) == queued[s] = 1 /\ \A t \in Thread : ~Keeps(t, s)
Given(s) ==
  /\ Listed1(s) \/ \E w \in Worker : Only(w, s)
  /\ s \in listed /\ s \in inRecv /\ s \notin inSend
  /\ status[s] = "publish" /\ Waits(s)

(* Watched for output; with the sending thread.                            *)
Output(s) ==
  /\ Nobody(s)
  /\ s \in listed /\ s \notin inRecv /\ s \in inSend
  /\ Waits(s)
Sends(s) ==
  /\ Only("send", s)
  /\ \/ pc["send"] = "send" /\ Waits(s)
     \/ pc["send"] = "write" /\ Waits(s) /\ status[s] \notin {"publish", "hang"}
     \/ pc["send"] = "back" /\ status[s] \in {"hang", "die"} /\ (status[s] = "hang" => Waits(s))
  /\ s \in listed /\ s \notin inRecv /\ s \in inSend

Placed(s) ==
  \/ Absent(s)
  \/ Open(s) /\ (Coming(s) \/ Input(s) \/ Reading(s) \/ Closing(s) \/ Given(s)
                   \/ Output(s) \/ Sends(s))

(* What each thread does.                                                  *)
Fits(t, l, a) ==
  /\ a = None <=> l = "loop"
  /\ t = "accept" => l \in {"loop", "add"}
  /\ t = "recv" => l \in {"loop", "recv", "close", "close2", "erase", "decide", "reply"}
  /\ t = "send" => l \in {"loop", "send", "write", "back", "close", "close2", "erase",
                         "decide"}
  /\ t \in Worker => l \in {"loop", "work", "notify", "gen", "reply", "end"}

Shape ==
  /\ \A t \in Thread : Fits(t, pc[t], at[t])
  /\ ~exit /\ pool
  /\ \A s \in Session : ~needFree[s]

SInv == TypeOK /\ Shape /\ \A s \in Session : Placed(s)

-----------------------------------------------------------------------------
(* A step of thread t that is about session s leaves the others in place.  *)
SameFor(u) ==
  /\ mem'[u] = mem[u] /\ status'[u] = status[u] /\ client'[u] = client[u]
  /\ unread'[u] = unread[u] /\ queued'[u] = queued[u]
  /\ (u \in inRecv' <=> u \in inRecv) /\ (u \in inSend' <=> u \in inSend)
  /\ (u \in listed' <=> u \in listed)

SameKeepers(u) ==
  \A r \in Thread : (Keeps(r, u)' <=> Keeps(r, u)) /\ (Keeps(r, u) => pc'[r] = pc[r])

LEMMA SamePlace ==
  ASSUME NEW u \in Session, SameFor(u), SameKeepers(u), Placed(u)
  PROVE  Placed(u)'
<1>1. {"accept", "recv", "send"} \subseteq Thread /\ Worker \subseteq Thread
  BY DEF Thread
<1>2. (Nobody(u) <=> Nobody(u)') /\ (Listed1(u) <=> Listed1(u)')
  BY DEF Nobody, Listed1, SameFor, SameKeepers
<1>3. \A r \in Thread : Only(r, u) => Only(r, u)' /\ pc'[r] = pc[r]
  BY DEF Only, SameFor, SameKeepers
<1>4. (Waits(u) <=> Waits(u)') /\ (Open(u) <=> Open(u)')
  BY DEF Waits, Open, SameFor
<1>5. (Absent(u) => Absent(u)') /\ (Input(u) => Input(u)') /\ (Output(u) => Output(u)')
  BY <1>2, <1>4 DEF Absent, Input, Output, SameFor
<1>6. Coming(u) => Coming(u)'
  BY <1>1, <1>3 DEF Coming, SameFor
<1>7. (Reading(u) => Reading(u)') /\ (Closing(u) => Closing(u)')
  BY <1>1, <1>3, <1>4 DEF Reading, Closing, ClosedBy, SameFor
<1>8. Sends(u) => Sends(u)'
  BY <1>1, <1>3, <1>4 DEF Sends, SameFor
<1>9. Given(u) => Given(u)'
  BY <1>1, <1>2, <1>3, <1>4 DEF Given, SameFor
<1> QED BY <1>4, <1>5, <1>6, <1>7, <1>8, <1>9 DEF Placed

LEMMA Combine ==
  ASSUME SInv, TypeOK', Shape', NEW s \in Session, Placed(s)',
         \A u \in Session : u # s => SameFor(u) /\ SameKeepers(u)
  PROVE  SInv'
  BY SamePlace DEF SInv

(* A thread that moves from and to s, or from or to rest, keeps no other.  *)
Moves(t, s) ==
  /\ at[t] \in {s, None} /\ at'[t] \in {s, None}
  /\ \A r \in Thread : r # t => at'[r] = at[r] /\ pc'[r] = pc[r]

LEMMA MoveKeepers ==
  ASSUME NEW t \in Thread, NEW s \in Session, Moves(t, s)
  PROVE  \A u \in Session : u # s => SameKeepers(u)
<1>1. None \notin Session
  BY SessionAssumption
<1> QED BY <1>1 DEF SameKeepers, Keeps, Moves

LEMMA StillKeepers ==
  ASSUME UNCHANGED <<pc, at>>
  PROVE  \A u \in Session : SameKeepers(u)
  BY DEF SameKeepers, Keeps

(* What a thread at work on s knows of s.                                  *)
LEMMA KeeperPlace ==
  ASSUME NEW s \in Session, NEW t \in Thread, Placed(s), Keeps(t, s)
  PROVE  /\ Open(s) /\ Only(t, s)
         /\ t = "accept" => Coming(s)
         /\ t = "recv" => Reading(s) \/ ClosedBy(t, s)
         /\ t = "send" => Sends(s) \/ ClosedBy(t, s)
         /\ t \in Worker => Given(s)
<1>1. {"accept", "recv", "send"} \subseteq Thread /\ Worker \subseteq Thread
      /\ "accept" \notin Worker /\ "recv" \notin Worker /\ "send" \notin Worker
  BY SessionAssumption DEF Thread
<1>2. ~Nobody(s) /\ ~Listed1(s) /\ \A u \in Thread : Only(u, s) => u = t
  BY DEF Nobody, Listed1, Only
<1> QED BY <1>1, <1>2
        DEF Placed, Absent, Coming, Input, Reading, Closing, ClosedBy, Given, Output, Sends

(* How the keepers of s change when t moves.                               *)
LEMMA Arrives ==
  ASSUME NEW s \in Session, NEW t \in Thread, \A u \in Thread : u # t => ~Keeps(u, s),
         at'[t] = s, pc'[t] # "end", queued'[s] = 0,
         \A u \in Thread : u # t => at'[u] = at[u] /\ pc'[u] = pc[u]
  PROVE  Only(t, s)'
  BY DEF Only, Keeps

LEMMA Departs ==
  ASSUME NEW s \in Session, NEW t \in Thread, \A u \in Thread : u # t => ~Keeps(u, s),
         at'[t] # s \/ pc'[t] = "end",
         \A u \in Thread : u # t => at'[u] = at[u] /\ pc'[u] = pc[u]
  PROVE  \A u \in Thread : ~Keeps(u, s)'
  BY DEF Keeps

(* A thread that moves from and to s, or from or to rest.                  *)
MovesTo(t, s, l, a) ==
  /\ t \in Thread /\ l \in Pc /\ a \in {s, None} /\ at[t] \in {s, None}
  /\ Fits(t, l, a)
  /\ pc' = [pc EXCEPT ![t] = l] /\ at' = [at EXCEPT ![t] = a]
  /\ UNCHANGED <<exit, pool, needFree>>

LEMMA Moved ==
  ASSUME TypeOK, Shape, NEW s \in Session, NEW t, NEW l, NEW a, MovesTo(t, s, l, a)
  PROVE  /\ pc'[t] = l /\ at'[t] = a
         /\ \A u \in Thread : u # t => at'[u] = at[u] /\ pc'[u] = pc[u]
         /\ pc' \in [Thread -> Pc] /\ at' \in [Thread -> Session \cup {None}]
         /\ Shape'
         /\ \A u \in Session : u # s => SameKeepers(u)
<1>1. /\ pc'[t] = l /\ at'[t] = a
      /\ \A u \in Thread : u # t => at'[u] = at[u] /\ pc'[u] = pc[u]
      /\ pc' \in [Thread -> Pc] /\ at' \in [Thread -> Session \cup {None}]
  BY DEF MovesTo, TypeOK
<1>2. \A u \in Thread : Fits(u, pc'[u], at'[u])
  BY <1>1 DEF MovesTo, Shape
<1>3. Shape'
  BY <1>2 DEF MovesTo, Shape, Fits
<1>4. \A u \in Session : u # s => SameKeepers(u)
  BY <1>1, MoveKeepers DEF MovesTo, Moves
<1> QED BY <1>1, <1>3, <1>4

-----------------------------------------------------------------------------
(* The clients.                                                            *)
LEMMA ClientPlaced ==
  ASSUME Calm, SInv, NEW s \in Session, Ask(s) \/ HangUp(s)
  PROVE  SInv'
<1>0. TypeOK /\ Shape /\ Placed(s)
  BY DEF SInv
<1>1. TypeOK'
  <2>1. CASE Ask(s)
    <3>1. left' \in [Session -> 0 .. Requests]
      BY <1>0, <2>1, SessionAssumption DEF TypeOK, Ask
    <3>2. kind' \in [Session -> Kinds]
      BY <1>0, <2>1 DEF TypeOK, Ask
    <3> QED BY <1>0, <2>1, <3>1, <3>2 DEF TypeOK, Ask, fields, epolls, env
  <2>2. CASE HangUp(s)
    BY <1>0, <2>2 DEF TypeOK, HangUp, fields, epolls, env
  <2> QED BY <2>1, <2>2
<1>2. Shape'
  <2>1. UNCHANGED <<pc, at, exit, pool, lock, needFree>>
    BY DEF Ask, HangUp, fields, env
  <2> QED BY <1>0, <2>1 DEF Shape, Fits
<1>3. client[s] = "idle"
  BY DEF Ask, HangUp, Calm
<1>4. Open(s) /\ ~Waits(s)
  BY <1>0, <1>3 DEF Placed, Absent, Waits
<1>5. /\ UNCHANGED <<fields, epolls, listed, queued, pc, at>>
      /\ client'[s] \in {"waiting", "closed"}
      /\ unread'[s] => client'[s] = "waiting"
      /\ \A u \in Session : u # s => client'[u] = client[u] /\ unread'[u] = unread[u]
  BY <1>0, <1>3, <1>4 DEF Ask, HangUp, TypeOK, Open
<1>6. Open(s)'
  BY <1>4, <1>5 DEF Open, fields
<1>7. SameKeepers(s) /\ \A u \in Session : u # s => SameFor(u) /\ SameKeepers(u)
  BY <1>5, StillKeepers DEF SameFor, fields, epolls
<1>8. (Nobody(s) <=> Nobody(s)') /\ \A t \in Thread : Only(t, s) <=> Only(t, s)'
  BY <1>5, <1>7 DEF Nobody, Only, SameKeepers
<1>9. {"accept", "recv", "send"} \subseteq Thread
  BY DEF Thread
<1>10. Coming(s)' \/ Input(s)' \/ Reading(s)' \/ Closing(s)' \/ Sends(s)'
  BY <1>0, <1>4, <1>5, <1>8, <1>9
     DEF Placed, Absent, Open, Coming, Input, Reading, Closing, ClosedBy, Given, Output,
         Sends, fields, epolls
<1>11. Placed(s)'
  BY <1>6, <1>10 DEF Placed
<1> QED BY <1>1, <1>2, <1>7, <1>11, Combine

-----------------------------------------------------------------------------
(* The accept thread.                                                      *)
LEMMA AcceptPlaced ==
  ASSUME Calm, SInv, NEW s \in Session, Accept(s)
  PROVE  SInv'
<1> DEFINE t == "accept"
<1>0. TypeOK /\ Shape /\ Placed(s) /\ t \in Thread /\ s # None
  BY SessionAssumption DEF SInv, Thread
<1>1. MovesTo(t, s, "add", s)
  BY <1>0, SessionAssumption DEF Accept, Take, Goto, MovesTo, Pc, Fits, Shape, env
<1>2. listed' = listed \cup {s}
  BY DEF Accept, Inserted, Calm
<1>3. TypeOK'
  BY <1>0, <1>1, <1>2, Moved DEF TypeOK, Accept, epolls, env
<1>4. \A u \in Session : u # s => SameFor(u)
  BY <1>0, <1>2 DEF Accept, SameFor, TypeOK, epolls
<1>5. Absent(s)
  BY <1>0 DEF Accept, Placed, Open
<1>6. Only(t, s)'
  <2>1. queued'[s] = 0 /\ \A u \in Thread : ~Keeps(u, s)
    BY <1>5 DEF Absent, Nobody, Accept
  <2> QED BY <1>0, <1>1, <2>1, Moved, Arrives
<1>7. Open(s)' /\ Coming(s)'
  BY <1>0, <1>2, <1>5, <1>6 DEF Open, Coming, Absent, Accept, TypeOK, epolls
<1> QED BY <1>0, <1>1, <1>3, <1>4, <1>7, Moved, Combine DEF Placed

LEMMA AcceptAddPlaced ==
  ASSUME Calm, SInv, AcceptAdd, NEW s \in Session, at["accept"] = s
  PROVE  SInv'
<1> DEFINE t == "accept"
<1>0. TypeOK /\ Shape /\ t \in Thread
  BY DEF SInv, Thread
<1>1. Keeps(t, s) /\ Placed(s)
  BY DEF AcceptAdd, Keeps, SInv
<1>2. MovesTo(t, s, "loop", None) /\ inRecv' = inRecv \cup {s}
  BY <1>0, SessionAssumption
     DEF AcceptAdd, Take, Goto, AfterPoll, MovesTo, Pc, Fits, Shape, env, fields
<1>3. TypeOK'
  BY <1>0, <1>2, Moved DEF TypeOK, AcceptAdd, fields, clients, env
<1>4. \A u \in Session : u # s => SameFor(u)
  BY <1>2 DEF AcceptAdd, SameFor, fields, clients
<1>5. Open(s) /\ Only(t, s) /\ Coming(s)
  BY <1>0, <1>1, KeeperPlace
<1>6. Nobody(s)'
  <2>1. s # None
    BY SessionAssumption
  <2>2. \A u \in Thread : ~Keeps(u, s)'
    BY <1>0, <1>2, <1>5, <2>1, Moved, Departs DEF Only
  <2> QED BY <1>5, <2>2 DEF Nobody, Only, AcceptAdd
<1>7. Open(s)' /\ Input(s)'
  BY <1>2, <1>5, <1>6 DEF Open, Input, Coming, AcceptAdd, fields, clients
<1> QED BY <1>0, <1>2, <1>3, <1>4, <1>7, Moved, Combine DEF Placed

LEMMA RefusePlaced ==
  ASSUME Calm, SInv, NEW s \in Session, Refuse(s)
  PROVE  SInv'
<1>0. TypeOK /\ Shape /\ Placed(s) /\ "accept" \in Thread /\ ~exit
  BY DEF SInv, Thread, Shape
<1>1. pc' = pc /\ at' = at
  BY <1>0 DEF Refuse, Goto, AfterPoll, TypeOK
<1>2. TypeOK'
  BY <1>0, <1>1 DEF TypeOK, Refuse, fields, epolls, env
<1>3. Shape'
  BY <1>0, <1>1 DEF Shape, Fits, Refuse, fields, env
<1>4. SameKeepers(s) /\ \A u \in Session : u # s => SameFor(u) /\ SameKeepers(u)
  BY <1>0, <1>1, StillKeepers DEF SameFor, Refuse, fields, epolls, TypeOK
<1>5. Absent(s)
  BY <1>0 DEF Refuse, Placed, Open
<1>6. Absent(s)'
  BY <1>0, <1>4, <1>5 DEF Absent, Nobody, SameKeepers, Refuse, fields, epolls, TypeOK
<1> QED BY <1>2, <1>3, <1>4, <1>6, Combine DEF Placed

-----------------------------------------------------------------------------
(* Who keeps s when t takes it on, and when t lets it go.                  *)
LEMMA TakesOn ==
  ASSUME TypeOK, Shape, NEW s \in Session, NEW t, NEW l, MovesTo(t, s, l, s), l # "end",
         \A u \in Thread : u # t => ~Keeps(u, s), queued'[s] = 0
  PROVE  Only(t, s)'
<1>1. t \in Thread
  BY DEF MovesTo
<1> QED BY <1>1, Moved, Arrives

LEMMA LetsGo ==
  ASSUME TypeOK, Shape, NEW s \in Session, NEW t, NEW l, NEW a, MovesTo(t, s, l, a),
         a = None \/ l = "end", \A u \in Thread : u # t => ~Keeps(u, s)
  PROVE  \A u \in Thread : ~Keeps(u, s)'
<1>1. t \in Thread /\ s # None
  BY SessionAssumption DEF MovesTo
<1> QED BY <1>1, Moved, Departs

-----------------------------------------------------------------------------
(* The receiving thread: its sweep of the sessions that have nothing to do. *)
LEMMA SweptPlace ==
  ASSUME Calm, SInv, NEW s \in Session, Sweepable(s)
  PROVE  Open(s) /\ Input(s)
<1>1. Placed(s) /\ s \in listed /\ status[s] # "publish"
  BY DEF SInv, Sweepable
<1>2. s \notin inSend /\ \A t \in Thread : ~Keeps(t, s)
  BY DEF Sweepable, TimesOut, Rests, Calm, Handled, Keeps
<1>3. {"accept", "recv", "send"} \subseteq Thread /\ Worker \subseteq Thread
  BY DEF Thread
<1>4. \A t \in Thread : ~Only(t, s)
  BY <1>2 DEF Only
<1> QED BY <1>1, <1>2, <1>3, <1>4
        DEF Placed, Absent, Coming, Reading, Closing, ClosedBy, Given, Output, Sends

LEMMA SweepIdlePlaced ==
  ASSUME Calm, SInv, NEW s \in Session, SweepIdle(s)
  PROVE  SInv'
<1>0. TypeOK /\ Shape /\ Open(s) /\ Input(s)
  BY SweptPlace DEF SInv, SweepIdle
<1>1. TypeOK'
  BY <1>0 DEF TypeOK, SweepIdle, FreeSession, env
<1>2. Shape'
  <2>1. UNCHANGED <<pc, at, exit, pool, lock, needFree>>
    BY DEF SweepIdle, env
  <2> QED BY <1>0, <2>1 DEF Shape, Fits
<1>3. SameKeepers(s) /\ \A u \in Session : u # s => SameFor(u) /\ SameKeepers(u)
  BY <1>0, StillKeepers DEF SameFor, SweepIdle, FreeSession, TypeOK
<1>4. Absent(s)'
  BY <1>0, <1>3
     DEF Absent, Open, Input, Nobody, SameKeepers, SweepIdle, FreeSession, TypeOK
<1> QED BY <1>1, <1>2, <1>3, <1>4, Combine DEF Placed

LEMMA SweepHangPlaced ==
  ASSUME Calm, SInv, NEW s \in Session, SweepHang(s)
  PROVE  SInv'
<1>0. TypeOK /\ Shape /\ Open(s) /\ Input(s) /\ Waits(s)
  <2>1. Open(s) /\ Input(s) /\ status[s] = "hang"
    BY SweptPlace DEF SweepHang
  <2> QED BY <2>1 DEF SInv, Input
<1>1. AddTask(s) /\ UNCHANGED lock
  BY <1>0 DEF SweepHang, AddTaskFails, Shape, Calm
<1>2. TypeOK'
  BY <1>0, <1>1 DEF TypeOK, SweepHang, AddTask, epolls, clients, env
<1>3. Shape'
  <2>1. UNCHANGED <<pc, at, exit, pool, lock, needFree>>
    BY <1>1 DEF SweepHang, env
  <2> QED BY <1>0, <2>1 DEF Shape, Fits
<1>4. SameKeepers(s) /\ \A u \in Session : u # s => SameFor(u) /\ SameKeepers(u)
  BY <1>0, <1>1, StillKeepers DEF SameFor, SweepHang, AddTask, epolls, clients, TypeOK
<1>5. Listed1(s)'
  BY <1>0, <1>1, <1>4 DEF Listed1, Input, Nobody, SameKeepers, AddTask, TypeOK
<1>6. Open(s)' /\ Given(s)'
  BY <1>0, <1>1, <1>5 DEF Open, Given, Input, Waits, SweepHang, AddTask, epolls, clients, TypeOK
<1> QED BY <1>2, <1>3, <1>4, <1>6, Combine DEF Placed

-----------------------------------------------------------------------------
(* Its requests.                                                           *)
LEMMA RecvPickPlaced ==
  ASSUME Calm, SInv, NEW s \in Session, RecvPick(s)
  PROVE  SInv'
<1> DEFINE t == "recv"
<1>0. TypeOK /\ Shape /\ Placed(s) /\ t \in Thread /\ s # None /\ t \notin Worker
  BY SessionAssumption DEF SInv, Thread
<1>1. MovesTo(t, s, t, s)
  BY <1>0 DEF RecvPick, Take, Goto, MovesTo, Pc, Fits, Shape, env, fields
<1>2. TypeOK'
  BY <1>0, <1>1, Moved DEF TypeOK, RecvPick, fields, epolls, clients, env
<1>3. \A u \in Session : SameFor(u)
  BY DEF RecvPick, SameFor, fields, epolls, clients
<1>4. ~Keeps(t, s) /\ ~Waits(s) /\ s \in inRecv
  BY <1>0 DEF RecvPick, Keeps, Waits, Shape, Fits
<1>5. Open(s) /\ Input(s)
  <2>1. ~Only(t, s)
    BY <1>0, <1>4 DEF Only
  <2> QED BY <1>0, <1>4, <2>1
          DEF Placed, Absent, Coming, Reading, Closing, ClosedBy, Given, Output, Sends
<1>6. Only(t, s)'
  BY <1>0, <1>1, <1>3, <1>5, TakesOn DEF Input, Nobody, SameFor
<1>7. Open(s)' /\ Reading(s)'
  BY <1>0, <1>1, <1>3, <1>4, <1>5, <1>6, Moved DEF Open, Reading, Input, SameFor
<1> QED BY <1>0, <1>1, <1>2, <1>3, <1>7, Moved, Combine DEF Placed

LEMMA ReceivingPlace ==
  ASSUME SInv, NEW s \in Session, at["recv"] = s
  PROVE  /\ Open(s) /\ Only("recv", s) /\ (Reading(s) \/ ClosedBy("recv", s))
         /\ \A u \in Thread : u # "recv" => ~Keeps(u, s)
<1>1. "recv" \in Thread /\ s # None /\ "recv" \notin Worker
  BY SessionAssumption DEF Thread
<1>2. Keeps("recv", s) /\ Placed(s)
  BY <1>1 DEF SInv, Shape, Fits, Keeps
<1> QED BY <1>1, <1>2, KeeperPlace DEF Only

LEMMA SendingPlace ==
  ASSUME SInv, NEW s \in Session, at["send"] = s
  PROVE  /\ Open(s) /\ Only("send", s) /\ (Sends(s) \/ ClosedBy("send", s))
         /\ \A u \in Thread : u # "send" => ~Keeps(u, s)
<1>1. "send" \in Thread /\ s # None /\ "send" \notin Worker
  BY SessionAssumption DEF Thread
<1>2. Keeps("send", s) /\ Placed(s)
  BY <1>1 DEF SInv, Shape, Fits, Keeps
<1> QED BY <1>1, <1>2, KeeperPlace DEF Only

LEMMA RecvEndsPlaced ==
  ASSUME Calm, SInv, NEW s \in Session, RecvEnds(s)
  PROVE  SInv'
<1> DEFINE t == "recv"
<1>0. TypeOK /\ Shape /\ t \in Thread /\ s # None /\ t \notin Worker
  BY SessionAssumption DEF SInv, Thread
<1>1. at[t] = s /\ pc[t] = t
  BY DEF RecvEnds, Receiving
<1>2. at' = [at EXCEPT ![t] = s]
  BY <1>0, <1>1 DEF RecvEnds, TypeOK
<1>3. MovesTo(t, s, "close", s)
  BY <1>0, <1>1, <1>2 DEF RecvEnds, Goto, MovesTo, Pc, Fits, env, fields
<1>4. TypeOK'
  BY <1>0, <1>3, Moved DEF TypeOK, RecvEnds, fields, epolls, clients, env
<1>5. \A u \in Session : SameFor(u)
  BY DEF RecvEnds, SameFor, fields, epolls, clients
<1>6. Open(s) /\ Only(t, s) /\ Reading(s) /\ \A u \in Thread : u # t => ~Keeps(u, s)
  BY <1>1, ReceivingPlace DEF ClosedBy
<1>7. Only(t, s)'
  BY <1>0, <1>3, <1>5, <1>6, TakesOn DEF Only, SameFor
<1>8. Open(s)' /\ ClosedBy(t, s)'
  BY <1>0, <1>3, <1>5, <1>6, <1>7, Moved DEF Open, Reading, ClosedBy, SameFor
<1> QED BY <1>0, <1>3, <1>4, <1>5, <1>8, Moved, Combine DEF Placed, Closing

LEMMA RecvReplyPlaced ==
  ASSUME Calm, SInv, NEW s \in Session, RecvReply(s)
  PROVE  SInv'
<1> DEFINE t == "recv"
<1>0. TypeOK /\ Shape /\ t \in Thread /\ s # None /\ t \notin Worker
  BY SessionAssumption DEF SInv, Thread
<1>1. at[t] = s /\ pc[t] = "reply"
  BY DEF RecvReply
<1>2. MovesTo(t, s, "loop", None)
  BY <1>0, <1>1 DEF RecvReply, Return, Goto, MovesTo, Pc, Fits, env, fields
<1>3. inRecv' = inRecv \ {s} /\ inSend' = inSend \cup {s}
  BY DEF RecvReply, AddEpollSendEvent
<1>4. TypeOK'
  BY <1>0, <1>2, <1>3, Moved DEF TypeOK, RecvReply, fields, clients, env
<1>5. \A u \in Session : u # s => SameFor(u)
  BY <1>3 DEF RecvReply, SameFor, fields, clients
<1>6. Open(s) /\ Only(t, s) /\ Reading(s) /\ \A u \in Thread : u # t => ~Keeps(u, s)
  BY <1>1, ReceivingPlace DEF ClosedBy
<1>7. Nobody(s)'
  BY <1>0, <1>2, <1>6, LetsGo DEF Nobody, Only, RecvReply
<1>8. Open(s)' /\ Output(s)'
  BY <1>1, <1>3, <1>6, <1>7 DEF Open, Output, Reading, Waits, RecvReply, fields, clients
<1> QED BY <1>0, <1>2, <1>4, <1>5, <1>8, Moved, Combine DEF Placed

LEMMA RecvRequestPlaced ==
  ASSUME Calm, SInv, NEW s \in Session, RecvRequest(s)
  PROVE  SInv'
<1> DEFINE t == "recv"
<1>0. TypeOK /\ Shape /\ t \in Thread /\ s # None /\ t \notin Worker
  BY SessionAssumption DEF SInv, Thread
<1>1. at[t] = s /\ pc[t] = t
  BY DEF RecvRequest, Receiving
<1>2. Open(s) /\ Only(t, s) /\ Reading(s) /\ \A u \in Thread : u # t => ~Keeps(u, s)
  BY <1>1, ReceivingPlace DEF ClosedBy
<1>3. /\ client[s] = "waiting" /\ unread' = [unread EXCEPT ![s] = FALSE]
      /\ UNCHANGED <<mem, needFree, epolls, listed, lock, todo, client, kind, left, env>>
  BY <1>2 DEF RecvRequest, Open
<1>4. hang' \in [Session -> {"no", "up", "timeout"}] /\ unread' \in [Session -> BOOLEAN]
  BY <1>0, <1>3 DEF RecvRequest, TypeOK
<1>5. Waits(s)' /\ Open(s)'
  BY <1>0, <1>2, <1>3 DEF Waits, Open, TypeOK
<1>6. CASE Show(s)
  <2>1. UNCHANGED <<status, queued>> /\ pc' = [pc EXCEPT ![t] = "reply"] /\ at' = at
    BY <1>6 DEF Show, Goto
  <2>2. at' = [at EXCEPT ![t] = s]
    BY <1>0, <1>1, <2>1 DEF TypeOK
  <2>3. MovesTo(t, s, "reply", s)
    BY <1>0, <1>1, <1>3, <2>1, <2>2 DEF MovesTo, Pc, Fits, env
  <2>4. TypeOK'
    BY <1>0, <1>3, <1>4, <2>1, <2>3, Moved DEF TypeOK, epolls, env
  <2>5. \A u \in Session : u # s => SameFor(u)
    BY <1>3, <2>1 DEF SameFor, epolls
  <2>6. Only(t, s)'
    BY <1>0, <1>2, <2>1, <2>3, TakesOn DEF Only
  <2>7. Reading(s)'
    BY <1>0, <1>2, <1>3, <1>5, <2>1, <2>3, <2>6, Moved DEF Reading, epolls
  <2> QED BY <1>0, <1>5, <2>3, <2>4, <2>5, <2>7, Moved, Combine DEF Placed
<1>7. CASE kind[s] = "unknown" /\ Return(t) /\ UNCHANGED <<status, queued>>
  <2>1. MovesTo(t, s, "loop", None)
    BY <1>0, <1>1, <1>3, <1>7 DEF MovesTo, Return, Goto, Pc, Fits, env
  <2>2. TypeOK'
    BY <1>0, <1>3, <1>4, <1>7, <2>1, Moved DEF TypeOK, epolls, env
  <2>3. \A u \in Session : u # s => SameFor(u)
    BY <1>3, <1>7 DEF SameFor, epolls
  <2>4. Nobody(s)'
    BY <1>0, <1>2, <1>7, <2>1, LetsGo DEF Nobody, Only
  <2>5. Input(s)'
    BY <1>2, <1>3, <1>7, <2>4 DEF Input, Reading, epolls
  <2> QED BY <1>0, <1>5, <2>1, <2>2, <2>3, <2>5, Moved, Combine DEF Placed
<1>8. CASE AddTask(s) /\ Return(t)
  <2>1. MovesTo(t, s, "loop", None)
    BY <1>0, <1>1, <1>3, <1>8 DEF MovesTo, Return, Goto, Pc, Fits, env
  <2>2. TypeOK'
    BY <1>0, <1>3, <1>4, <1>8, <2>1, Moved DEF TypeOK, AddTask, epolls, env
  <2>3. \A u \in Session : u # s => SameFor(u)
    BY <1>0, <1>3, <1>8 DEF SameFor, AddTask, epolls, TypeOK
  <2>4. Listed1(s)'
    <3>1. \A u \in Thread : ~Keeps(u, s)'
      BY <1>0, <1>2, <2>1, LetsGo
    <3>2. queued'[s] = 1
      BY <1>0, <1>2, <1>8 DEF AddTask, Only, TypeOK
    <3> QED BY <3>1, <3>2 DEF Listed1
  <2>5. Given(s)'
    BY <1>0, <1>2, <1>3, <1>5, <1>8, <2>4 DEF Given, Reading, AddTask, epolls, TypeOK
  <2> QED BY <1>0, <1>5, <2>1, <2>2, <2>3, <2>5, Moved, Combine DEF Placed
<1>9. ~AddTaskFails(s)
  BY <1>0 DEF AddTaskFails, Shape, Calm
<1> QED BY <1>6, <1>7, <1>8, <1>9 DEF RecvRequest

(* It or the sending thread closes a session only it has.                  *)
LEMMA ClosePlaced ==
  ASSUME Calm, SInv, NEW t \in {"recv", "send"}, Close(t), NEW s \in Session, at[t] = s
  PROVE  SInv'
<1>0. TypeOK /\ Shape /\ t \in Thread /\ s # None /\ t \notin Worker
  BY SessionAssumption DEF SInv, Thread
<1>1. pc[t] \notin {"drop", "drop2"}
  BY <1>0 DEF Shape, Fits
<1>2. /\ Open(s) /\ ClosedBy(t, s) /\ \A u \in Thread : u # t => ~Keeps(u, s)
  <2>1. pc[t] \in {"close", "close2", "erase", "decide"}
    BY <1>1 DEF Close, CloseSend, CloseRecv, Erase, Decide
  <2> QED BY <2>1, ReceivingPlace, SendingPlace DEF Reading, Sends
<1>3. at' = at => at' = [at EXCEPT ![t] = s]
  BY <1>0 DEF TypeOK
<1>4. ASSUME queued' = queued, NEW l, MovesTo(t, s, l, s), l # "end"
      PROVE  Only(t, s)'
  BY <1>0, <1>2, <1>4, TakesOn DEF Only, ClosedBy
<1>5. CASE CloseSend(t)
  <2>1. pc[t] = "close" /\ inSend' = inSend \ {s}
    BY <1>1, <1>5 DEF CloseSend
  <2>2. MovesTo(t, s, "close2", s)
    BY <1>0, <1>3, <1>5, <2>1 DEF CloseSend, Goto, MovesTo, Pc, Fits, env, fields
  <2>3. TypeOK'
    BY <1>0, <1>5, <2>1, <2>2, Moved DEF TypeOK, CloseSend, fields, clients, env
  <2>4. \A u \in Session : u # s => SameFor(u)
    BY <1>5, <2>1 DEF CloseSend, SameFor, fields, clients
  <2>5. Only(t, s)'
    BY <1>4, <1>5, <2>2 DEF CloseSend
  <2>6. Open(s)' /\ ClosedBy(t, s)'
    BY <1>0, <1>2, <1>5, <2>1, <2>2, <2>5, Moved
       DEF Open, ClosedBy, CloseSend, fields, clients
  <2> QED BY <1>0, <2>2, <2>3, <2>4, <2>6, Moved, Combine DEF Placed, Closing
<1>6. CASE CloseRecv(t)
  <2>1. /\ pc[t] = "close2" /\ inRecv' = inRecv \ {s} /\ UNCHANGED listed
        /\ pc' = [pc EXCEPT ![t] = "erase"]
    BY <1>1, <1>6 DEF CloseRecv, Goto
  <2>2. MovesTo(t, s, "erase", s)
    BY <1>0, <1>3, <1>6, <2>1 DEF CloseRecv, MovesTo, Pc, Fits, env, fields
  <2>3. TypeOK'
    BY <1>0, <1>6, <2>1, <2>2, Moved DEF TypeOK, CloseRecv, fields, clients, env
  <2>4. \A u \in Session : u # s => SameFor(u)
    BY <1>6, <2>1 DEF CloseRecv, SameFor, fields, clients
  <2>5. Only(t, s)'
    BY <1>4, <1>6, <2>2 DEF CloseRecv
  <2>6. Open(s)' /\ ClosedBy(t, s)'
    BY <1>0, <1>2, <1>6, <2>1, <2>2, <2>5, Moved
       DEF Open, ClosedBy, CloseRecv, fields, clients
  <2> QED BY <1>0, <2>2, <2>3, <2>4, <2>6, Moved, Combine DEF Placed, Closing
<1>7. CASE Erase(t)
  <2>1. pc[t] = "erase" /\ listed' = listed \ {s}
    BY <1>7 DEF Erase, Erased, Calm
  <2>2. MovesTo(t, s, "decide", s)
    BY <1>0, <1>3, <1>7, <2>1 DEF Erase, Goto, MovesTo, Pc, Fits, env, fields
  <2>3. TypeOK'
    BY <1>0, <1>7, <2>1, <2>2, Moved DEF TypeOK, Erase, fields, epolls, clients, env
  <2>4. \A u \in Session : u # s => SameFor(u)
    BY <1>7, <2>1 DEF Erase, SameFor, fields, epolls, clients
  <2>5. Only(t, s)'
    BY <1>4, <1>7, <2>2 DEF Erase
  <2>6. Open(s)' /\ ClosedBy(t, s)'
    BY <1>0, <1>2, <1>7, <2>1, <2>2, <2>5, Moved
       DEF Open, ClosedBy, Erase, fields, epolls, clients
  <2> QED BY <1>0, <2>2, <2>3, <2>4, <2>6, Moved, Combine DEF Placed, Closing
<1>8. CASE Decide(t)
  <2>1. pc[t] = "decide" /\ FreeSession(s) /\ UNCHANGED needFree
    BY <1>2, <1>8 DEF Decide, ClosedBy
  <2>2. MovesTo(t, s, "loop", None)
    BY <1>0, <1>8, <2>1 DEF Decide, Return, Goto, MovesTo, Pc, Fits, env
  <2>3. TypeOK'
    BY <1>0, <1>8, <2>1, <2>2, Moved DEF TypeOK, Decide, FreeSession, env
  <2>4. \A u \in Session : u # s => SameFor(u)
    BY <1>0, <1>8, <2>1 DEF Decide, FreeSession, SameFor, TypeOK
  <2>5. Nobody(s)'
    BY <1>0, <1>2, <1>8, <2>2, LetsGo DEF Nobody, Only, Decide, ClosedBy
  <2>6. Absent(s)'
    <3>1. s \notin listed'
      BY <1>2, <1>8, <2>1 DEF Decide, ClosedBy
    <3>2. mem'[s] = "freed" /\ client'[s] = "closed" /\ ~unread'[s]
      BY <1>0, <1>2, <2>1 DEF FreeSession, Open, TypeOK
    <3>3. s \notin inRecv' /\ s \notin inSend'
      BY <2>1 DEF FreeSession
    <3> QED BY <2>5, <3>1, <3>2, <3>3 DEF Absent
  <2> QED BY <1>0, <2>2, <2>3, <2>4, <2>6, Moved, Combine DEF Placed
<1> QED BY <1>5, <1>6, <1>7, <1>8 DEF Close

-----------------------------------------------------------------------------
(* The threads of the pool.                                                *)
LEMMA WorkTakePlaced ==
  ASSUME Calm, SInv, NEW w \in Worker, NEW s \in Session, WorkTake(w, s)
  PROVE  SInv'
<1>0. TypeOK /\ Shape /\ Placed(s) /\ w \in Thread /\ s # None
      /\ w \notin {"accept", "recv", "send"}
  BY SessionAssumption DEF SInv, Thread
<1>1. MovesTo(w, s, "work", s)
  BY <1>0 DEF WorkTake, Take, Goto, MovesTo, Pc, Fits, Shape, fields, env
<1>2. queued' = [queued EXCEPT ![s] = @ - 1] /\ queued[s] > 0
  BY DEF WorkTake
<1>3. Open(s) /\ Given(s) /\ Listed1(s)
  BY <1>0, <1>2
     DEF Placed, Absent, Coming, Input, Reading, Closing, ClosedBy, Given, Output, Sends,
         Nobody, Only
<1>4. queued' \in [Session -> Nat] /\ queued'[s] = 0
  BY <1>0, <1>2, <1>3 DEF TypeOK, Listed1
<1>5. TypeOK'
  BY <1>0, <1>1, <1>4, Moved DEF TypeOK, WorkTake, fields, epolls, clients, env
<1>6. \A u \in Session : u # s => SameFor(u)
  BY <1>0, <1>2 DEF WorkTake, SameFor, TypeOK, fields, epolls, clients
<1>7. Only(w, s)'
  BY <1>0, <1>1, <1>3, <1>4, TakesOn DEF Listed1
<1>8. Open(s)' /\ Given(s)'
  BY <1>3, <1>7 DEF Open, Given, Waits, WorkTake, fields, epolls, clients
<1> QED BY <1>0, <1>1, <1>5, <1>6, <1>8, Moved, Combine DEF Placed

LEMMA WorkingPlace ==
  ASSUME SInv, NEW w \in Worker, NEW s \in Session, at[w] = s, pc[w] # "end"
  PROVE  /\ Open(s) /\ Only(w, s) /\ Given(s)
         /\ \A u \in Thread : u # w => ~Keeps(u, s)
<1>1. w \in Thread /\ Placed(s) /\ Keeps(w, s)
  BY DEF Thread, SInv, Keeps
<1> QED BY <1>1, KeeperPlace DEF Only

LEMMA WorkOnPlaced ==
  ASSUME Calm, SInv, NEW w \in Worker, NEW s \in Session, at[w] = s,
         WorkAnswer(w) \/ WorkHang(w) \/ Generate(w)
  PROVE  SInv'
<1> DEFINE l == IF pc[w] = "work" /\ kind[s] = "task" THEN "gen" ELSE "reply"
<1>0. TypeOK /\ Shape /\ w \in Thread /\ s # None /\ w \notin {"accept", "recv", "send"}
  BY SessionAssumption DEF SInv, Thread
<1>1. /\ pc[w] # "end" /\ pc' = [pc EXCEPT ![w] = l] /\ at' = at
      /\ UNCHANGED <<mem, status, needFree, inRecv, inSend, listed, lock, queued, todo,
                     client, unread, kind, left, exit, pool>>
      /\ hang' = hang \/ hang' = [hang EXCEPT ![s] = IF @ = "timeout" THEN @ ELSE "up"]
  BY <1>0 DEF WorkAnswer, WorkHang, Generate, Goto, Shape, fields, epolls, clients, env
<1>2. l \in {"gen", "reply"}
  OBVIOUS
<1> HIDE DEF l
<1>3. at' = [at EXCEPT ![w] = s]
  BY <1>0, <1>1 DEF TypeOK
<1>4. MovesTo(w, s, l, s)
  BY <1>0, <1>1, <1>2, <1>3 DEF MovesTo, Pc, Fits
<1>5. TypeOK'
  BY <1>0, <1>1, <1>4, Moved DEF TypeOK
<1>6. \A u \in Session : SameFor(u)
  BY <1>1 DEF SameFor
<1>7. Open(s) /\ Only(w, s) /\ Given(s) /\ \A u \in Thread : u # w => ~Keeps(u, s)
  BY <1>1, WorkingPlace
<1>8. Only(w, s)'
  BY <1>0, <1>1, <1>2, <1>4, <1>7, TakesOn DEF Only
<1>9. Open(s)' /\ Given(s)'
  BY <1>1, <1>7, <1>8 DEF Open, Given, Waits
<1> QED BY <1>0, <1>4, <1>5, <1>6, <1>9, Moved, Combine DEF Placed

LEMMA WorkReplyPlaced ==
  ASSUME Calm, SInv, NEW w \in Worker, NEW s \in Session, at[w] = s, WorkReply(w)
  PROVE  SInv'
<1>0. TypeOK /\ Shape /\ w \in Thread /\ s # None /\ w \notin {"accept", "recv", "send"}
  BY SessionAssumption DEF SInv, Thread
<1>1. Open(s) /\ Only(w, s) /\ Given(s) /\ \A u \in Thread : u # w => ~Keeps(u, s)
  BY WorkingPlace DEF WorkReply
<1>2. inRecv' = inRecv \ {s} /\ inSend' = inSend \cup {s}
  BY <1>1 DEF WorkReply, AddEpollSendEvent, SendEventFails, Given
<1>3. at' = [at EXCEPT ![w] = s]
  BY <1>0 DEF WorkReply, TypeOK
<1>4. MovesTo(w, s, "end", s)
  BY <1>0, <1>3 DEF WorkReply, Goto, MovesTo, Pc, Fits, fields, env
<1>5. TypeOK'
  BY <1>0, <1>2, <1>4, Moved DEF TypeOK, WorkReply, fields, clients, env
<1>6. \A u \in Session : u # s => SameFor(u)
  BY <1>2 DEF WorkReply, SameFor, fields, clients
<1>7. Nobody(s)'
  BY <1>0, <1>1, <1>4, LetsGo DEF Nobody, Only, WorkReply
<1>8. Open(s)' /\ Output(s)'
  BY <1>1, <1>2, <1>7 DEF Open, Output, Given, Waits, WorkReply, fields, clients
<1> QED BY <1>0, <1>4, <1>5, <1>6, <1>8, Moved, Combine DEF Placed

(* The last time stamps are written by a thread that keeps the session no   *)
(* more: it may be anywhere by now.                                        *)
LEMMA WorkEndPlaced ==
  ASSUME Calm, SInv, NEW w \in Worker, NEW s \in Session, at[w] = s, WorkEnd(w)
  PROVE  SInv'
<1>0. TypeOK /\ Shape /\ w \in Thread /\ s # None /\ w \notin {"accept", "recv", "send"}
  BY SessionAssumption DEF SInv, Thread
<1>1. MovesTo(w, s, "loop", None)
  BY <1>0 DEF WorkEnd, Return, Goto, MovesTo, Pc, Fits, fields, env
<1>2. TypeOK'
  BY <1>0, <1>1, Moved DEF TypeOK, WorkEnd, fields, epolls, clients, env
<1>3. \A u \in Session : SameFor(u)
  BY DEF WorkEnd, SameFor, fields, epolls, clients
<1>4. SameKeepers(s)
  BY <1>0, <1>1, Moved DEF SameKeepers, Keeps, WorkEnd
<1>5. Placed(s)'
  BY <1>3, <1>4, SamePlace DEF SInv
<1> QED BY <1>0, <1>1, <1>2, <1>3, <1>5, Moved, Combine

(* It walks the sessions to wake those that hang, with the lock.           *)
LEMMA NotifyingPlaced ==
  ASSUME Calm, SInv, NEW w \in Worker, NEW s \in Session, at[w] = s,
         NEW l \in {"notify", "gen"}, pc[w] \in {"work", "notify"},
         pc' = [pc EXCEPT ![w] = l],
         lock' \in Thread \cup {None}, hang' \in [Session -> {"no", "up", "timeout"}],
         todo' \in [Worker -> SUBSET Session],
         UNCHANGED <<mem, status, needFree, epolls, listed, queued, at, clients, env>>
  PROVE  SInv'
<1>0. TypeOK /\ Shape /\ w \in Thread /\ s # None /\ w \notin {"accept", "recv", "send"}
  BY SessionAssumption DEF SInv, Thread
<1>1. Open(s) /\ Only(w, s) /\ Given(s) /\ \A u \in Thread : u # w => ~Keeps(u, s)
  BY WorkingPlace
<1>2. at' = [at EXCEPT ![w] = s]
  BY <1>0 DEF TypeOK
<1>3. MovesTo(w, s, l, s)
  BY <1>0, <1>2 DEF MovesTo, Pc, Fits, env
<1>4. TypeOK'
  BY <1>0, <1>3, Moved DEF TypeOK, epolls, clients, env
<1>5. \A u \in Session : SameFor(u)
  BY DEF SameFor, epolls, clients
<1>6. Only(w, s)'
  BY <1>0, <1>1, <1>3, TakesOn DEF Only
<1>7. Open(s)' /\ Given(s)'
  BY <1>1, <1>6 DEF Open, Given, Waits, epolls, clients
<1> QED BY <1>0, <1>3, <1>4, <1>5, <1>7, Moved, Combine DEF Placed

(* A session that hangs is watched for input, until it is woken; or the    *)
(* sending thread has it in hand, or it has been woken already: then the    *)
(* walk ends there.                                                        *)
LEMMA NotifyPlaced ==
  ASSUME Calm, SInv, NEW w \in Worker, NEW u \in Session, Notify(w, u)
  PROVE  SInv'
<1>0. TypeOK /\ Shape /\ Placed(u)
  BY DEF SInv
<1>1. PICK s \in Session : at[w] = s
  BY <1>0 DEF Notify, Shape, Fits, Thread, TypeOK
<1>2. pc[w] = "notify" /\ pc = [pc EXCEPT ![w] = "notify"]
  BY <1>0 DEF Notify, TypeOK, Thread
<1>3. /\ hang' \in [Session -> {"no", "up", "timeout"}]
      /\ todo' \in [Worker -> SUBSET Session]
      /\ lock' \in Thread \cup {None}
      /\ UNCHANGED <<mem, status, needFree, listed, lock, queued, at, clients, env>>
  BY <1>0 DEF Notify, TypeOK
<1>4. CASE UNCHANGED <<epolls, pc>>
  BY <1>1, <1>2, <1>3, <1>4, NotifyingPlaced
<1>5. CASE status[u] = "hang" /\ AddEpollSendEvent(u) /\ UNCHANGED pc
  <2>1. inRecv' = inRecv \ {u} /\ inSend' = inSend \cup {u} /\ u \in inRecv
    BY <1>5 DEF AddEpollSendEvent
  <2>2. Open(u) /\ Input(u)
    BY <1>0, <1>5, <2>1
       DEF Placed, Absent, Coming, Input, Reading, Closing, ClosedBy, Given, Output, Sends
  <2>3. TypeOK'
    BY <1>0, <1>3, <1>5, <2>1 DEF TypeOK, clients, env
  <2>4. Shape'
    BY <1>0, <1>3, <1>5 DEF Shape, Fits, env
  <2>5. SameKeepers(u) /\ \A v \in Session : v # u => SameFor(v) /\ SameKeepers(v)
    BY <1>3, <1>5, <2>1, StillKeepers DEF SameFor, clients
  <2>6. Nobody(u)'
    BY <1>3, <2>2, <2>5 DEF Input, Nobody, SameKeepers
  <2>7. Open(u)' /\ Output(u)'
    BY <1>3, <1>5, <2>1, <2>2, <2>6 DEF Open, Input, Output, Waits, clients
  <2> QED BY <2>3, <2>4, <2>5, <2>7, Combine DEF Placed
<1>6. CASE SendEventFails(u) /\ Goto(w, "gen")
  <2>1. u \notin inRecv
    BY <1>0, <1>6
       DEF SendEventFails, Placed, Absent, Coming, Input, Reading, Closing, ClosedBy,
           Given, Output, Sends
  <2>2. UNCHANGED epolls
    BY <1>6, <2>1 DEF SendEventFails, epolls
  <2> QED BY <1>1, <1>2, <1>3, <1>6, <2>2, NotifyingPlaced DEF Goto
<1> QED BY <1>4, <1>5, <1>6 DEF Notify

LEMMA PoolPlaced ==
  ASSUME Calm, SInv, NEW w \in Worker, PoolThread(w)
  PROVE  SInv'
<1>1. w \in Thread /\ (at[w] = None <=> pc[w] = "loop") /\ at[w] \in Session \cup {None}
  BY DEF SInv, TypeOK, Thread, Shape, Fits
<1>2. CASE \E s \in Session : WorkTake(w, s) \/ Notify(w, s)
  BY <1>2, WorkTakePlaced, NotifyPlaced
<1>3. CASE WorkAnswer(w) \/ WorkHang(w) \/ Generate(w) \/ WorkReply(w) \/ WorkEnd(w)
  <2>1. pc[w] # "loop"
    BY <1>3 DEF WorkAnswer, WorkHang, Generate, WorkReply, WorkEnd
  <2>2. PICK s \in Session : at[w] = s
    BY <1>1, <2>1
  <2> QED BY <1>3, <2>2, WorkOnPlaced, WorkReplyPlaced, WorkEndPlaced
<1>4. CASE WorkNotify(w) \/ NotifyDone(w)
  <2>1. TypeOK /\ pc[w] \in {"work", "notify"}
    BY <1>4 DEF SInv, WorkNotify, NotifyDone
  <2>2. PICK s \in Session : at[w] = s
    BY <1>1, <2>1
  <2>3. PICK l \in {"notify", "gen"} : pc' = [pc EXCEPT ![w] = l]
    BY <1>4 DEF WorkNotify, NotifyDone, Goto
  <2>4. /\ hang' \in [Session -> {"no", "up", "timeout"}]
        /\ todo' \in [Worker -> SUBSET Session]
        /\ lock' \in Thread \cup {None}
        /\ UNCHANGED <<mem, status, needFree, epolls, listed, queued, at, clients, env>>
    BY <1>1, <1>4, <2>1 DEF WorkNotify, NotifyDone, TypeOK, fields
  <2> QED BY <2>1, <2>2, <2>3, <2>4, NotifyingPlaced
<1> QED BY <1>2, <1>3, <1>4 DEF PoolThread

-----------------------------------------------------------------------------
(* The sending thread.                                                     *)
LEMMA SendPickPlaced ==
  ASSUME Calm, SInv, NEW s \in Session, SendPick(s)
  PROVE  SInv'
<1> DEFINE t == "send"
<1>0. TypeOK /\ Shape /\ Placed(s) /\ t \in Thread /\ s # None /\ t \notin Worker
  BY SessionAssumption DEF SInv, Thread
<1>1. MovesTo(t, s, t, s)
  BY <1>0 DEF SendPick, Take, Goto, MovesTo, Pc, Fits, Shape, env, fields
<1>2. TypeOK'
  BY <1>0, <1>1, Moved DEF TypeOK, SendPick, fields, epolls, clients, env
<1>3. \A u \in Session : SameFor(u)
  BY DEF SendPick, SameFor, fields, epolls, clients
<1>4. ~Keeps(t, s) /\ s \in inSend
  BY <1>0 DEF SendPick, Keeps, Shape, Fits
<1>5. Open(s) /\ Output(s)
  <2>1. ~Only(t, s)
    BY <1>0, <1>4 DEF Only
  <2> QED BY <1>0, <1>4, <2>1
          DEF Placed, Absent, Coming, Input, Reading, Closing, ClosedBy, Given, Sends
<1>6. Only(t, s)'
  BY <1>0, <1>1, <1>3, <1>5, TakesOn DEF Output, Nobody, SameFor
<1>7. Open(s)' /\ Sends(s)'
  BY <1>0, <1>1, <1>3, <1>5, <1>6, Moved DEF Open, Sends, Output, Waits, SameFor
<1> QED BY <1>0, <1>1, <1>2, <1>3, <1>7, Moved, Combine DEF Placed

(* What it does with the session in hand.                                  *)
LEMMA SendOnPlaced ==
  ASSUME Calm, SInv, NEW s \in Session, SendHang(s) \/ SendStart(s) \/ SendDone(s)
  PROVE  SInv'
<1> DEFINE t == "send"
           l == IF SendStart(s) THEN "write" ELSE "back"
<1>0. TypeOK /\ Shape /\ t \in Thread /\ s # None /\ t \notin Worker
  BY SessionAssumption DEF SInv, Thread
<1>1. at[t] = s /\ pc[t] \in {"send", "write"}
  BY DEF SendHang, SendStart, SendDone, Sending
<1>2. /\ Open(s) /\ Only(t, s) /\ Sends(s) /\ Waits(s)
      /\ \A u \in Thread : u # t => ~Keeps(u, s)
  BY <1>1, SendingPlace DEF Sends, ClosedBy
<1>3. ASSUME NEW m \in {"write", "back"}, NEW c \in {"waiting", "idle"},
             NEW z \in {"receive", "publish", "hang", "send", "die"},
             pc' = [pc EXCEPT ![t] = m], client' = [client EXCEPT ![s] = c],
             status' = [status EXCEPT ![s] = z],
             m = "write" => c = "waiting" /\ z \notin {"publish", "hang"},
             m = "back" => z \in {"hang", "die"} /\ (z = "hang" => c = "waiting"),
             UNCHANGED <<mem, hang, needFree, epolls, listed, lock, queued, at, todo, unread,
                         kind, left, env>>
      PROVE  SInv'
  <2>1. at' = [at EXCEPT ![t] = s]
    BY <1>0, <1>1, <1>3 DEF TypeOK
  <2>2. MovesTo(t, s, m, s)
    BY <1>0, <1>1, <1>3, <2>1 DEF MovesTo, Pc, Fits, env
  <2>3. TypeOK'
    BY <1>0, <1>3, <2>2, Moved DEF TypeOK, epolls, env
  <2>4. \A u \in Session : u # s => SameFor(u)
    BY <1>0, <1>3 DEF SameFor, TypeOK, epolls
  <2>5. Only(t, s)'
    BY <1>0, <1>2, <1>3, <2>2, TakesOn DEF Only
  <2>6. client'[s] = c /\ status'[s] = z /\ unread'[s] = unread[s] /\ pc'[t] = m
    BY <1>0, <1>3, <2>2, Moved DEF TypeOK
  <2>7. Open(s)' /\ Sends(s)'
    BY <1>2, <1>3, <2>5, <2>6 DEF Open, Sends, Waits, epolls
  <2> QED BY <1>0, <2>2, <2>3, <2>4, <2>7, Moved, Combine DEF Placed
<1>4. client = [client EXCEPT ![s] = "waiting"]
  BY <1>0, <1>2 DEF Waits, TypeOK
<1>5. CASE SendHang(s)
  <2>1. client' = [client EXCEPT ![s] = "waiting"]
    BY <1>4, <1>5 DEF SendHang, clients
  <2> QED BY <1>3, <1>5, <2>1 DEF SendHang, Goto, clients
<1>6. CASE SendStart(s)
  <2>1. client' = [client EXCEPT ![s] = "waiting"]
    BY <1>4, <1>6 DEF SendStart, clients
  <2>2. PICK z \in {"die", "send"} : status' = [status EXCEPT ![s] = z]
    BY <1>6 DEF SendStart
  <2> QED BY <1>3, <1>6, <2>1, <2>2 DEF SendStart, Goto, clients
<1>7. CASE SendDone(s)
  <2>1. client' = [client EXCEPT ![s] = "idle"]
    BY <1>2, <1>7 DEF SendDone, Waits, Answer
  <2> QED BY <1>3, <1>7, <2>1 DEF SendDone, Goto
<1> QED BY <1>5, <1>6, <1>7

LEMMA SendBackPlaced ==
  ASSUME Calm, SInv, NEW s \in Session, SendBack(s)
  PROVE  SInv'
<1> DEFINE t == "send"
<1>0. TypeOK /\ Shape /\ t \in Thread /\ s # None /\ t \notin Worker
  BY SessionAssumption DEF SInv, Thread
<1>1. at[t] = s /\ pc[t] = "back"
  BY DEF SendBack
<1>2. /\ Open(s) /\ Only(t, s) /\ Sends(s)
      /\ \A u \in Thread : u # t => ~Keeps(u, s)
  BY <1>1, SendingPlace DEF ClosedBy
<1>3. inSend' = inSend \ {s} /\ inRecv' = inRecv \cup {s} /\ Return(t)
  BY <1>2 DEF SendBack, AddEpollRecvEvent, RecvEventFails, Sends
<1>4. MovesTo(t, s, "loop", None)
  BY <1>0, <1>1, <1>3 DEF SendBack, Return, Goto, MovesTo, Pc, Fits, env, fields
<1>5. TypeOK'
  BY <1>0, <1>3, <1>4, Moved DEF TypeOK, SendBack, fields, clients, env
<1>6. \A u \in Session : u # s => SameFor(u)
  BY <1>3 DEF SendBack, SameFor, fields, clients
<1>7. Nobody(s)'
  BY <1>0, <1>2, <1>4, LetsGo DEF Nobody, Only, SendBack
<1>8. Open(s)' /\ Input(s)'
  BY <1>1, <1>2, <1>3, <1>7 DEF Open, Input, Sends, Waits, SendBack, fields, clients
<1> QED BY <1>0, <1>4, <1>5, <1>6, <1>8, Moved, Combine DEF Placed

LEMMA SendFailsPlaced ==
  ASSUME Calm, SInv, NEW s \in Session, SendFails(s)
  PROVE  SInv'
<1> DEFINE t == "send"
<1>0. TypeOK /\ Shape /\ t \in Thread /\ s # None /\ t \notin Worker
  BY SessionAssumption DEF SInv, Thread
<1>1. at[t] = s /\ pc[t] = "write"
  BY DEF SendFails
<1>2. at' = [at EXCEPT ![t] = s]
  BY <1>0, <1>1 DEF SendFails, TypeOK
<1>3. MovesTo(t, s, "close", s)
  BY <1>0, <1>1, <1>2 DEF SendFails, Goto, MovesTo, Pc, Fits, env, fields
<1>4. TypeOK'
  BY <1>0, <1>3, Moved DEF TypeOK, SendFails, fields, epolls, clients, env
<1>5. \A u \in Session : SameFor(u)
  BY DEF SendFails, SameFor, fields, epolls, clients
<1>6. Open(s) /\ Only(t, s) /\ Sends(s) /\ \A u \in Thread : u # t => ~Keeps(u, s)
  BY <1>1, SendingPlace DEF ClosedBy
<1>7. Only(t, s)'
  BY <1>0, <1>3, <1>5, <1>6, TakesOn DEF Only, SameFor
<1>8. Open(s)' /\ ClosedBy(t, s)'
  BY <1>0, <1>1, <1>3, <1>5, <1>6, <1>7, Moved DEF Open, Sends, ClosedBy, SameFor
<1> QED BY <1>0, <1>3, <1>4, <1>5, <1>8, Moved, Combine DEF Placed, Closing

LEMMA SenderPlaced ==
  ASSUME Calm, SInv, Sender
  PROVE  SInv'
<1>1. /\ "send" \in Thread /\ ~exit
      /\ at["send"] = None <=> pc["send"] = "loop"
      /\ at["send"] \in Session \cup {None}
  BY DEF SInv, Shape, Fits, Thread, TypeOK
<1>2. ~SendOver
  BY <1>1 DEF SendOver
<1>3. CASE Close("send")
  <2>1. pc["send"] # "loop"
    BY <1>3 DEF Close, CloseSend, CloseRecv, Erase, Decide
  <2>2. PICK s \in Session : at["send"] = s
    BY <1>1, <2>1
  <2> QED BY <1>3, <2>2, ClosePlaced
<1>4. ASSUME NEW s \in Session, SendFree(s) PROVE FALSE
  BY <1>4 DEF SendFree, SInv, Shape
<1>5. CASE \E s \in Session : \/ SendPick(s) \/ SendHang(s) \/ SendStart(s) \/ SendDone(s)
                              \/ SendFails(s) \/ SendBack(s)
  BY <1>5, SendPickPlaced, SendOnPlaced, SendFailsPlaced, SendBackPlaced
<1> QED BY <1>2, <1>3, <1>4, <1>5 DEF Sender

-----------------------------------------------------------------------------
LEMMA ReceiverPlaced ==
  ASSUME Calm, SInv, Receiver
  PROVE  SInv'
<1>1. /\ "recv" \in Thread /\ ~exit
      /\ at["recv"] = None <=> pc["recv"] = "loop"
      /\ at["recv"] \in Session \cup {None}
  BY DEF SInv, Shape, Fits, Thread, TypeOK
<1>2. ~IsRunEnds /\ \A s \in Session : ~IsRunCloses(s)
  BY <1>1 DEF IsRunEnds, IsRunCloses
<1>3. CASE Close("recv")
  <2>1. pc["recv"] # "loop"
    BY <1>3 DEF Close, CloseSend, CloseRecv, Erase, Decide
  <2>2. PICK s \in Session : at["recv"] = s
    BY <1>1, <2>1
  <2> QED BY <1>3, <2>2, ClosePlaced
<1>4. CASE \E s \in Session : \/ SweepIdle(s) \/ SweepHang(s) \/ RecvPick(s) \/ RecvEnds(s)
                              \/ RecvRequest(s) \/ RecvReply(s)
  BY <1>4, SweepIdlePlaced, SweepHangPlaced, RecvPickPlaced, RecvEndsPlaced,
     RecvRequestPlaced, RecvReplyPlaced
<1> QED BY <1>2, <1>3, <1>4 DEF Receiver

LEMMA AccepterPlaced ==
  ASSUME Calm, SInv, Accepter
  PROVE  SInv'
<1>1. /\ "accept" \in Thread /\ ~exit
      /\ at["accept"] = None <=> pc["accept"] = "loop"
      /\ at["accept"] \in Session \cup {None}
  BY DEF SInv, Shape, Fits, Thread, TypeOK
<1>2. ~AcceptOver
  BY <1>1 DEF AcceptOver
<1>3. CASE AcceptAdd
  <2>1. PICK s \in Session : at["accept"] = s
    BY <1>1, <1>3 DEF AcceptAdd
  <2> QED BY <1>3, <2>1, AcceptAddPlaced
<1> QED BY <1>2, <1>3, AcceptPlaced, RefusePlaced DEF Accepter

LEMMA InitPlaced == Calm /\ Init => SInv
<1> SUFFICES ASSUME Calm, Init PROVE SInv
  OBVIOUS
<1>1. TypeOK
  <2>1. (CHOOSE k \in Kinds : TRUE) \in Kinds
    BY DEF Calm
  <2>2. kind \in [Session -> Kinds]
    BY <2>1 DEF Init
  <2>3. left \in [Session -> 0 .. Requests] /\ queued \in [Session -> Nat]
    BY SessionAssumption DEF Init
  <2> QED BY <2>2, <2>3 DEF Init, TypeOK, Pc
<1>2. Shape
  BY DEF Init, Shape, Fits
<1>3. ASSUME NEW s \in Session PROVE Absent(s)
  <2>1. s # None
    BY SessionAssumption
  <2>2. Nobody(s)
    BY <2>1 DEF Init, Nobody, Keeps
  <2> QED BY <2>2 DEF Init, Absent
<1> QED BY <1>1, <1>2, <1>3 DEF SInv, Placed

LEMMA NextPlaced ==
  ASSUME Calm, SInv, [Next]_vars
  PROVE  SInv'
<1>1. CASE Client
  BY <1>1, ClientPlaced DEF Client
<1>2. CASE UNCHANGED vars
  <2>1. TypeOK'
    BY <1>2 DEF SInv, TypeOK, vars
  <2>2. Shape'
    BY <1>2 DEF SInv, Shape, Fits, vars
  <2>3. \A s \in Session : SameFor(s) /\ SameKeepers(s)
    BY <1>2 DEF SameFor, SameKeepers, Keeps, vars
  <2> QED BY <2>1, <2>2, <2>3, SamePlace DEF SInv
<1>3. ~Exit /\ ~PoolDestroyed
  BY DEF Exit, PoolDestroyed, Calm
<1> QED BY <1>1, <1>2, <1>3, AccepterPlaced, ReceiverPlaced, SenderPlaced, PoolPlaced DEF Next

LEMMA SessionInvariant == Calm => (Spec => []SInv)
<1> SUFFICES ASSUME Calm PROVE Spec => []SInv
  OBVIOUS
<1>1. Init => SInv
  BY InitPlaced
<1>2. SInv /\ [Next]_vars => SInv'
  BY NextPlaced
<1> QED BY <1>1, <1>2, PTL DEF Spec

(* Nobody handles a session that is freed: the claim of the comment in      *)
(* OnClosingSocket, for any number of connections and pool threads.        *)
THEOREM NoUseAfterFree == Calm => (Spec => []UseLive)
<1> SUFFICES ASSUME Calm PROVE Spec => []UseLive
  OBVIOUS
<1>1. SInv => UseLive
  <2> SUFFICES ASSUME SInv, NEW t \in Thread, at[t] # None, pc[t] # "end"
               PROVE  mem[at[t]] = "live"
    BY DEF UseLive
  <2>1. at[t] \in Session /\ Keeps(t, at[t]) /\ Placed(at[t])
    BY DEF SInv, TypeOK, Keeps
  <2> QED BY <2>1, KeeperPlace DEF Open
<1> QED BY <1>1, SessionInvariant, PTL

(* A live session has one keeper: a thread, the pool's list, or one epoll   *)
(* set, where TravelSessions finds it; a freed one has none, and is freed   *)
(* once.                                                                   *)
THEOREM OneKeeper == Calm => (Spec => []Custody)
<1> SUFFICES ASSUME Calm PROVE Spec => []Custody
  OBVIOUS
<1>1. SInv => Custody
  <2> SUFFICES ASSUME SInv, NEW s \in Session
               PROVE  IF mem[s] = "live"
                      THEN /\ Cardinality(Keepers(s)) + queued[s] <= 1
                           /\ Keepers(s) = {} /\ queued[s] = 0 =>
                                /\ s \in listed /\ (s \in inRecv) # (s \in inSend)
                                /\ s \in inRecv => status[s] # "publish"
                      ELSE s \notin listed \cup inRecv \cup inSend /\ mem[s] # "twice"
    BY DEF Custody
  <2>1. Placed(s) /\ Keepers(s) = {t \in Thread : Keeps(t, s)}
    BY DEF SInv, Keepers, Keeps
  <2>2. CASE Absent(s)
    BY <2>2 DEF Absent
  <2>3. ASSUME Nobody(s) \/ Listed1(s)
        PROVE  Keepers(s) = {} /\ Cardinality(Keepers(s)) + queued[s] <= 1
    <3>1. Keepers(s) = {}
      BY <2>1, <2>3 DEF Nobody, Listed1
    <3>2. Cardinality(Keepers(s)) = 0
      BY <3>1, FS_EmptySet
    <3> QED BY <2>3, <3>1, <3>2 DEF Nobody, Listed1
  <2>4. ASSUME NEW t \in Thread, Only(t, s)
        PROVE  Keepers(s) # {} /\ Cardinality(Keepers(s)) + queued[s] <= 1
    <3>1. Keepers(s) = {t}
      BY <2>1, <2>4 DEF Only
    <3>2. Cardinality(Keepers(s)) = 1
      BY <3>1, FS_Singleton
    <3> QED BY <2>4, <3>1, <3>2 DEF Only
  <2>5. {"accept", "recv", "send"} \subseteq Thread /\ Worker \subseteq Thread
    BY DEF Thread
  <2>6. CASE Open(s) /\ (Coming(s) \/ Reading(s) \/ Closing(s) \/ Sends(s))
    <3>1. PICK t \in Thread : Only(t, s)
      BY <2>5, <2>6 DEF Coming, Reading, Closing, ClosedBy, Sends
    <3> QED BY <2>4, <2>6, <3>1 DEF Open
  <2>7. CASE Open(s) /\ Given(s)
    <3>1. CASE Listed1(s)
      BY <2>3, <2>7, <3>1 DEF Open, Listed1
    <3>2. CASE \E w \in Worker : Only(w, s)
      BY <2>4, <2>5, <2>7, <3>2 DEF Open
    <3> QED BY <2>7, <3>1, <3>2 DEF Given
  <2>8. CASE Open(s) /\ (Input(s) \/ Output(s))
    <3>1. Nobody(s)
      BY <2>8 DEF Input, Output
    <3>2. Cardinality(Keepers(s)) + queued[s] <= 1
      BY <2>3, <3>1
    <3> QED BY <2>8, <3>2 DEF Open, Input, Output
  <2> QED BY <2>1, <2>2, <2>6, <2>7, <2>8 DEF Placed
<1> QED BY <1>1, SessionInvariant, PTL
-----------------------------------------------------------------------------
(* Without those conditions: clients that leave at any time, late answers,  *)
(* tasks refused, sessions taken for one another, a process that ends.     *)
(* What holds then holds until a freed session is handled.                 *)
Sound == UseLive /\ \A s \in listed : mem[s] = "live"

Works(w, s) == at[w] = s /\ pc[w] # "end"
Tasked(s) == queued[s] > 0 \/ \E w \in Worker : Works(w, s)
OneTask(s) ==
  /\ queued[s] <= 1 /\ (queued[s] = 1 => \A w \in Worker : ~Works(w, s))
  /\ \A v, w \in Worker : Works(v, s) /\ Works(w, s) => v = w
Owed(s) == client[s] \in {"waiting", "closed"} /\ ~unread[s]
Unsent(s) == s \notin inSend /\ at["send"] # s

(* Not accepted yet.                                                       *)
FreshOK(s) == client[s] = "none" =>
  /\ s \notin inRecv /\ s \notin inSend /\ s \notin listed /\ queued[s] = 0 /\ ~unread[s]
  /\ \A t \in Thread : at[t] # s

(* A session has one task at most, and nobody sends on it meanwhile.       *)
TaskOK(s) == Tasked(s) =>
  /\ mem[s] = "live" /\ status[s] = "publish" /\ OneTask(s) /\ Owed(s) /\ Unsent(s)

(* It is watched for output or with the sending thread because its client  *)
(* waits or has gone, or on its way back.                                  *)
SendOK(s) ==
  /\ s \in inSend => s \notin inRecv /\ (Owed(s) \/ (at["send"] = s /\ pc["send"] = "back"))
  /\ at["send"] = s => s \notin inRecv /\ (pc["send"] \in {"send", "write"} => Owed(s))
RecvOK(s) ==
  /\ at["recv"] = s /\ pc["recv"] = "reply" =>
       Owed(s) /\ Unsent(s) /\ ~Tasked(s) /\ status[s] # "hang"
  /\ at["recv"] = s /\ pc["recv"] = "recv" =>
       /\ unread[s] => Unsent(s) /\ status[s] # "hang"
       /\ ~unread[s] => client[s] = "closed"
  /\ at["accept"] = s => s \notin inRecv /\ Unsent(s)
ClientOK(s) ==
  /\ unread[s] => client[s] \in {"waiting", "closed"}
  /\ client[s] # "stray"
  /\ status[s] = "hang" => Owed(s)

AnyOK(s) == FreshOK(s) /\ TaskOK(s) /\ SendOK(s) /\ RecvOK(s) /\ ClientOK(s)

AnyTyped ==
  /\ mem \in [Session -> {"none", "live", "freed", "twice"}]
  /\ status \in [Session -> {"receive", "publish", "hang", "send", "die"}]
  /\ queued \in [Session -> Nat]
  /\ pc \in [Thread -> Pc] /\ at \in [Thread -> Session \cup {None}]
  /\ \A t \in Thread : at[t] = None <=> pc[t] \in {"loop", "over"}
  /\ client \in [Session -> {"none", "idle", "waiting", "stray", "closed"}]
  /\ unread \in [Session -> BOOLEAN]
  /\ inRecv \subseteq Session /\ inSend \subseteq Session /\ listed \subseteq Session

AnyInv == AnyTyped /\ \A s \in Session : AnyOK(s)

(* A step that leaves a session as it was.                                 *)
Alike(u) ==
  /\ mem'[u] = mem[u] /\ status'[u] = status[u] /\ queued'[u] = queued[u]
  /\ client'[u] = client[u] /\ unread'[u] = unread[u]
  /\ (u \in inRecv' <=> u \in inRecv) /\ (u \in inSend' <=> u \in inSend)
  /\ (u \in listed' => u \in listed)
  /\ \A t \in Thread : at'[t] = u => at[t] = u
  /\ \A w \in Worker : Works(w, u)' <=> Works(w, u)
  /\ at'["send"] = u <=> at["send"] = u
  /\ \A t \in {"recv", "send"} : at'[t] = u => pc'[t] = pc[t]

LEMMA Threads ==
  /\ {"accept", "recv", "send"} \subseteq Thread /\ Worker \subseteq Thread
  /\ "accept" \notin Worker /\ "recv" \notin Worker /\ "send" \notin Worker
  /\ None \notin Session
  BY SessionAssumption DEF Thread

LEMMA AlikeOK ==
  ASSUME NEW u \in Session, Alike(u), AnyOK(u)
  PROVE  AnyOK(u)'
<1>1. (Tasked(u)' <=> Tasked(u)) /\ (OneTask(u) => OneTask(u)')
  BY DEF Alike, Tasked, OneTask
<1>2. (Owed(u)' <=> Owed(u)) /\ (Unsent(u)' <=> Unsent(u))
  BY DEF Alike, Owed, Unsent
<1>3. FreshOK(u)'
  BY DEF Alike, AnyOK, FreshOK
<1>4. TaskOK(u)'
  BY <1>1, <1>2 DEF Alike, AnyOK, TaskOK
<1>5. SendOK(u)'
  BY <1>2 DEF Alike, AnyOK, SendOK
<1>6. RecvOK(u)'
  BY <1>1, <1>2, Threads DEF Alike, AnyOK, RecvOK
<1>7. ClientOK(u)'
  BY <1>2 DEF Alike, AnyOK, ClientOK
<1> QED BY <1>3, <1>4, <1>5, <1>6, <1>7 DEF AnyOK

LEMMA AnyStep ==
  ASSUME AnyInv, AnyTyped', NEW s \in Session, AnyOK(s)', \A u \in Session : u # s => Alike(u)
  PROVE  AnyInv'
  BY AlikeOK DEF AnyInv

(* A thread that goes from and to s, or from or to rest.                   *)
Turn(t, s, l, a) ==
  /\ t \in Thread /\ l \in Pc /\ a \in {s, None} /\ at[t] \in {s, None}
  /\ a = None <=> l \in {"loop", "over"}
  /\ pc' = [pc EXCEPT ![t] = l] /\ at' = [at EXCEPT ![t] = a]

LEMMA Turned ==
  ASSUME AnyTyped, NEW s \in Session, NEW t, NEW l, NEW a, Turn(t, s, l, a)
  PROVE  /\ pc'[t] = l /\ at'[t] = a
         /\ \A u \in Thread : u # t => at'[u] = at[u] /\ pc'[u] = pc[u]
         /\ pc' \in [Thread -> Pc] /\ at' \in [Thread -> Session \cup {None}]
         /\ \A u \in Thread : at'[u] = None <=> pc'[u] \in {"loop", "over"}
         /\ \A u \in Session : u # s =>
              /\ \A r \in Thread : at'[r] = u <=> at[r] = u
              /\ \A r \in Thread : at'[r] = u => pc'[r] = pc[r]
              /\ \A w \in Worker : Works(w, u)' <=> Works(w, u)
<1>1. /\ pc'[t] = l /\ at'[t] = a
      /\ \A u \in Thread : u # t => at'[u] = at[u] /\ pc'[u] = pc[u]
      /\ pc' \in [Thread -> Pc] /\ at' \in [Thread -> Session \cup {None}]
  BY Threads DEF Turn, AnyTyped
<1>2. \A u \in Thread : at'[u] = None <=> pc'[u] \in {"loop", "over"}
  BY <1>1 DEF Turn, AnyTyped
<1>3. ASSUME NEW u \in Session, u # s
      PROVE  /\ \A r \in Thread : at'[r] = u <=> at[r] = u
             /\ \A r \in Thread : at'[r] = u => pc'[r] = pc[r]
  BY <1>1, <1>3, Threads DEF Turn
<1>4. ASSUME NEW u \in Session, u # s
      PROVE  \A w \in Worker : Works(w, u)' <=> Works(w, u)
  BY <1>3, <1>4, Threads DEF Works
<1> QED BY <1>1, <1>2, <1>3, <1>4

(* Another thread's tasks stay.                                            *)
LEMMA TasksStay ==
  ASSUME AnyTyped, NEW s \in Session, NEW t, NEW l, NEW a, Turn(t, s, l, a), t \notin Worker
  PROVE  /\ \A w \in Worker : Works(w, s)' <=> Works(w, s)
         /\ queued'[s] = queued[s] => (Tasked(s)' <=> Tasked(s)) /\ (OneTask(s)' <=> OneTask(s))
<1>1. \A w \in Worker : Works(w, s)' <=> Works(w, s)
  BY Turned, Threads DEF Works
<1>2. queued'[s] = queued[s] => (Tasked(s)' <=> Tasked(s)) /\ (OneTask(s)' <=> OneTask(s))
  BY <1>1 DEF Tasked, OneTask
<1> QED BY <1>1, <1>2

LEMMA NobodyMoves ==
  ASSUME UNCHANGED <<pc, at>>, NEW s
  PROVE  /\ \A t \in Thread : at'[t] = at[t] /\ pc'[t] = pc[t]
         /\ \A w \in Worker : Works(w, s)' <=> Works(w, s)
         /\ queued'[s] = queued[s] => (Tasked(s)' <=> Tasked(s)) /\ (OneTask(s)' <=> OneTask(s))
  BY DEF Works, Tasked, OneTask

-----------------------------------------------------------------------------
(* Clients and the accept thread.                                          *)
LEMMA AskAny ==
  ASSUME AnyInv, NEW s \in Session, Ask(s)
  PROVE  AnyInv'
<1>0. AnyTyped /\ AnyOK(s)
  BY DEF AnyInv
<1>1. /\ UNCHANGED <<mem, status, queued, pc, at, inRecv, inSend, listed>>
      /\ client[s] = "idle" /\ client' = [client EXCEPT ![s] = "waiting"]
      /\ unread' = [unread EXCEPT ![s] = TRUE]
  BY DEF Ask, fields, epolls
<1>2. AnyTyped'
  BY <1>0, <1>1 DEF AnyTyped
<1>3. client'[s] = "waiting" /\ unread'[s]
      /\ \A u \in Session : u # s => client'[u] = client[u] /\ unread'[u] = unread[u]
  BY <1>0, <1>1 DEF AnyTyped
<1>4. \A u \in Session : u # s => Alike(u)
  BY <1>1, <1>3 DEF Alike, Works
<1>5. ~Owed(s) /\ ~Tasked(s) /\ status[s] # "hang"
  BY <1>0, <1>1 DEF AnyOK, Owed, TaskOK, ClientOK
<1>6. ~Tasked(s)' /\ (Unsent(s)' <=> Unsent(s))
  BY <1>1, <1>5 DEF Tasked, Works, Unsent
<1>7. AnyOK(s)'
  BY <1>0, <1>1, <1>3, <1>5, <1>6 DEF AnyOK, FreshOK, TaskOK, SendOK, RecvOK, ClientOK
<1> QED BY <1>2, <1>4, <1>7, AnyStep

LEMMA HangUpAny ==
  ASSUME AnyInv, NEW s \in Session, HangUp(s) \/ Refuse(s)
  PROVE  AnyInv'
<1>0. AnyTyped /\ AnyOK(s)
  BY DEF AnyInv
<1>1. /\ UNCHANGED <<mem, status, queued, at, inRecv, inSend, listed, unread>>
      /\ client[s] \in {"idle", "waiting", "none"} /\ client' = [client EXCEPT ![s] = "closed"]
  BY DEF HangUp, Refuse, fields, epolls
<1>2. /\ pc' \in [Thread -> Pc]
      /\ \A t \in Thread : pc'[t] = pc[t] \/ (t = "accept" /\ pc[t] = "loop" /\ pc'[t] = "over")
  BY <1>0, Threads DEF HangUp, Refuse, Goto, AfterPoll, AnyTyped, Pc
<1>3. AnyTyped'
  BY <1>0, <1>1, <1>2 DEF AnyTyped
<1>4. client'[s] = "closed" /\ \A u \in Session : u # s => client'[u] = client[u]
  BY <1>0, <1>1 DEF AnyTyped
<1>5. \A u \in Session : \A w \in Worker : Works(w, u)' <=> Works(w, u)
  BY <1>1, <1>2, Threads DEF Works
<1>6. \A u \in Session : u # s => Alike(u)
  BY <1>1, <1>2, <1>4, <1>5, Threads DEF Alike
<1>7. (Tasked(s)' <=> Tasked(s)) /\ (OneTask(s)' <=> OneTask(s)) /\ (Unsent(s)' <=> Unsent(s))
      /\ (Owed(s) => Owed(s)')
  BY <1>1, <1>4, <1>5 DEF Tasked, OneTask, Unsent, Owed
<1>8. pc'["recv"] = pc["recv"] /\ pc'["send"] = pc["send"]
  BY <1>2, Threads
<1>9. AnyOK(s)'
  BY <1>0, <1>1, <1>4, <1>7, <1>8 DEF AnyOK, FreshOK, TaskOK, SendOK, RecvOK, ClientOK
<1> QED BY <1>3, <1>6, <1>9, AnyStep

LEMMA AcceptAny ==
  ASSUME AnyInv, NEW s \in Session, Accept(s)
  PROVE  AnyInv'
<1>0. AnyTyped /\ AnyOK(s)
  BY DEF AnyInv
<1>1. Turn("accept", s, "add", s)
  BY <1>0, Threads DEF Accept, Take, Goto, Turn, Pc, AnyTyped
<1>2. /\ UNCHANGED <<queued, inRecv, inSend, unread>>
      /\ client[s] = "none" /\ client' = [client EXCEPT ![s] = "idle"]
      /\ mem' = [mem EXCEPT ![s] = "live"] /\ status' = [status EXCEPT ![s] = "receive"]
      /\ listed' \subseteq listed \cup {s}
  BY DEF Accept, Inserted, epolls
<1>3. AnyTyped'
  <2>1. /\ mem' \in [Session -> {"none", "live", "freed", "twice"}]
        /\ status' \in [Session -> {"receive", "publish", "hang", "send", "die"}]
        /\ client' \in [Session -> {"none", "idle", "waiting", "stray", "closed"}]
        /\ listed' \subseteq Session
    BY <1>0, <1>2 DEF AnyTyped
  <2> QED BY <1>0, <1>1, <1>2, <2>1, Turned DEF AnyTyped
<1>4. /\ client'[s] = "idle" /\ status'[s] = "receive"
      /\ \A u \in Session : u # s => client'[u] = client[u] /\ status'[u] = status[u] /\ mem'[u] = mem[u]
  BY <1>0, <1>2 DEF AnyTyped
<1>5. \A u \in Session : u # s => Alike(u)
  BY <1>0, <1>1, <1>2, <1>4, Turned, Threads DEF Alike
<1>6. /\ s \notin inRecv /\ s \notin inSend /\ queued[s] = 0 /\ ~unread[s]
      /\ \A t \in Thread : at[t] # s
  BY <1>0, <1>2 DEF AnyOK, FreshOK
<1>7. ~Tasked(s)' /\ at'["send"] # s /\ at'["recv"] # s
  BY <1>0, <1>1, <1>2, <1>6, Turned, Threads DEF Tasked, Works
<1>8. AnyOK(s)'
  BY <1>2, <1>4, <1>6, <1>7 DEF AnyOK, FreshOK, TaskOK, SendOK, RecvOK, ClientOK, Unsent
<1> QED BY <1>3, <1>5, <1>8, AnyStep

LEMMA AcceptAddAny ==
  ASSUME AnyInv, AcceptAdd
  PROVE  AnyInv'
<1>1. PICK s \in Session : at["accept"] = s
  BY Threads DEF AnyInv, AnyTyped, AcceptAdd
<1>0. AnyTyped /\ AnyOK(s)
  BY DEF AnyInv
<1>2. PICK l \in {"loop", "over"} : Turn("accept", s, l, None)
  BY <1>0, <1>1, Threads DEF AcceptAdd, Take, Goto, AfterPoll, Turn, Pc
<1>3. /\ UNCHANGED <<mem, status, queued, client, unread, inSend, listed>>
      /\ inRecv' = inRecv \cup {s}
  BY <1>1 DEF AcceptAdd, fields, clients
<1>4. AnyTyped'
  BY <1>0, <1>2, <1>3, Turned DEF AnyTyped
<1>5. \A u \in Session : u # s => Alike(u)
  BY <1>0, <1>2, <1>3, Turned, Threads DEF Alike
<1>6. Unsent(s) /\ client[s] # "none"
  BY <1>0, <1>1, Threads DEF AnyOK, RecvOK, FreshOK
<1>7. /\ at'["accept"] # s /\ at'["recv"] = at["recv"] /\ pc'["recv"] = pc["recv"]
      /\ at'["send"] = at["send"] /\ pc'["send"] = pc["send"]
      /\ (Tasked(s)' <=> Tasked(s)) /\ (OneTask(s)' <=> OneTask(s))
  BY <1>0, <1>2, <1>3, Turned, TasksStay, Threads
<1>8. (Owed(s)' <=> Owed(s)) /\ Unsent(s)'
  BY <1>3, <1>6, <1>7 DEF Owed, Unsent
<1>9. AnyOK(s)'
  BY <1>0, <1>3, <1>6, <1>7, <1>8 DEF AnyOK, FreshOK, TaskOK, SendOK, RecvOK, ClientOK, Unsent
<1> QED BY <1>4, <1>5, <1>9, AnyStep
-----------------------------------------------------------------------------
(* Leaving and freeing.                                                    *)

(* The receiving or the sending thread lets go of s, wholly or on its way. *)
LEMMA LeavesAny ==
  ASSUME AnyInv, NEW s \in Session, NEW t \in {"recv", "send"}, NEW l, NEW a, Turn(t, s, l, a),
         l \notin {"recv", "reply", "send", "write", "back"}, at[t] = s,
         UNCHANGED <<mem, status, queued, client, unread>>,
         inRecv' \subseteq inRecv, inSend' \subseteq inSend, listed' \subseteq listed,
         inRecv \subseteq inRecv' \cup {s}, inSend \subseteq inSend' \cup {s},
         t = "send" /\ pc[t] = "back" => s \notin inSend'
  PROVE  AnyInv'
<1>0. AnyTyped /\ AnyOK(s) /\ t \notin Worker
  BY Threads DEF AnyInv
<1>1. AnyTyped'
  BY <1>0, Turned DEF AnyTyped
<1>2. \A u \in Session : u # s => Alike(u)
  BY <1>0, Turned, Threads DEF Alike
<1>3. (Tasked(s)' <=> Tasked(s)) /\ (OneTask(s)' <=> OneTask(s)) /\ (Owed(s)' <=> Owed(s))
  BY <1>0, TasksStay DEF Owed
<1>4. /\ pc'[t] = l /\ at'[t] = a
      /\ \A u \in Thread : u # t => at'[u] = at[u] /\ pc'[u] = pc[u]
      /\ \A u \in Thread : at'[u] = s => at[u] = s
  BY <1>0, Turned
<1>5. Unsent(s) => Unsent(s)'
  BY <1>4, Threads DEF Unsent
<1>6. FreshOK(s)' /\ TaskOK(s)' /\ ClientOK(s)'
  BY <1>0, <1>3, <1>4, <1>5 DEF AnyOK, FreshOK, TaskOK, ClientOK
<1>7. SendOK(s)'
  <2>1. CASE t = "send"
    BY <1>0, <1>3, <1>4, <2>1 DEF AnyOK, SendOK
  <2>2. CASE t = "recv"
    <3>1. at'["send"] = at["send"] /\ pc'["send"] = pc["send"]
      BY <1>4, <2>2, Threads
    <3> QED BY <1>0, <1>3, <3>1 DEF AnyOK, SendOK
  <2> QED BY <2>1, <2>2
<1>8. RecvOK(s)'
  <2>1. at'["recv"] = s /\ pc'["recv"] \in {"recv", "reply"} => pc'["recv"] = pc["recv"] /\ at["recv"] = s
    BY <1>4, Threads
  <2>2. at'["accept"] = s => at["accept"] = s
    BY <1>4, Threads
  <2> QED BY <1>0, <1>3, <1>5, <2>1, <2>2 DEF AnyOK, RecvOK
<1> QED BY <1>1, <1>2, <1>6, <1>7, <1>8, AnyStep DEF AnyOK

LEMMA FreedTyped ==
  ASSUME AnyTyped, NEW s \in Session, FreeSession(s)
  PROVE  /\ mem' \in [Session -> {"none", "live", "freed", "twice"}]
         /\ client' \in [Session -> {"none", "idle", "waiting", "stray", "closed"}]
         /\ unread' \in [Session -> BOOLEAN]
         /\ inRecv' \subseteq Session /\ inSend' \subseteq Session
         /\ client'[s] = "closed" /\ ~unread'[s] /\ s \notin inRecv' /\ s \notin inSend'
         /\ \A u \in Session : u # s =>
              /\ mem'[u] = mem[u] /\ client'[u] = client[u] /\ unread'[u] = unread[u]
              /\ (u \in inRecv' <=> u \in inRecv) /\ (u \in inSend' <=> u \in inSend)
<1>1. mem' \in [Session -> {"none", "live", "freed", "twice"}]
  BY DEF FreeSession, AnyTyped
<1> QED BY <1>1 DEF FreeSession, AnyTyped

LEMMA FreedOK ==
  ASSUME AnyTyped, NEW s \in Session, AnyOK(s), FreeSession(s), ~Tasked(s)', status'[s] = status[s],
         \A t \in {"accept", "recv", "send"} : at'[t] = s => at[t] = s /\ pc'[t] = pc[t]
  PROVE  AnyOK(s)'
<1>1. client'[s] = "closed" /\ ~unread'[s] /\ s \notin inRecv' /\ s \notin inSend'
  BY FreedTyped
<1>2. Owed(s)' /\ (Unsent(s) => Unsent(s)')
  BY <1>1 DEF Owed, Unsent
<1>3. FreshOK(s)' /\ TaskOK(s)' /\ SendOK(s)' /\ ClientOK(s)'
  BY <1>1, <1>2 DEF FreshOK, TaskOK, SendOK, ClientOK
<1>4. RecvOK(s)'
  BY <1>1, <1>2 DEF AnyOK, RecvOK
<1> QED BY <1>3, <1>4 DEF AnyOK

LEMMA CloseAny ==
  ASSUME AnyInv, NEW t \in {"recv", "send"}, Close(t)
  PROVE  AnyInv'
<1>0. AnyTyped /\ t \in Thread /\ t \notin Worker
  BY Threads DEF AnyInv
<1>1. pc[t] \in {"close", "close2", "erase", "drop", "drop2", "decide"}
  BY DEF Close, CloseSend, CloseRecv, Erase, Decide
<1>2. PICK s \in Session : at[t] = s
  BY <1>0, <1>1 DEF AnyTyped
<1>3. at = [at EXCEPT ![t] = s]
  BY <1>0, <1>2 DEF AnyTyped
<1>4. CASE CloseSend(t) \/ CloseRecv(t) \/ Erase(t)
  <2>1. PICK l \in {"close2", "drop2", "erase", "decide"} : Goto(t, l)
    BY <1>4 DEF CloseSend, CloseRecv, Erase
  <2>2. Turn(t, s, l, s)
    BY <1>0, <1>2, <1>3, <1>4, <2>1, Threads DEF Turn, Goto, CloseSend, CloseRecv, Erase, Pc
  <2>3. /\ UNCHANGED <<mem, status, queued, client, unread>>
        /\ inRecv' \subseteq inRecv /\ inSend' \subseteq inSend /\ listed' \subseteq listed
        /\ inRecv \subseteq inRecv' \cup {s} /\ inSend \subseteq inSend' \cup {s}
    BY <1>2, <1>4 DEF CloseSend, CloseRecv, Erase, Erased, fields, epolls, clients
  <2> QED BY <1>1, <1>2, <2>2, <2>3, LeavesAny
<1>5. CASE Decide(t)
  <2>1. Turn(t, s, "loop", None) /\ UNCHANGED <<status, queued, listed>>
    BY <1>0, <1>2, <1>5, Threads DEF Decide, Return, Goto, Turn, Pc
  <2>2. CASE status[s] = "publish"
    <3>1. UNCHANGED <<mem, client, unread, epolls>>
      BY <1>2, <1>5, <2>2 DEF Decide
    <3> QED BY <1>1, <1>2, <2>1, <3>1, LeavesAny DEF epolls
  <2>3. CASE status[s] # "publish"
    <3>1. FreeSession(s) /\ AnyOK(s)
      BY <1>2, <1>5, <2>3 DEF Decide, AnyInv
    <3>2. ~Tasked(s)'
      BY <1>0, <2>1, <2>3, <3>1, TasksStay DEF AnyOK, TaskOK
    <3>3. AnyTyped'
      BY <1>0, <2>1, <3>1, FreedTyped, Turned DEF AnyTyped
    <3>4. \A u \in Session : u # s => Alike(u)
      BY <1>0, <2>1, <3>1, FreedTyped, Turned, Threads DEF Alike
    <3>5. \A r \in {"accept", "recv", "send"} : at'[r] = s => at[r] = s /\ pc'[r] = pc[r]
      BY <1>0, <2>1, Turned, Threads
    <3> QED BY <1>0, <2>1, <3>1, <3>2, <3>3, <3>4, <3>5, FreedOK, AnyStep
  <2> QED BY <2>2, <2>3
<1> QED BY <1>4, <1>5 DEF Close

LEMMA SweepIdleAny ==
  ASSUME AnyInv, NEW s \in Session, SweepIdle(s)
  PROVE  AnyInv'
<1>0. AnyTyped /\ AnyOK(s)
  BY DEF AnyInv
<1>1. /\ FreeSession(s) /\ UNCHANGED <<status, queued, pc, at>> /\ listed' = listed \ {s}
      /\ status[s] # "publish"
  BY DEF SweepIdle, Sweepable
<1>2. ~Tasked(s)'
  BY <1>0, <1>1, NobodyMoves DEF AnyOK, TaskOK
<1>3. AnyTyped'
  BY <1>0, <1>1, FreedTyped DEF AnyTyped
<1>4. \A u \in Session : u # s => Alike(u)
  BY <1>0, <1>1, FreedTyped, NobodyMoves DEF Alike
<1> QED BY <1>0, <1>1, <1>2, <1>3, <1>4, FreedOK, AnyStep

(* Only a session that rests hangs too long.                               *)
LEMMA SweepHangAny ==
  ASSUME AnyInv, Prompt, Sound, NEW s \in Session, SweepHang(s)
  PROVE  AnyInv'
<1>0. AnyTyped /\ AnyOK(s)
  BY DEF AnyInv
<1>1. /\ UNCHANGED <<mem, pc, at, inRecv, inSend, listed, client, unread>>
      /\ status[s] = "hang" /\ status' = [status EXCEPT ![s] = "publish"]
      /\ queued' = [queued EXCEPT ![s] = @ + 1] \/ queued' = queued
  BY DEF SweepHang, AddTask, AddTaskFails, epolls, clients
<1>2. mem[s] = "live" /\ s \notin inSend /\ ~unread[s] /\ \A t \in Thread : at[t] # s
  BY DEF SweepHang, Sweepable, Sound, TimesOut, Rests, Handled
<1>3. /\ status'[s] = "publish" /\ \A u \in Session : u # s => status'[u] = status[u]
      /\ queued'[s] \in {queued[s], queued[s] + 1} /\ \A u \in Session : u # s => queued'[u] = queued[u]
      /\ status' \in [Session -> {"receive", "publish", "hang", "send", "die"}]
      /\ queued' \in [Session -> Nat]
  BY <1>0, <1>1 DEF AnyTyped
<1>4. AnyTyped'
  BY <1>0, <1>1, <1>3 DEF AnyTyped
<1>5. \A u \in Session : u # s => Alike(u)
  BY <1>1, <1>3, NobodyMoves DEF Alike
<1>6. queued[s] = 0 /\ Owed(s)
  BY <1>0, <1>1 DEF AnyOK, TaskOK, Tasked, ClientOK, AnyTyped
<1>7. OneTask(s)' /\ Owed(s)' /\ Unsent(s)'
  BY <1>1, <1>2, <1>3, <1>6, Threads DEF OneTask, Works, Owed, Unsent
<1>8. AnyOK(s)'
  BY <1>0, <1>1, <1>2, <1>3, <1>7, Threads DEF AnyOK, FreshOK, TaskOK, SendOK, RecvOK, ClientOK, Owed
<1> QED BY <1>4, <1>5, <1>8, AnyStep

-----------------------------------------------------------------------------
(* The receiving thread.                                                   *)
LEMMA RecvPickAny ==
  ASSUME AnyInv, NEW s \in Session, RecvPick(s) \/ IsRunCloses(s)
  PROVE  AnyInv'
<1>0. AnyTyped /\ AnyOK(s)
  BY DEF AnyInv
<1>1. PICK l \in {"recv", "drop"} : Turn("recv", s, l, s) /\ (RecvPick(s) \/ l = "drop")
  BY <1>0, Threads DEF RecvPick, IsRunCloses, Take, Goto, Turn, Pc, AnyTyped
<1>2. UNCHANGED <<mem, status, queued, client, unread, inRecv, inSend, listed>>
  BY DEF RecvPick, IsRunCloses, fields, epolls, clients
<1>3. AnyTyped'
  BY <1>0, <1>1, <1>2, Turned DEF AnyTyped
<1>4. \A u \in Session : u # s => Alike(u)
  BY <1>0, <1>1, <1>2, Turned, Threads DEF Alike
<1>5. /\ pc'["recv"] = l /\ at'["recv"] = s /\ at'["accept"] = at["accept"]
      /\ at'["send"] = at["send"] /\ pc'["send"] = pc["send"]
      /\ (Tasked(s)' <=> Tasked(s)) /\ (OneTask(s)' <=> OneTask(s))
      /\ \A t \in Thread : t # "recv" => at'[t] = at[t]
  BY <1>0, <1>1, <1>2, Turned, TasksStay, Threads
<1>6. (Owed(s)' <=> Owed(s)) /\ (Unsent(s)' <=> Unsent(s))
  BY <1>2, <1>5 DEF Owed, Unsent
<1>7. l = "recv" => s \in inRecv /\ (unread[s] \/ client[s] = "closed")
  BY <1>1 DEF RecvPick
<1>8. s \in inRecv => Unsent(s)
  BY <1>0 DEF AnyOK, SendOK, Unsent
<1>9. client[s] # "none"
  BY <1>0, <1>1, <1>7 DEF AnyOK, FreshOK, IsRunCloses, RecvPick
<1>10. AnyOK(s)'
  BY <1>0, <1>2, <1>5, <1>6, <1>7, <1>8, <1>9
     DEF AnyOK, FreshOK, TaskOK, SendOK, RecvOK, ClientOK, Owed
<1> QED BY <1>3, <1>4, <1>10, AnyStep

LEMMA RecvEndsAny ==
  ASSUME AnyInv, NEW s \in Session, RecvEnds(s)
  PROVE  AnyInv'
<1>1. at = [at EXCEPT !["recv"] = s]
  BY DEF AnyInv, AnyTyped, RecvEnds, Receiving
<1>2. Turn("recv", s, "close", s)
  BY <1>1, Threads DEF RecvEnds, Receiving, Goto, Turn, Pc
<1>3. UNCHANGED <<mem, status, queued, client, unread, inRecv, inSend, listed>>
  BY DEF RecvEnds, fields, epolls, clients
<1> QED BY <1>2, <1>3, LeavesAny DEF RecvEnds, Receiving

LEMMA RecvReplyAny ==
  ASSUME AnyInv, NEW s \in Session, RecvReply(s)
  PROVE  AnyInv'
<1>0. AnyTyped /\ AnyOK(s)
  BY DEF AnyInv
<1>1. Turn("recv", s, "loop", None) /\ at["recv"] = s /\ pc["recv"] = "reply"
  BY Threads DEF RecvReply, Return, Goto, Turn, Pc
<1>2. /\ UNCHANGED <<mem, status, queued, client, unread, listed>>
      /\ s \in inRecv /\ inRecv' = inRecv \ {s} /\ inSend' = inSend \cup {s}
  BY DEF RecvReply, AddEpollSendEvent, fields, clients
<1>3. AnyTyped'
  BY <1>0, <1>1, <1>2, Turned DEF AnyTyped
<1>4. \A u \in Session : u # s => Alike(u)
  BY <1>0, <1>1, <1>2, Turned, Threads DEF Alike
<1>5. /\ at'["recv"] # s /\ at'["accept"] = at["accept"]
      /\ at'["send"] = at["send"] /\ pc'["send"] = pc["send"]
      /\ (Tasked(s)' <=> Tasked(s))
  BY <1>0, <1>1, <1>2, Turned, TasksStay, Threads
<1>6. Owed(s) /\ ~Tasked(s) /\ Unsent(s) /\ client[s] # "none"
  BY <1>0, <1>1, Threads DEF AnyOK, RecvOK, FreshOK
<1>7. AnyOK(s)'
  BY <1>0, <1>2, <1>5, <1>6
     DEF AnyOK, FreshOK, TaskOK, SendOK, RecvOK, ClientOK, Owed, Unsent
<1> QED BY <1>3, <1>4, <1>7, AnyStep

LEMMA RecvRequestAny ==
  ASSUME AnyInv, Sound, NEW s \in Session, RecvRequest(s)
  PROVE  AnyInv'
<1>0. AnyTyped /\ AnyOK(s)
  BY DEF AnyInv
<1>1. /\ at["recv"] = s /\ pc["recv"] = "recv" /\ unread[s]
      /\ unread' = [unread EXCEPT ![s] = FALSE]
      /\ UNCHANGED <<mem, client, inRecv, inSend, listed>>
  BY DEF RecvRequest, Receiving, epolls
<1>2. /\ Unsent(s) /\ ~Tasked(s) /\ client[s] \in {"waiting", "closed"} /\ status[s] # "hang"
      /\ mem[s] = "live"
  BY <1>0, <1>1, Threads DEF AnyOK, RecvOK, TaskOK, Owed, ClientOK, Sound, UseLive
<1>3. PICK l \in {"reply", "loop"} :
        /\ Turn("recv", s, l, IF l = "loop" THEN None ELSE s)
        /\ \/ UNCHANGED <<status, queued>>
           \/ status' = [status EXCEPT ![s] = "publish"] /\ queued' = queued
           \/ /\ status' = [status EXCEPT ![s] = "publish"] /\ queued' = [queued EXCEPT ![s] = @ + 1]
              /\ l = "loop"
  <2>1. at = [at EXCEPT !["recv"] = s]
    BY <1>0, <1>1 DEF AnyTyped
  <2> QED BY <1>1, <2>1, Threads
          DEF RecvRequest, Show, Return, Goto, AddTask, AddTaskFails, Turn, Pc
<1>4. /\ ~unread'[s] /\ \A u \in Session : u # s => unread'[u] = unread[u]
      /\ status'[s] \in {status[s], "publish"} /\ \A u \in Session : u # s => status'[u] = status[u]
      /\ queued[s] = 0 /\ queued'[s] \in {0, 1} /\ \A u \in Session : u # s => queued'[u] = queued[u]
      /\ queued'[s] = 1 => status'[s] = "publish" /\ l = "loop"
      /\ status' \in [Session -> {"receive", "publish", "hang", "send", "die"}]
      /\ queued' \in [Session -> Nat] /\ unread' \in [Session -> BOOLEAN]
  <2>1. queued[s] = 0
    BY <1>0, <1>2 DEF Tasked, AnyTyped
  <2> QED BY <1>0, <1>1, <1>3, <2>1 DEF AnyTyped
<1>5. AnyTyped'
  BY <1>0, <1>1, <1>3, <1>4, Turned DEF AnyTyped
<1>6. \A u \in Session : u # s => Alike(u)
  BY <1>0, <1>1, <1>3, <1>4, Turned, Threads DEF Alike
<1>7. /\ pc'["recv"] = l /\ (l = "loop" => at'["recv"] # s)
      /\ at'["send"] = at["send"] /\ pc'["send"] = pc["send"] /\ at'["accept"] = at["accept"]
      /\ \A w \in Worker : ~Works(w, s)'
  BY <1>0, <1>2, <1>3, Turned, TasksStay, Threads DEF Tasked
<1>8. Owed(s)' /\ Unsent(s)' /\ OneTask(s)' /\ (Tasked(s)' => queued'[s] = 1)
  BY <1>1, <1>2, <1>4, <1>7 DEF Owed, Unsent, OneTask, Tasked
<1>9. FreshOK(s)' /\ TaskOK(s)' /\ SendOK(s)' /\ ClientOK(s)'
  BY <1>0, <1>1, <1>2, <1>4, <1>7, <1>8 DEF AnyOK, FreshOK, TaskOK, SendOK, ClientOK, Unsent
<1>10. RecvOK(s)'
  BY <1>0, <1>1, <1>2, <1>4, <1>7, <1>8 DEF AnyOK, RecvOK
<1> QED BY <1>5, <1>6, <1>9, <1>10, AnyStep DEF AnyOK
-----------------------------------------------------------------------------
(* The pool.                                                               *)

(* A worker's move that changes nothing of any session.                    *)
LEMMA WorkOnAny ==
  ASSUME AnyInv, NEW w \in Worker,
         WorkAnswer(w) \/ WorkHang(w) \/ WorkNotify(w) \/ NotifyDone(w) \/ WorkEnd(w)
  PROVE  AnyInv'
<1>0. AnyTyped /\ w \in Thread /\ w \notin {"accept", "recv", "send"}
  BY Threads DEF AnyInv
<1>1. UNCHANGED <<mem, status, queued, client, unread, inRecv, inSend, listed>>
  BY DEF WorkAnswer, WorkHang, WorkNotify, NotifyDone, WorkEnd, fields, epolls, clients
<1>2. PICK s \in Session : at[w] = s
  BY <1>0 DEF WorkAnswer, WorkHang, WorkNotify, NotifyDone, WorkEnd, AnyTyped
<1>3. PICK l \in Pc \ {"over", "end"}, a \in {s, None} :
        Turn(w, s, l, a) /\ (l = "loop" <=> pc[w] = "end")
  <2>1. CASE WorkEnd(w)
    BY <1>0, <1>2, <2>1, Threads DEF WorkEnd, Return, Goto, Turn, Pc
  <2>2. CASE WorkAnswer(w) \/ WorkHang(w) \/ WorkNotify(w) \/ NotifyDone(w)
    <3>1. at = [at EXCEPT ![w] = s]
      BY <1>0, <1>2 DEF AnyTyped
    <3> QED BY <1>0, <1>2, <2>2, <3>1, Threads
            DEF WorkAnswer, WorkHang, WorkNotify, NotifyDone, Goto, Turn, Pc
  <2> QED BY <2>1, <2>2
<1>4. AnyTyped'
  BY <1>0, <1>1, <1>3, Turned DEF AnyTyped
<1>5. \A u \in Session : u # s => Alike(u)
  BY <1>0, <1>1, <1>3, Turned, Threads DEF Alike
<1>6. /\ pc'[w] = l /\ at'[w] = a
      /\ \A r \in Thread : r # w => at'[r] = at[r] /\ pc'[r] = pc[r]
  BY <1>0, <1>3, Turned
<1>7. a = None <=> l = "loop"
  BY <1>3 DEF Turn
<1>8. \A v \in Worker : Works(v, s)' <=> Works(v, s)
  BY <1>0, <1>2, <1>3, <1>6, <1>7, Threads DEF Works
<1>9. Alike(s)
  BY <1>0, <1>1, <1>2, <1>6, <1>8, Threads DEF Alike
<1> QED BY <1>4, <1>5, <1>9, AnyStep, AlikeOK DEF AnyInv

LEMMA WorkTakeAny ==
  ASSUME AnyInv, NEW w \in Worker, NEW s \in Session, WorkTake(w, s)
  PROVE  AnyInv'
<1>0. AnyTyped /\ AnyOK(s) /\ w \in Thread /\ w \notin {"accept", "recv", "send"}
  BY Threads DEF AnyInv
<1>1. Turn(w, s, "work", s) /\ at[w] = None
  BY <1>0, Threads DEF WorkTake, Take, Goto, Turn, Pc, AnyTyped
<1>2. /\ UNCHANGED <<mem, status, client, unread, inRecv, inSend, listed>>
      /\ queued[s] > 0 /\ queued' = [queued EXCEPT ![s] = @ - 1]
  BY DEF WorkTake, fields, epolls, clients
<1>3. /\ queued' \in [Session -> Nat] /\ queued'[s] = queued[s] - 1
      /\ \A u \in Session : u # s => queued'[u] = queued[u]
  BY <1>0, <1>2 DEF AnyTyped
<1>4. AnyTyped'
  BY <1>0, <1>1, <1>2, <1>3, Turned DEF AnyTyped
<1>5. \A u \in Session : u # s => Alike(u)
  BY <1>0, <1>1, <1>2, <1>3, Turned, Threads DEF Alike
<1>6. /\ pc'[w] = "work" /\ at'[w] = s
      /\ \A r \in Thread : r # w => at'[r] = at[r] /\ pc'[r] = pc[r]
  BY <1>0, <1>1, Turned
<1>7. Tasked(s) /\ queued[s] \in Nat
  BY <1>0, <1>2 DEF Tasked, AnyTyped
<1>8. queued[s] = 1 /\ \A v \in Worker : ~Works(v, s)
  BY <1>0, <1>2, <1>7 DEF AnyOK, TaskOK, OneTask
<1>9. OneTask(s)'
  BY <1>3, <1>6, <1>8, Threads DEF OneTask, Works
<1>10. /\ at'["recv"] = at["recv"] /\ pc'["recv"] = pc["recv"] /\ at'["accept"] = at["accept"]
       /\ at'["send"] = at["send"] /\ pc'["send"] = pc["send"]
  BY <1>0, <1>6, Threads
<1>11. (Owed(s)' <=> Owed(s)) /\ (Unsent(s)' <=> Unsent(s)) /\ client[s] # "none"
  BY <1>0, <1>2, <1>7, <1>10 DEF AnyOK, TaskOK, Owed, Unsent
<1>12. AnyOK(s)'
  BY <1>0, <1>2, <1>7, <1>9, <1>10, <1>11
     DEF AnyOK, FreshOK, TaskOK, SendOK, RecvOK, ClientOK
<1> QED BY <1>4, <1>5, <1>12, AnyStep

(* The task of s ends.                                                     *)
LEMMA LastTask ==
  ASSUME AnyTyped, NEW w \in Worker, NEW s \in Session, AnyOK(s), Works(w, s),
         queued' = queued, Turn(w, s, "end", s)
  PROVE  Tasked(s) /\ ~Tasked(s)'
<1>1. Tasked(s) /\ OneTask(s) /\ queued[s] \in Nat
  BY DEF Tasked, AnyOK, TaskOK, AnyTyped
<1>2. queued[s] = 0 /\ \A v \in Worker : v # w => ~Works(v, s)
  BY <1>1 DEF OneTask
<1>3. \A v \in Worker : ~Works(v, s)'
  BY <1>2, Turned, Threads DEF Works
<1> QED BY <1>1, <1>2, <1>3 DEF Tasked

LEMMA GenerateAny ==
  ASSUME AnyInv, NEW w \in Worker, Generate(w)
  PROVE  AnyInv'
<1>0. AnyTyped /\ w \in Thread /\ w \notin {"accept", "recv", "send"}
  BY Threads DEF AnyInv
<1>1. PICK s \in Session : at[w] = s
  BY <1>0 DEF Generate, AnyTyped
<1>2. AnyOK(s) /\ at = [at EXCEPT ![w] = s] /\ UNCHANGED <<status, queued, listed>>
  BY <1>0, <1>1 DEF AnyInv, AnyTyped, Generate
<1>3. CASE FreeSession(s) /\ Goto(w, "end")
  <2>1. Turn(w, s, "end", s) /\ Works(w, s)
    BY <1>0, <1>1, <1>2, <1>3, Threads DEF Generate, Goto, Turn, Pc, Works
  <2>2. ~Tasked(s)'
    BY <1>0, <1>2, <2>1, LastTask
  <2>3. AnyTyped'
    BY <1>0, <1>2, <1>3, <2>1, FreedTyped, Turned DEF AnyTyped
  <2>4. \A u \in Session : u # s => Alike(u)
    BY <1>0, <1>2, <1>3, <2>1, FreedTyped, Turned, Threads DEF Alike
  <2>5. \A r \in {"accept", "recv", "send"} : at'[r] = s => at[r] = s /\ pc'[r] = pc[r]
    BY <1>0, <2>1, Turned, Threads
  <2> QED BY <1>0, <1>2, <1>3, <2>2, <2>3, <2>4, <2>5, FreedOK, AnyStep
<1>4. CASE Goto(w, "reply") /\ UNCHANGED <<mem, client, unread, epolls>>
  <2>1. Turn(w, s, "reply", s)
    BY <1>0, <1>1, <1>2, <1>4, Threads DEF Generate, Goto, Turn, Pc
  <2>2. AnyTyped'
    BY <1>0, <1>2, <1>4, <2>1, Turned DEF AnyTyped, epolls
  <2>3. \A u \in Session : u # s => Alike(u)
    BY <1>0, <1>2, <1>4, <2>1, Turned, Threads DEF Alike, epolls
  <2>4. \A v \in Worker : Works(v, s)' <=> Works(v, s)
    BY <1>0, <1>1, <2>1, Turned, Threads DEF Works, Generate
  <2>5. Alike(s)
    BY <1>0, <1>1, <1>2, <1>4, <2>1, <2>4, Turned, Threads DEF Alike, epolls
  <2> QED BY <2>2, <2>3, <2>5, AnyStep, AlikeOK DEF AnyInv
<1> QED BY <1>1, <1>3, <1>4 DEF Generate

LEMMA WorkReplyAny ==
  ASSUME AnyInv, NEW w \in Worker, WorkReply(w)
  PROVE  AnyInv'
<1>0. AnyTyped /\ w \in Thread /\ w \notin {"accept", "recv", "send"}
  BY Threads DEF AnyInv
<1>1. PICK s \in Session : at[w] = s
  BY <1>0 DEF WorkReply, AnyTyped
<1>2. AnyOK(s) /\ at = [at EXCEPT ![w] = s]
  BY <1>0, <1>1 DEF AnyInv, AnyTyped
<1>3. UNCHANGED <<mem, status, queued, client, unread, listed>>
  BY DEF WorkReply, fields, clients
<1>4. Turn(w, s, "end", s) /\ Works(w, s)
  BY <1>0, <1>1, <1>2, Threads DEF WorkReply, Goto, Turn, Pc, Works
<1>5. Tasked(s) /\ ~Tasked(s)'
  BY <1>0, <1>2, <1>3, <1>4, LastTask
<1>6. Owed(s) /\ Unsent(s) /\ client[s] # "none"
  BY <1>2, <1>5 DEF AnyOK, TaskOK, Owed
<1>7. /\ inRecv' = inRecv \ {s} /\ s \notin inRecv'
      /\ (inSend' = inSend \cup {s} /\ s \in inRecv) \/ inSend' = inSend
  BY <1>1 DEF WorkReply, AddEpollSendEvent, SendEventFails
<1>8. AnyTyped'
  BY <1>0, <1>3, <1>4, <1>7, Turned DEF AnyTyped
<1>9. \A u \in Session : u # s => Alike(u)
  BY <1>0, <1>3, <1>4, <1>7, Turned, Threads DEF Alike
<1>10. /\ at'["recv"] = at["recv"] /\ pc'["recv"] = pc["recv"] /\ at'["accept"] = at["accept"]
       /\ at'["send"] = at["send"] /\ pc'["send"] = pc["send"]
  BY <1>0, <1>4, Turned, Threads
<1>11. AnyOK(s)'
  BY <1>2, <1>3, <1>5, <1>6, <1>7, <1>10
     DEF AnyOK, FreshOK, TaskOK, SendOK, RecvOK, ClientOK, Owed, Unsent
<1> QED BY <1>8, <1>9, <1>11, AnyStep

(* The session notified hangs, so it has no task and its client waits.     *)
LEMMA NotifyAny ==
  ASSUME AnyInv, NEW w \in Worker, NEW s \in Session, Notify(w, s)
  PROVE  AnyInv'
<1>0. AnyTyped /\ AnyOK(s) /\ w \in Thread /\ w \notin {"accept", "recv", "send"}
  BY Threads DEF AnyInv
<1>1. UNCHANGED <<mem, status, queued, at, client, unread, listed>>
  BY DEF Notify, clients
<1>2. /\ pc' \in [Thread -> Pc] /\ pc[w] = "notify" /\ pc'[w] \in {"notify", "gen"}
      /\ \A r \in Thread : r # w => pc'[r] = pc[r]
  BY <1>0 DEF Notify, Goto, AnyTyped, Pc
<1>3. AnyTyped'
  <2>1. inRecv' \subseteq Session /\ inSend' \subseteq Session
    BY <1>0 DEF Notify, AddEpollSendEvent, SendEventFails, epolls, AnyTyped
  <2>2. \A t \in Thread : at'[t] = None <=> pc'[t] \in {"loop", "over"}
    BY <1>0, <1>1, <1>2 DEF AnyTyped
  <2> QED BY <1>0, <1>1, <1>2, <2>1, <2>2 DEF AnyTyped
<1>4. \A u \in Session : \A v \in Worker : Works(v, u)' <=> Works(v, u)
  BY <1>0, <1>1, <1>2, Threads DEF Works
<1>5. pc'["recv"] = pc["recv"] /\ pc'["send"] = pc["send"]
  BY <1>0, <1>2, Threads
<1>6. /\ \A u \in Session : u # s => (u \in inRecv' <=> u \in inRecv) /\ (u \in inSend' <=> u \in inSend)
      /\ \/ inRecv' = inRecv /\ inSend' = inSend
         \/ /\ status[s] = "hang" /\ s \notin inRecv'
            /\ (s \in inSend' /\ s \in inRecv) \/ inSend' = inSend
  BY DEF Notify, AddEpollSendEvent, SendEventFails, epolls
<1>7. \A u \in Session : u # s => Alike(u)
  BY <1>1, <1>4, <1>5, <1>6 DEF Alike
<1>8. CASE inRecv' = inRecv /\ inSend' = inSend
  <2>1. Alike(s)
    BY <1>1, <1>4, <1>5, <1>8 DEF Alike
  <2> QED BY <1>0, <1>3, <1>7, <2>1, AnyStep, AlikeOK
<1>9. CASE /\ status[s] = "hang" /\ s \notin inRecv'
           /\ (s \in inSend' /\ s \in inRecv) \/ inSend' = inSend
  <2>1. Owed(s) /\ ~Tasked(s) /\ client[s] # "none"
    BY <1>0, <1>9 DEF AnyOK, ClientOK, TaskOK, Owed
  <2>2. (Tasked(s)' <=> Tasked(s)) /\ Owed(s)'
    BY <1>1, <1>4, <2>1 DEF Tasked, Owed
  <2>3. AnyOK(s)'
    BY <1>0, <1>1, <1>5, <1>9, <2>1, <2>2
       DEF AnyOK, FreshOK, TaskOK, SendOK, RecvOK, ClientOK, Owed, Unsent
  <2> QED BY <1>3, <1>7, <2>3, AnyStep
<1> QED BY <1>6, <1>8, <1>9

-----------------------------------------------------------------------------
(* The sending thread.                                                     *)
LEMMA SendPickAny ==
  ASSUME AnyInv, NEW s \in Session, SendPick(s)
  PROVE  AnyInv'
<1>0. AnyTyped /\ AnyOK(s)
  BY DEF AnyInv
<1>1. Turn("send", s, "send", s) /\ at["send"] = None /\ s \in inSend
  BY <1>0, Threads DEF SendPick, Take, Goto, Turn, Pc, AnyTyped
<1>2. UNCHANGED <<mem, status, queued, client, unread, inRecv, inSend, listed>>
  BY DEF SendPick, fields, epolls, clients
<1>3. AnyTyped'
  BY <1>0, <1>1, <1>2, Turned DEF AnyTyped
<1>4. \A u \in Session : u # s => Alike(u)
  BY <1>0, <1>1, <1>2, Turned, Threads DEF Alike
<1>5. /\ pc'["send"] = "send" /\ at'["send"] = s
      /\ at'["recv"] = at["recv"] /\ pc'["recv"] = pc["recv"] /\ at'["accept"] = at["accept"]
      /\ (Tasked(s)' <=> Tasked(s))
  BY <1>0, <1>1, <1>2, Turned, TasksStay, Threads
<1>6. Owed(s) /\ s \notin inRecv /\ ~Tasked(s) /\ client[s] # "none"
  BY <1>0, <1>1, Threads DEF AnyOK, SendOK, TaskOK, Unsent, Owed
<1>7. AnyOK(s)'
  BY <1>0, <1>1, <1>2, <1>5, <1>6
     DEF AnyOK, FreshOK, TaskOK, SendOK, RecvOK, ClientOK, Owed, Unsent
<1> QED BY <1>3, <1>4, <1>7, AnyStep

(* It goes on with the session, and says what becomes of it.               *)
LEMMA SendOnAny ==
  ASSUME AnyInv, NEW s \in Session, SendHang(s) \/ SendStart(s) \/ SendDone(s)
  PROVE  AnyInv'
<1>0. AnyTyped /\ AnyOK(s)
  BY DEF AnyInv
<1>1. PICK l \in {"write", "back"} : Turn("send", s, l, s)
  <2>1. at["send"] = s
    BY DEF SendHang, SendStart, SendDone, Sending
  <2>2. at = [at EXCEPT !["send"] = s]
    BY <1>0, <2>1 DEF AnyTyped
  <2> QED BY <2>1, <2>2, Threads DEF SendHang, SendStart, SendDone, Goto, Turn, Pc
<1>2. at["send"] = s /\ pc["send"] \in {"send", "write"}
  BY DEF SendHang, SendStart, SendDone, Sending
<1>3. Owed(s) /\ s \notin inRecv /\ ~Tasked(s) /\ client[s] # "none"
  BY <1>0, <1>2, Threads DEF AnyOK, SendOK, TaskOK, Unsent, Owed
<1>4. UNCHANGED <<mem, queued, unread, inRecv, inSend, listed>>
  BY DEF SendHang, SendStart, SendDone, fields, epolls, clients
<1>5. /\ status' \in [Session -> {"receive", "publish", "hang", "send", "die"}]
      /\ client' \in [Session -> {"none", "idle", "waiting", "stray", "closed"}]
      /\ \A u \in Session : u # s => status'[u] = status[u] /\ client'[u] = client[u]
      /\ (status'[s] = "hang" \/ l = "write") => client'[s] = client[s]
      /\ client'[s] = client[s] \/ (client'[s] = "idle" /\ client[s] = "waiting")
  <2>1. CASE SendHang(s) \/ SendStart(s)
    BY <1>0, <2>1 DEF SendHang, SendStart, clients, AnyTyped
  <2>2. CASE SendDone(s)
    <3>1. client[s] \in {"waiting", "closed"}
      BY <1>3 DEF Owed
    <3>2. Answer["waiting"] = "idle" /\ Answer["closed"] = "closed"
      BY DEF Answer
    <3>3. /\ client'[s] = Answer[client[s]] /\ status'[s] = "die"
          /\ \A u \in Session : u # s => status'[u] = status[u] /\ client'[u] = client[u]
      BY <1>0, <2>2 DEF SendDone, AnyTyped
    <3>4. status' \in [Session -> {"receive", "publish", "hang", "send", "die"}]
      BY <1>0, <2>2 DEF SendDone, AnyTyped
    <3>5. /\ Answer[client[s]] \in {"idle", "closed"}
          /\ client' = [client EXCEPT ![s] = Answer[client[s]]]
      BY <2>2, <3>1, <3>2 DEF SendDone
    <3>6. client' \in [Session -> {"none", "idle", "waiting", "stray", "closed"}]
      BY <1>0, <3>5 DEF AnyTyped
    <3>7. l = "back"
      BY <1>0, <1>1, <2>2, Threads DEF SendDone, Goto, Turn, AnyTyped
    <3> QED BY <3>1, <3>2, <3>3, <3>4, <3>6, <3>7
  <2> QED BY <2>1, <2>2
<1>6. AnyTyped'
  BY <1>0, <1>1, <1>4, <1>5, Turned DEF AnyTyped
<1>7. \A u \in Session : u # s => Alike(u)
  BY <1>0, <1>1, <1>4, <1>5, Turned, Threads DEF Alike
<1>8. /\ pc'["send"] = l /\ at'["send"] = s
      /\ at'["recv"] = at["recv"] /\ pc'["recv"] = pc["recv"] /\ at'["accept"] = at["accept"]
      /\ (Tasked(s)' <=> Tasked(s))
  BY <1>0, <1>1, <1>4, Turned, TasksStay, Threads
<1>9. ~unread[s] /\ ~unread'[s] /\ client'[s] \in {"idle", "waiting", "closed"}
  BY <1>3, <1>4, <1>5 DEF Owed
<1>10. FreshOK(s)' /\ TaskOK(s)' /\ ClientOK(s)'
  BY <1>3, <1>5, <1>8, <1>9 DEF FreshOK, TaskOK, ClientOK, Owed
<1>11. SendOK(s)'
  BY <1>3, <1>4, <1>5, <1>8, <1>9 DEF SendOK, Owed
<1>12. RecvOK(s)'
  <2>1. ~(at["recv"] = s /\ pc["recv"] = "reply") /\ at["accept"] # s
    BY <1>0, <1>2 DEF AnyOK, RecvOK, Unsent
  <2>2. at["recv"] = s /\ pc["recv"] = "recv" => client[s] = "closed"
    BY <1>0, <1>9 DEF AnyOK, RecvOK
  <2> QED BY <1>5, <1>8, <1>9, <2>1, <2>2 DEF RecvOK
<1> QED BY <1>6, <1>7, <1>10, <1>11, <1>12, AnyStep DEF AnyOK

LEMMA SendFreeAny ==
  ASSUME AnyInv, NEW s \in Session, SendFree(s)
  PROVE  AnyInv'
<1>0. AnyTyped /\ AnyOK(s)
  BY DEF AnyInv
<1>1. /\ Turn("send", s, "loop", None) /\ FreeSession(s) /\ at["send"] = s
      /\ UNCHANGED <<status, queued, listed>>
  BY Threads DEF SendFree, Sending, Return, Goto, Turn, Pc
<1>2. ~Tasked(s)'
  BY <1>0, <1>1, TasksStay, Threads DEF AnyOK, TaskOK, Unsent
<1>3. AnyTyped'
  BY <1>0, <1>1, FreedTyped, Turned DEF AnyTyped
<1>4. \A u \in Session : u # s => Alike(u)
  BY <1>0, <1>1, FreedTyped, Turned, Threads DEF Alike
<1>5. \A r \in {"accept", "recv", "send"} : at'[r] = s => at[r] = s /\ pc'[r] = pc[r]
  BY <1>0, <1>1, Turned, Threads
<1> QED BY <1>0, <1>1, <1>2, <1>3, <1>4, <1>5, FreedOK, AnyStep

LEMMA SendBackAny ==
  ASSUME AnyInv, NEW s \in Session, SendBack(s) \/ SendFails(s)
  PROVE  AnyInv'
<1>0. AnyTyped /\ AnyOK(s) /\ at["send"] = s /\ at = [at EXCEPT !["send"] = s]
  BY DEF AnyInv, AnyTyped, SendBack, SendFails
<1>1. UNCHANGED <<mem, status, queued, client, unread, listed>>
  BY DEF SendBack, SendFails, fields, clients
<1>2. CASE SendFails(s)
  <2>1. Turn("send", s, "close", s) /\ pc["send"] = "write" /\ UNCHANGED <<inRecv, inSend>>
    BY <1>0, <1>2, Threads DEF SendFails, Goto, Turn, Pc, epolls
  <2> QED BY <1>0, <1>1, <2>1, LeavesAny
<1>3. CASE RecvEventFails(s) /\ SendBack(s) /\ Goto("send", "close") /\ UNCHANGED at
  <2>1. Turn("send", s, "close", s)
    BY <1>0, <1>3, Threads DEF Goto, Turn, Pc
  <2> QED BY <1>0, <1>1, <1>3, <2>1, LeavesAny DEF RecvEventFails
<1>4. CASE SendBack(s) /\ AddEpollRecvEvent(s) /\ Return("send")
  <2>1. Turn("send", s, "loop", None)
    BY <1>0, <1>4, Threads DEF Return, Goto, Turn, Pc
  <2>2. s \in inSend /\ inSend' = inSend \ {s} /\ inRecv' = inRecv \cup {s}
    BY <1>4 DEF AddEpollRecvEvent
  <2>3. AnyTyped'
    BY <1>0, <1>1, <2>1, <2>2, Turned DEF AnyTyped
  <2>4. \A u \in Session : u # s => Alike(u)
    BY <1>0, <1>1, <2>1, <2>2, Turned, Threads DEF Alike
  <2>5. /\ at'["send"] # s
        /\ at'["recv"] = at["recv"] /\ pc'["recv"] = pc["recv"] /\ at'["accept"] = at["accept"]
        /\ (Tasked(s)' <=> Tasked(s))
    BY <1>0, <1>1, <2>1, Turned, TasksStay, Threads
  <2>6. ~Tasked(s) /\ at["accept"] # s /\ client[s] # "none"
    BY <1>0, Threads DEF AnyOK, TaskOK, RecvOK, FreshOK, Unsent
  <2>7. AnyOK(s)'
    BY <1>0, <1>1, <2>2, <2>5, <2>6
       DEF AnyOK, FreshOK, TaskOK, SendOK, RecvOK, ClientOK, Owed, Unsent
  <2> QED BY <2>3, <2>4, <2>7, AnyStep
<1> QED BY <1>2, <1>3, <1>4 DEF SendBack

-----------------------------------------------------------------------------
(* All of it.                                                              *)

(* Steps of threads that rest, and of the process.                         *)
LEMMA RestAny ==
  ASSUME AnyInv, \/ AcceptOver \/ IsRunEnds \/ SendOver \/ Exit \/ PoolDestroyed \/ UNCHANGED vars
  PROVE  AnyInv'
<1>0. AnyTyped
  BY DEF AnyInv
<1>1. UNCHANGED <<mem, status, queued, at, client, unread, inRecv, inSend, listed>>
  BY DEF AcceptOver, IsRunEnds, SendOver, Exit, PoolDestroyed, vars, fields, epolls, clients
<1>2. /\ pc' \in [Thread -> Pc]
      /\ \A t \in Thread : pc'[t] = pc[t] \/ (at[t] = None /\ t \notin Worker /\ pc'[t] = "over")
  <2>1. pc' = pc \/ \E t \in {"accept", "recv", "send"} : pc[t] = "loop" /\ Goto(t, "over")
    BY DEF AcceptOver, IsRunEnds, SendOver, Exit, PoolDestroyed, vars
  <2> QED BY <1>0, <2>1, Threads DEF Goto, AnyTyped, Pc
<1>3. AnyTyped'
  <2>1. \A t \in Thread : at'[t] = None <=> pc'[t] \in {"loop", "over"}
    BY <1>0, <1>1, <1>2 DEF AnyTyped
  <2> QED BY <1>0, <1>1, <1>2, <2>1 DEF AnyTyped
<1>4. \A u \in Session : Alike(u)
  BY <1>1, <1>2, Threads DEF Alike, Works
<1> QED BY <1>3, <1>4, AlikeOK DEF AnyInv

LEMMA InitAny == Init => AnyInv
<1> SUFFICES ASSUME Init PROVE AnyInv
  OBVIOUS
<1>1. AnyTyped
  <2>1. \A t \in Thread : at[t] = None /\ pc[t] = "loop"
    BY DEF Init
  <2> QED BY <2>1 DEF Init, AnyTyped, Pc
<1>2. ASSUME NEW s \in Session PROVE AnyOK(s)
  BY Threads DEF Init, AnyOK, FreshOK, TaskOK, SendOK, RecvOK, ClientOK, Tasked, Works
<1> QED BY <1>1, <1>2 DEF AnyInv

LEMMA NextAny ==
  ASSUME Prompt, AnyInv, [Next /\ Sound]_vars
  PROVE  AnyInv'
<1>1. CASE UNCHANGED vars
  BY <1>1, RestAny
<1>2. CASE Next /\ Sound
  <2>1. CASE Client
    BY <2>1, AskAny, HangUpAny DEF Client
  <2>2. CASE Accepter
    BY <2>2, AcceptAddAny, RestAny, AcceptAny, HangUpAny DEF Accepter
  <2>3. CASE Receiver
    BY <1>2, <2>3, SweepIdleAny, SweepHangAny, RecvPickAny, RecvEndsAny, RecvRequestAny,
       RecvReplyAny, CloseAny, RestAny DEF Receiver
  <2>4. CASE Sender
    BY <2>4, SendPickAny, SendOnAny, SendFreeAny, SendBackAny, CloseAny, RestAny DEF Sender
  <2>5. ASSUME NEW w \in Worker, PoolThread(w) PROVE AnyInv'
    BY <2>5, WorkTakeAny, NotifyAny, WorkOnAny, GenerateAny, WorkReplyAny DEF PoolThread
  <2>6. CASE Exit \/ PoolDestroyed
    BY <2>6, RestAny
  <2> QED BY <1>2, <2>1, <2>2, <2>3, <2>4, <2>5, <2>6 DEF Next
<1> QED BY <1>1, <1>2

(* The program until it first handles a freed session; what follows is not  *)
(* its to say.                                                             *)
SoundSpec == Init /\ [][Next /\ Sound]_vars

(* A task never runs on freed memory: whoever closes a session that the    *)
(* pool has leaves it to the pool, whenever clients leave, answers are      *)
(* late, tasks are refused or the process ends.                            *)
THEOREM PoolKeepsSession == Prompt => (SoundSpec => []PoolKeeps)
<1> SUFFICES ASSUME Prompt PROVE SoundSpec => []PoolKeeps
  OBVIOUS
<1>1. AnyInv => PoolKeeps
  <2> SUFFICES ASSUME AnyInv, NEW s \in Session, Tasked(s) PROVE mem[s] = "live"
    BY DEF PoolKeeps, Tasked, Works
  <2> QED BY DEF AnyInv, AnyOK, TaskOK
<1>2. AnyInv /\ [Next /\ Sound]_vars => AnyInv'
  BY NextAny
<1> QED BY <1>1, <1>2, InitAny, PTL DEF SoundSpec

(* No client gets an answer it does not wait for: the hand-over between    *)
(* the epoll sets gives each request one answer, under the same conditions. *)
THEOREM NoStrayAnswer == Prompt => (SoundSpec => []NoStray)
<1> SUFFICES ASSUME Prompt PROVE SoundSpec => []NoStray
  OBVIOUS
<1>1. AnyInv => NoStray
  BY DEF AnyInv, AnyOK, ClientOK, NoStray
<1>2. AnyInv /\ [Next /\ Sound]_vars => AnyInv'
  BY NextAny
<1> QED BY <1>1, <1>2, InitAny, PTL DEF SoundSpec
=============================================================================
