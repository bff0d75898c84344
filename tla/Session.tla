-------------------------------- MODULE Session --------------------------------
(***************************************************************************)
(* A connection of a worker process (src/src/uhp/comm.c, app.c, worker.c): *)
(* the accept thread creates its AcceptedSession, the receiving thread     *)
(* reads requests and closes, the pool runs them, the sending thread       *)
(* answers.  A session is handed on by moving its descriptor between the   *)
(* two epoll sets; session_lock guards only the set of sessions.           *)
(*                                                                         *)
(* One step is one epoll_ctl hand-over, one section under session_lock or  *)
(* one decision.  epoll_wait picks one event, handled in later steps.      *)
(***************************************************************************)
EXTENDS Integers, FiniteSets

CONSTANTS
  Session,         \* connections, each made once
  Worker,          \* threads of the pool
  KeepAlive,       \* connections whose requests ask to be kept alive
  Kinds,           \* kinds of requests clients send
  Requests,        \* bound: requests per connection
  MaxTaskCount,    \* maxTaskcount
  Polite,          \* do clients close only when no answer is due?
  Late,            \* may totalTimeout elapse while one is handled?
  Prompt,          \* do the others elapse only while a session has nothing to do?
  KeysClash,       \* may the set mistake a session for another?
  TaskMayFail,     \* may threadpool_addTask fail?
  MayExit,         \* may the process be told to exit?
  None

VARIABLES
  mem,             \* per session: no memory yet, live, freed, freed twice
  status, hang, needFree,  \* fields of AcceptedSession
  inRecv, inSend,  \* sessions whose descriptor is in epoll_fd, epoll_fd_send
  listed,          \* p_set_session
  lock,            \* holder of session_lock
  queued,          \* tasks of a session in the pool's list
  pc, at, todo,    \* per thread: control, session, sessions to notify
  client,          \* what the client waits for
  unread, kind,    \* its request: not yet read; what it asks
  left,            \* requests it may still send
  exit, pool       \* g_exit_flag; the pool takes tasks

vars == <<mem, status, hang, needFree, inRecv, inSend, listed, lock, queued, pc,
          at, todo, client, unread, kind, left, exit, pool>>
fields  == <<mem, status, hang, needFree>>
epolls  == <<inRecv, inSend>>
clients == <<client, unread, kind, left>>
env     == <<exit, pool>>

Thread == {"accept", "recv", "send"} \cup Worker

AllKinds == {"quick", "bad", "unknown", "task", "hang", "notify"}

ASSUME SessionAssumption ==
  /\ KeepAlive \subseteq Session
  /\ Kinds \subseteq AllKinds
  /\ Requests \in Nat /\ MaxTaskCount \in Nat
  /\ {Polite, Prompt, Late, KeysClash, TaskMayFail, MayExit} \subseteq BOOLEAN
  /\ None \notin Session \cup Thread
  /\ Worker \cap {"accept", "recv", "send"} = {}

Pc == {"loop", "add", "recv", "close", "close2", "erase", "drop", "drop2", "decide",
       "reply", "send", "write", "back", "work", "notify", "gen", "end", "over"}

Goto(t, l) == pc' = [pc EXCEPT ![t] = l]
Take(t, s, l) == Goto(t, l) /\ at' = [at EXCEPT ![t] = s]
Return(t) == Goto(t, "loop") /\ at' = [at EXCEPT ![t] = None]
Handled(s) == \E t \in Thread : at[t] = s
TaskCount == Cardinality({s \in Session : queued[s] > 0})

(* A time-out of the session runs out.                                     *)
Rests(s) == s \notin inSend /\ ~unread[s] /\ ~Handled(s)
TimesOut(s) == Prompt => Rests(s)

-----------------------------------------------------------------------------
(* Memory, the set of sessions, the epoll sets.                            *)

FreeSession(s) ==
  /\ mem' = [mem EXCEPT ![s] = IF @ = "live" THEN "freed" ELSE "twice"]
  /\ client' = [client EXCEPT ![s] = "closed"]
  /\ unread' = [unread EXCEPT ![s] = FALSE]
  /\ inRecv' = inRecv \ {s} /\ inSend' = inSend \ {s}

(* The set is ordered by request_begin_time, which changes: a session of    *)
(* the second of another is not inserted, and erasing it may erase the     *)
(* other, or none.                                                         *)
InsertForgotten(s) == {listed}          \* defect: accepted, never inserted

Inserted(s) == {listed \cup {s}} \cup {L \in {listed} : KeysClash /\ L # {}}
Erased(s) == {listed \ {s}} \cup {listed \ {u} : u \in {u \in listed : KeysClash}}
                             \cup {L \in {listed} : KeysClash}

(* AddEpollSendEvent: only whoever takes the descriptor out of epoll_fd     *)
(* puts it into epoll_fd_send.                                             *)
AddSendTwice(s) == /\ s \in inRecv /\ s \notin inSend  \* defect: added without removing
                   /\ inSend' = inSend \cup {s} /\ UNCHANGED inRecv
AddEpollSendEvent(s) == /\ s \in inRecv /\ s \notin inSend
                        /\ inRecv' = inRecv \ {s} /\ inSend' = inSend \cup {s}
SendEventFails(s) == (s \notin inRecv \/ s \in inSend) /\ inRecv' = inRecv \ {s}
                     /\ UNCHANGED inSend

(* AddEpollRecvEvent, the other way.                                       *)
AddRecvTwice(s) == /\ s \in inSend /\ s \notin inRecv  \* defect: added without removing
                   /\ inRecv' = inRecv \cup {s} /\ UNCHANGED inSend
AddEpollRecvEvent(s) == /\ s \in inSend /\ s \notin inRecv
                        /\ inSend' = inSend \ {s} /\ inRecv' = inRecv \cup {s}
RecvEventFails(s) == (s \notin inSend \/ s \in inRecv) /\ inSend' = inSend \ {s}
                     /\ UNCHANGED inRecv

-----------------------------------------------------------------------------
(* Clients *)

Ask(s) ==
  /\ client[s] = "idle" /\ left[s] > 0
  /\ client' = [client EXCEPT ![s] = "waiting"]
  /\ unread' = [unread EXCEPT ![s] = TRUE]
  /\ \E k \in Kinds : kind' = [kind EXCEPT ![s] = k]
  /\ left' = [left EXCEPT ![s] = @ - 1]
  /\ UNCHANGED <<fields, epolls, listed, lock, queued, pc, at, todo, env>>

HangUp(s) ==
  /\ client[s] \in IF Polite THEN {"idle"} ELSE {"idle", "waiting"}
  /\ client' = [client EXCEPT ![s] = "closed"]
  /\ UNCHANGED <<fields, epolls, listed, lock, queued, pc, at, todo, unread, kind,
                 left, env>>

-----------------------------------------------------------------------------
(* The accept thread: OnAcceptingSocket *)

AfterPoll == IF exit THEN "over" ELSE "loop"

Accept(s) ==                            \* it looks at g_exit_flag before it polls
  /\ pc["accept"] = "loop" /\ lock = None
  /\ client[s] = "none" /\ TaskCount <= MaxTaskCount
  /\ mem' = [mem EXCEPT ![s] = "live"]
  /\ status' = [status EXCEPT ![s] = "receive"]
  /\ client' = [client EXCEPT ![s] = "idle"]
  /\ listed' \in Inserted(s)
  /\ Take("accept", s, "add")
  /\ UNCHANGED <<hang, needFree, epolls, lock, queued, todo, unread, kind, left, env>>

AcceptAdd ==
  /\ pc["accept"] = "add"
  /\ inRecv' = inRecv \cup {at["accept"]}
  /\ Take("accept", None, AfterPoll)
  /\ UNCHANGED <<fields, inSend, listed, lock, queued, todo, clients, env>>

(* Flow control: with too many tasks a connection is closed at once.       *)
Refuse(s) ==
  /\ pc["accept"] = "loop"
  /\ client[s] = "none" /\ TaskCount > MaxTaskCount
  /\ client' = [client EXCEPT ![s] = "closed"]
  /\ Goto("accept", AfterPoll)
  /\ UNCHANGED <<fields, epolls, listed, lock, queued, at, todo, unread, kind, left, env>>

AcceptOver ==
  /\ pc["accept"] = "loop" /\ exit
  /\ Goto("accept", "over")
  /\ UNCHANGED <<fields, epolls, listed, lock, queued, at, todo, clients, env>>

-----------------------------------------------------------------------------
(* OnClosingSocket, by the receiving or the sending thread; "drop" is the   *)
(* call without session_lock.                                              *)

CloseSend(t) ==
  /\ pc[t] \in {"close", "drop"}
  /\ inSend' = inSend \ {at[t]}
  /\ Goto(t, IF pc[t] = "close" THEN "close2" ELSE "drop2")
  /\ UNCHANGED <<fields, inRecv, listed, lock, queued, at, todo, clients, env>>

CloseRecv(t) ==
  /\ pc[t] \in {"close2", "drop2"}
  /\ inRecv' = inRecv \ {at[t]}
  /\ \/ pc[t] = "close2" /\ Goto(t, "erase") /\ UNCHANGED listed
     \/ pc[t] = "drop2" /\ Goto(t, "decide") /\ listed' \in Erased(at[t])
  /\ UNCHANGED <<fields, inSend, lock, queued, at, todo, clients, env>>

Erase(t) ==
  /\ pc[t] = "erase" /\ lock = None
  /\ listed' \in Erased(at[t])
  /\ Goto(t, "decide")
  /\ UNCHANGED <<fields, epolls, lock, queued, at, todo, clients, env>>

(* A session the pool works on is freed by the pool.                       *)
DecideNow(t) ==                         \* defect: does not look for the pool
  /\ pc[t] = "decide"
  /\ FreeSession(at[t])
  /\ Return(t)
  /\ UNCHANGED <<status, hang, needFree, listed, lock, queued, todo, kind, left, env>>

Decide(t) ==
  /\ pc[t] = "decide"
  /\ \/ /\ status[at[t]] = "publish"
        /\ needFree' = [needFree EXCEPT ![at[t]] = TRUE]
        /\ UNCHANGED <<mem, client, unread, epolls>>
     \/ /\ status[at[t]] # "publish"
        /\ FreeSession(at[t])
        /\ UNCHANGED needFree
  /\ Return(t)
  /\ UNCHANGED <<status, hang, listed, lock, queued, todo, kind, left, env>>

-----------------------------------------------------------------------------
(* threadpool_addTask by the receiving thread, status set before.          *)
AddTask(s) ==
  /\ pool
  /\ status' = [status EXCEPT ![s] = "publish"]
  /\ queued' = [queued EXCEPT ![s] = @ + 1]
AddTaskFails(s) ==
  /\ ~pool \/ TaskMayFail
  /\ status' = [status EXCEPT ![s] = "publish"]
  /\ UNCHANGED queued

(* TravelSessions (worker.c), by the receiving thread between its waits.   *)
SweepAll(s) == /\ pc["recv"] = "loop" /\ lock = None   \* defect: sweeps what is published
               /\ s \in listed /\ TimesOut(s)
Sweepable(s) == /\ pc["recv"] = "loop" /\ lock = None
                /\ s \in listed /\ status[s] # "publish" /\ TimesOut(s)

SweepIdle(s) ==                         \* hangUpTimeout is the shorter one
  /\ Sweepable(s) /\ (Prompt => s \notin KeepAlive \/ status[s] # "hang")
  /\ FreeSession(s)
  /\ listed' = listed \ {s}
  /\ UNCHANGED <<status, hang, needFree, lock, queued, pc, at, todo, kind, left, env>>

(* A request that hangs for too long goes back to the pool to be answered; *)
(* when that fails TravelSessions returns with the lock.                   *)
SweepHang(s) ==
  /\ Sweepable(s)
  /\ s \in KeepAlive /\ status[s] = "hang"
  /\ hang' = [hang EXCEPT ![s] = "timeout"]
  /\ \/ AddTask(s) /\ UNCHANGED lock
     \/ AddTaskFails(s) /\ lock' = "recv"
  /\ UNCHANGED <<mem, needFree, epolls, listed, pc, at, todo, clients, env>>

-----------------------------------------------------------------------------
(* The receiving thread: RecvEpollWorker, OnReceivingSocket, OnProcess      *)

RecvPick(s) ==
  /\ pc["recv"] = "loop"
  /\ s \in inRecv /\ (unread[s] \/ client[s] = "closed")
  /\ Take("recv", s, "recv")
  /\ UNCHANGED <<fields, epolls, listed, lock, queued, todo, clients, env>>

Receiving(s) == pc["recv"] = "recv" /\ at["recv"] = s
GivesUp == exit /\ ~pool

(* The client has gone, a time-out, a bad request, or the pool has gone.   *)
RecvEnds(s) ==
  /\ Receiving(s)
  /\ GivesUp \/ client[s] = "closed" \/ kind[s] = "bad" \/ Late
  /\ Goto("recv", "close")
  /\ UNCHANGED <<fields, epolls, listed, lock, queued, at, todo, clients, env>>

(* A whole request: answered here, ignored (an unknown method), or given to *)
(* the pool; when that fails the error is answered here.  Only the first    *)
(* request of a connection resets hang_status (tv_receive_begin is 0).     *)
First(s) == left[s] = Requests - 1

(* The console's requests (sessions, threads, configuration): read from     *)
(* what the others keep, with no lock, answered here.                      *)
Show(s) == kind[s] = "quick" /\ Goto("recv", "reply") /\ UNCHANGED <<status, queued, at>>

RecvRequest(s) ==
  /\ Receiving(s) /\ ~GivesUp /\ unread[s] /\ kind[s] # "bad"
  /\ unread' = [unread EXCEPT ![s] = FALSE]
  /\ hang' = [hang EXCEPT ![s] = IF First(s) THEN "no" ELSE @]
  /\ \/ Show(s)
     \/ /\ kind[s] = "unknown" /\ Return("recv")
        /\ UNCHANGED <<status, queued>>
     \/ /\ kind[s] \in {"task", "hang", "notify"}
        /\ \/ AddTask(s) /\ Return("recv")
           \/ AddTaskFails(s) /\ Goto("recv", "reply") /\ UNCHANGED at
  /\ UNCHANGED <<mem, needFree, epolls, listed, lock, todo, client, kind, left, env>>

RecvReply(s) ==                         \* nobody else moves the session now
  /\ pc["recv"] = "reply" /\ at["recv"] = s
  /\ AddEpollSendEvent(s) /\ Return("recv")
  /\ UNCHANGED <<fields, listed, lock, queued, todo, clients, env>>

-----------------------------------------------------------------------------
(* A thread of the pool: ThreadWorker, GenerateHttpResponse                *)

WorkTake(w, s) ==
  /\ pc[w] = "loop" /\ queued[s] > 0
  /\ queued' = [queued EXCEPT ![s] = @ - 1]
  /\ Take(w, s, "work")
  /\ UNCHANGED <<fields, epolls, listed, lock, todo, clients, env>>

(* The plugin's work: an answer, a request to hang (304), or a message for  *)
(* the sessions that hang.                                                 *)
WorkAnswer(w) ==
  /\ pc[w] = "work" /\ kind[at[w]] = "task"
  /\ Goto(w, "gen")
  /\ UNCHANGED <<fields, epolls, listed, lock, queued, at, todo, clients, env>>

WorkHangAgain(w) ==                     \* defect: ignores the time-out
  /\ pc[w] = "work" /\ kind[at[w]] = "hang"
  /\ hang' = [hang EXCEPT ![at[w]] = "up"]
  /\ Goto(w, "reply")
  /\ UNCHANGED <<mem, status, needFree, epolls, listed, lock, queued, at, todo,
                 clients, env>>

WorkHang(w) ==
  /\ pc[w] = "work" /\ kind[at[w]] = "hang"
  /\ hang' = [hang EXCEPT ![at[w]] = IF @ = "timeout" THEN @ ELSE "up"]
  /\ Goto(w, "reply")
  /\ UNCHANGED <<mem, status, needFree, epolls, listed, lock, queued, at, todo,
                 clients, env>>

WorkNotify(w) ==
  /\ pc[w] = "work" /\ kind[at[w]] = "notify" /\ lock = None
  /\ lock' = w
  /\ todo' = [todo EXCEPT ![w] = listed \ {at[w]}]
  /\ Goto(w, "notify")
  /\ UNCHANGED <<fields, epolls, listed, queued, at, clients, env>>

(* UHPSetNotifyOtherSessions: a failure ends it, with the lock.            *)
Notify(w, u) ==
  /\ pc[w] = "notify" /\ u \in todo[w]
  /\ \/ /\ status[u] # "hang"
        /\ todo' = [todo EXCEPT ![w] = @ \ {u}]
        /\ UNCHANGED <<hang, epolls, pc>>
     \/ /\ status[u] = "hang"
        /\ hang' = [hang EXCEPT ![u] = "no"]
        /\ \/ /\ AddEpollSendEvent(u)
              /\ todo' = [todo EXCEPT ![w] = @ \ {u}]
              /\ UNCHANGED pc
           \/ /\ SendEventFails(u)
              /\ todo' = [todo EXCEPT ![w] = {}]
              /\ Goto(w, "gen")
  /\ UNCHANGED <<mem, status, needFree, listed, lock, queued, at, clients, env>>

NotifyDone(w) ==
  /\ pc[w] = "notify" /\ todo[w] = {}
  /\ lock' = None
  /\ Goto(w, "gen")
  /\ UNCHANGED <<fields, epolls, listed, queued, at, todo, clients, env>>

Generate(w) ==
  /\ pc[w] = "gen"
  /\ \/ /\ needFree[at[w]]
        /\ FreeSession(at[w])
        /\ Goto(w, "end")
     \/ /\ ~needFree[at[w]]
        /\ Goto(w, "reply")
        /\ UNCHANGED <<mem, client, unread, epolls>>
  /\ UNCHANGED <<status, hang, needFree, listed, lock, queued, at, todo, kind, left,
                 env>>

(* Nobody looks at the result; a 304 does not look at needFree either.     *)
WorkReply(w) ==
  /\ pc[w] = "reply"
  /\ AddEpollSendEvent(at[w]) \/ SendEventFails(at[w])
  /\ Goto(w, "end")
  /\ UNCHANGED <<fields, listed, lock, queued, at, todo, clients, env>>

WorkEnd(w) ==                           \* writes tv_publish_end
  /\ pc[w] = "end"
  /\ Return(w)
  /\ UNCHANGED <<fields, epolls, listed, lock, queued, todo, clients, env>>

-----------------------------------------------------------------------------
(* The sending thread: SendEpollWorker, OnSendingSocket                    *)

SendPick(s) ==
  /\ pc["send"] = "loop" /\ s \in inSend
  /\ Take("send", s, "send")
  /\ UNCHANGED <<fields, epolls, listed, lock, queued, todo, clients, env>>

Sending(s) == pc["send"] = "send" /\ at["send"] = s

SendHang(s) ==
  /\ Sending(s) /\ hang[s] = "up"
  /\ status' = [status EXCEPT ![s] = "hang"]
  /\ Goto("send", "back")
  /\ UNCHANGED <<mem, hang, needFree, epolls, listed, lock, queued, at, todo, clients,
                 env>>

SendFree(s) ==
  /\ Sending(s) /\ hang[s] # "up" /\ needFree[s]
  /\ FreeSession(s)
  /\ Return("send")
  /\ UNCHANGED <<status, hang, needFree, listed, lock, queued, todo, kind, left, env>>

SendStart(s) ==
  /\ Sending(s) /\ hang[s] # "up" /\ ~needFree[s]
  /\ status' = [status EXCEPT ![s] = IF @ = "die" THEN @ ELSE "send"]
  /\ Goto("send", "write")
  /\ UNCHANGED <<mem, hang, needFree, epolls, listed, lock, queued, at, todo, clients,
                 env>>

(* An answer a client does not wait for is stray.                          *)
Answer == [none |-> "none", waiting |-> "idle", idle |-> "stray", stray |-> "stray",
           closed |-> "closed"]

(* The answer is written and the session watched for input again.  The     *)
(* environment is reset before CheckHttpKeepAlive looks at it, so the       *)
(* session is left to die, kept alive or not.                              *)
SendDone(s) ==
  /\ pc["send"] = "write" /\ at["send"] = s
  /\ client' = [client EXCEPT ![s] = Answer[@]]
  /\ status' = [status EXCEPT ![s] = "die"]
  /\ Goto("send", "back")
  /\ UNCHANGED <<mem, hang, needFree, epolls, listed, lock, queued, at, todo, unread,
                 kind, left, env>>

SendFails(s) ==
  /\ pc["send"] = "write" /\ at["send"] = s
  /\ client[s] = "closed" \/ Late
  /\ Goto("send", "close")
  /\ UNCHANGED <<fields, epolls, listed, lock, queued, at, todo, clients, env>>

SendBack(s) ==
  /\ pc["send"] = "back" /\ at["send"] = s
  /\ \/ AddEpollRecvEvent(s) /\ Return("send")
     \/ RecvEventFails(s) /\ Goto("send", "close") /\ UNCHANGED at
  /\ UNCHANGED <<fields, listed, lock, queued, todo, clients, env>>

-----------------------------------------------------------------------------
(* The end of the process.  Told by the board (g_exit_flag first) or by the *)
(* pipe (the pool is destroyed first).  The sending thread leaves at once,  *)
(* the receiving thread closes what the pool has not begun, until no       *)
(* session is left.                                                        *)
Exit ==
  /\ MayExit /\ ~exit
  /\ exit' = TRUE
  /\ UNCHANGED <<fields, epolls, listed, lock, queued, pc, at, todo, clients, pool>>

(* threadpool_destroy returns when every thread has left an empty list.    *)
PoolDestroyed ==
  /\ MayExit /\ pool
  /\ exit => pc["recv"] = "over"
  /\ \A s \in Session : queued[s] = 0
  /\ \A w \in Worker : pc[w] = "loop"
  /\ pool' = FALSE
  /\ UNCHANGED <<fields, epolls, listed, lock, queued, pc, at, todo, clients, exit>>

SendOver ==
  /\ exit /\ pc["send"] = "loop"
  /\ Goto("send", "over")
  /\ UNCHANGED <<fields, epolls, listed, lock, queued, at, todo, clients, env>>

IsRunCloses(s) ==
  /\ exit /\ pc["recv"] = "loop" /\ lock # "recv"
  /\ s \in listed /\ status[s] \in {"receive", "die"}
  /\ Take("recv", s, "drop")
  /\ UNCHANGED <<fields, epolls, listed, lock, queued, todo, clients, env>>

IsRunEnds ==
  /\ exit /\ pc["recv"] = "loop" /\ lock # "recv" /\ listed = {}
  /\ Goto("recv", "over")
  /\ UNCHANGED <<fields, epolls, listed, lock, queued, at, todo, clients, env>>

-----------------------------------------------------------------------------
Init ==
  /\ mem = [s \in Session |-> "none"]
  /\ status = [s \in Session |-> "receive"]
  /\ hang = [s \in Session |-> "no"]
  /\ needFree = [s \in Session |-> FALSE]
  /\ inRecv = {} /\ inSend = {} /\ listed = {} /\ lock = None
  /\ queued = [s \in Session |-> 0]
  /\ pc = [t \in Thread |-> "loop"]
  /\ at = [t \in Thread |-> None]
  /\ todo = [w \in Worker |-> {}]
  /\ client = [s \in Session |-> "none"]
  /\ unread = [s \in Session |-> FALSE]
  /\ kind = [s \in Session |-> CHOOSE k \in Kinds : TRUE]
  /\ left = [s \in Session |-> Requests]
  /\ exit = FALSE /\ pool = TRUE

Client == \E s \in Session : Ask(s) \/ HangUp(s)

Close(t) == CloseSend(t) \/ CloseRecv(t) \/ Erase(t) \/ Decide(t)

Accepter == AcceptAdd \/ AcceptOver \/ (\E s \in Session : Accept(s) \/ Refuse(s))

Receiver ==
  \/ \E s \in Session : \/ SweepIdle(s) \/ SweepHang(s) \/ RecvPick(s) \/ RecvEnds(s)
                        \/ RecvRequest(s) \/ RecvReply(s) \/ IsRunCloses(s)
  \/ Close("recv") \/ IsRunEnds

PoolThread(w) ==
  \/ \E s \in Session : WorkTake(w, s) \/ Notify(w, s)
  \/ WorkAnswer(w) \/ WorkHang(w) \/ WorkNotify(w) \/ NotifyDone(w)
  \/ Generate(w) \/ WorkReply(w) \/ WorkEnd(w)

Sender ==
  \/ \E s \in Session : \/ SendPick(s) \/ SendHang(s) \/ SendFree(s) \/ SendStart(s)
                        \/ SendDone(s) \/ SendFails(s) \/ SendBack(s)
  \/ Close("send") \/ SendOver

Next == Client \/ Accepter \/ Receiver \/ Sender \/ Exit \/ PoolDestroyed
        \/ (\E w \in Worker : PoolThread(w))

Spec == Init /\ [][Next]_vars

(* Every thread goes on while it can; clients owe nothing.                 *)
FairSpec == /\ Spec
            /\ WF_vars(Accepter) /\ WF_vars(Receiver) /\ WF_vars(Sender)
            /\ \A w \in Worker : WF_vars(PoolThread(w))

-----------------------------------------------------------------------------
(* Properties *)

(* Every variable stays in its range (the data the threads share).         *)
TypeOK ==
  /\ mem \in [Session -> {"none", "live", "freed", "twice"}]
  /\ status \in [Session -> {"receive", "publish", "hang", "send", "die"}]
  /\ hang \in [Session -> {"no", "up", "timeout"}]
  /\ needFree \in [Session -> BOOLEAN]
  /\ inRecv \subseteq Session /\ inSend \subseteq Session /\ listed \subseteq Session
  /\ lock \in Thread \cup {None}
  /\ queued \in [Session -> Nat]
  /\ pc \in [Thread -> Pc]
  /\ at \in [Thread -> Session \cup {None}]
  /\ todo \in [Worker -> SUBSET Session]
  /\ client \in [Session -> {"none", "idle", "waiting", "stray", "closed"}]
  /\ unread \in [Session -> BOOLEAN]
  /\ kind \in [Session -> Kinds]
  /\ left \in [Session -> 0 .. Requests]
  /\ exit \in BOOLEAN /\ pool \in BOOLEAN

(* Whoever closes a session the pool has or will take leaves it to the     *)
(* pool (needFree): a task never runs on freed memory, even when clients   *)
(* leave at any time and the process ends.                                 *)
PoolKeeps ==
  \A s \in Session :
    (queued[s] > 0 \/ \E w \in Worker : at[w] = s /\ pc[w] # "end") => mem[s] = "live"

(* The hand-over between the epoll sets gives an answer to one request: a  *)
(* client never gets one it does not wait for.                             *)
NoStray == \A s \in Session : client[s] # "stray"

(* Nobody handles a session that is freed (ThreadWorker's last time stamps *)
(* apart), the claim of the comment in OnClosingSocket.                    *)
UseLive ==
  \A t \in Thread : at[t] # None /\ pc[t] # "end" => mem[at[t]] = "live"

(* A live session has one keeper: a thread, the pool's list, or one epoll   *)
(* set, and then TravelSessions can find it; a freed one has none.         *)
Keepers(s) == {t \in Thread : at[t] = s /\ pc[t] # "end"}
Custody ==
  \A s \in Session :
    IF mem[s] = "live"
    THEN /\ Cardinality(Keepers(s)) + queued[s] <= 1
         /\ Keepers(s) = {} /\ queued[s] = 0 =>
              /\ s \in listed /\ (s \in inRecv) # (s \in inSend)
              /\ s \in inRecv => status[s] # "publish"
    ELSE s \notin listed \cup inRecv \cup inSend /\ mem[s] # "twice"

(* A request the plugins or the server answer is answered, one that hangs   *)
(* on a kept connection at the latest when it has hung for too long.       *)
Answered ==
  \A s \in Session :
    client[s] = "waiting" /\ (kind[s] \in {"quick", "task"} \/ (kind[s] = "hang" /\ s \in KeepAlive))
      ~> client[s] = "idle"

(* A connection that asks nothing more is closed by the server.            *)
IdleClosed == \A s \in Session : client[s] = "idle" /\ left[s] = 0 ~> client[s] = "closed"

=============================================================================
