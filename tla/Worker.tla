--------------------------------- MODULE Worker ---------------------------------
(***************************************************************************)
(* The life of a worker process (InitWorkerEnv and worker in               *)
(* src/src/uhp/worker.c, CleanEnvironment in env.c) and of the plugins it   *)
(* loads: the database's, the interceptors, the outputs.  It is composed    *)
(* with DbPool: the database plugin's Load, OnHeartbeat and Unload are the  *)
(* pool's, and what a thread of the pool does in Doworker of an output      *)
(* plugin is a pull.                                                       *)
(*                                                                         *)
(* The receive thread (one of epollThread) makes tasks of requests and, to  *)
(* answer one it refuses, calls OnException of its plugin; a thread of the  *)
(* thread pool takes a task through OnRequest of every interceptor into     *)
(* Doworker.  ThreadWorker's loop over OnResponse starts where the loop     *)
(* over OnRequest ended: it calls nothing.                                 *)
(***************************************************************************)
EXTENDS DbPool, SequencesExt

CONSTANTS
  Interceptors, Outputs,   \* the plugins, in the order in which they are loaded
  Database,                \* the database plugin
  Tasks,                   \* bound: requests that become tasks
  AcceptMayFail            \* may the last thread fail to start?

Plugins == {Database} \cup Range(Interceptors) \cup Range(Outputs)

ASSUME WorkerAssumption ==
  /\ Interceptors \in Seq(Plugins) /\ Outputs \in Seq(Plugins)
  /\ IsInjective(<<Database>> \o Interceptors \o Outputs)
  /\ Tasks \in Nat /\ AcceptMayFail \in BOOLEAN

VARIABLES
  stage, k,        \* where the main thread is, the plugin or thread it is at
  code,            \* plugins loaded
  threads,         \* of "recv", "send", "accept" those that run
  exit, orphan,    \* g_exit_flag; is the daemon gone?
  queue, asking,   \* tasks nobody has taken; threads in OnRequest
  tasks            \* tasks that may still come

wvars == <<stage, k, code, threads, exit, orphan, queue, asking, tasks>>
main == <<stage, k>>
requests == <<queue, asking, tasks>>

Working == asking \cup {t \in Thread : pc[t] # "idle"}
Leaving == exit \/ orphan

-----------------------------------------------------------------------------
(* InitWorkerEnv: any failure ends it, and CleanEnvironment follows.        *)

At(s) == stage = s
To(s) == stage' = s /\ k' = 1

InitPluginDB ==
  /\ At("database")
  /\ \/ UNCHANGED <<main, code>> /\ \E c \in Conn : LoadConnect(c)
     \/ To("interceptors") /\ code' = code \cup {Database} /\ LoadDone
     \/ To("join accept") /\ UNCHANGED code /\ LoadFails
  /\ UNCHANGED <<threads, exit, orphan, requests>>

(* The plugins of a list, one after the other: dlopen, dlsym, Load.         *)
LoadPlugins(list, then) ==
  \/ /\ k <= Len(list)
     /\ code' = code \cup {list[k]} /\ k' = k + 1 /\ UNCHANGED stage
  \/ k <= Len(list) /\ To("join accept") /\ UNCHANGED code
  \/ k > Len(list) /\ To(then) /\ UNCHANGED code

InitInterceptors ==
  /\ At("interceptors") /\ LoadPlugins(Interceptors, "outputs")
  /\ UNCHANGED <<threads, exit, orphan, requests, vars>>

InitPluginOutput ==
  /\ At("outputs") /\ LoadPlugins(Outputs, "pool")
  /\ UNCHANGED <<threads, exit, orphan, requests, vars>>

(* threadpool_create and threadpool_start.                                 *)
StartPool ==
  /\ At("pool") /\ (To("threads") \/ To("join accept"))
  /\ UNCHANGED <<code, threads, exit, orphan, requests, vars>>

(* The event loops' threads, then the accept thread.  A loop's thread that  *)
(* cannot be made sets g_exit_flag, the accept thread does not.             *)
StartThreads ==
  /\ At("threads")
  /\ LET t == <<"recv", "send", "accept">>[k]
     IN  \/ /\ threads' = threads \cup {t} /\ UNCHANGED exit
            /\ IF t = "accept" THEN To("run") ELSE k' = k + 1 /\ UNCHANGED stage
         \/ /\ t # "accept" \/ AcceptMayFail
            /\ To("join accept") /\ UNCHANGED threads
            /\ exit' = (exit \/ t # "accept")
  /\ UNCHANGED <<code, orphan, requests, vars>>

-----------------------------------------------------------------------------
(* worker: the loop of the main thread.                                    *)

OnHeartbeat ==
  /\ At("run") /\ Heartbeat
  /\ UNCHANGED wvars

(* The slot of the status table asks it to leave.                          *)
AskedToLeave ==
  /\ At("run") /\ ~exit
  /\ exit' = TRUE
  /\ UNCHANGED <<main, code, threads, orphan, requests, vars>>

DaemonGone ==
  /\ ~orphan /\ ~At("gone")
  /\ orphan' = TRUE
  /\ UNCHANGED <<main, code, threads, exit, requests, vars>>

Leave ==
  /\ At("run") /\ Leaving /\ To("join accept")
  /\ UNCHANGED <<code, threads, exit, orphan, requests, vars>>

-----------------------------------------------------------------------------
(* The threads.                                                            *)

AddTask ==
  /\ "recv" \in threads /\ tasks > 0
  /\ tasks' = tasks - 1 /\ queue' = queue + 1
  /\ UNCHANGED <<main, code, threads, exit, orphan, asking, vars>>

(* RecvEpollWorker goes on, asked to leave, until no session is left; none  *)
(* ends whose request is worked on.                                        *)
RecvEnds ==
  /\ "recv" \in threads
  /\ orphan \/ (exit /\ queue = 0 /\ Working = {})
  /\ threads' = threads \ {"recv"}
  /\ UNCHANGED <<main, code, exit, orphan, requests, vars>>

OtherEnds(t) ==
  /\ t \in threads \ {"recv"} /\ Leaving
  /\ threads' = threads \ {t}
  /\ UNCHANGED <<main, code, exit, orphan, requests, vars>>

(* ThreadWorker: into the interceptors' OnRequest, from there into Doworker *)
(* or, when one refuses, back with an error.                               *)
OnRequest(t) ==
  /\ t \notin Working /\ queue > 0
  /\ queue' = queue - 1 /\ asking' = asking \cup {t}
  /\ UNCHANGED <<main, code, threads, exit, orphan, tasks, vars>>

Refused(t) ==
  /\ t \in asking
  /\ asking' = asking \ {t}
  /\ UNCHANGED <<main, code, threads, exit, orphan, queue, tasks, vars>>

Doworker(t) ==
  /\ t \in asking /\ Ask(t)
  /\ asking' = asking \ {t}
  /\ UNCHANGED <<main, code, threads, exit, orphan, queue, tasks>>

PoolThread(t) ==
  \/ OnRequest(t) \/ Refused(t) \/ Doworker(t)
  \/ Pull(t) /\ UNCHANGED wvars

-----------------------------------------------------------------------------
(* CleanEnvironment                                                        *)

Keep == UNCHANGED <<code, threads, exit, orphan, requests, vars>>

JoinAccept == At("join accept") /\ "accept" \notin threads /\ To("join recv") /\ Keep

JoinRecvNot == At("join recv") /\ To("destroy") /\ Keep  \* defect: epollThread is 0
JoinRecv == At("join recv") /\ "recv" \notin threads /\ To("destroy") /\ Keep

(* threadpool_destroy: the tasks in the queue are still done.               *)
DestroyPool == At("destroy") /\ queue = 0 /\ Working = {} /\ To("join send") /\ Keep

JoinSend == At("join send") /\ "send" \notin threads /\ To("unload database") /\ Keep

(* UnInitPlugin: the database first; one Unload that fails ends it.         *)
UnInitPluginDB ==
  /\ At("unload database")
  /\ Unload
  /\ To("unload interceptors") /\ code' = code \ {Database}
  /\ UNCHANGED <<threads, exit, orphan, requests>>

UnloadPlugins(list, then) ==
  LET left == SelectSeq(list, LAMBDA p : p \in code)
  IN  \/ /\ left # <<>>
         /\ code' = code \ {Head(left)} /\ UNCHANGED main
      \/ left # <<>> /\ To("gone") /\ UNCHANGED code
      \/ left = <<>> /\ To(then) /\ UNCHANGED code

UnInitPlugin ==
  /\ \/ At("unload interceptors") /\ UnloadPlugins(Interceptors, "unload outputs")
     \/ At("unload outputs") /\ UnloadPlugins(Outputs, "gone")
  /\ UNCHANGED <<threads, exit, orphan, requests, vars>>

CleanEnvironment == \/ JoinAccept \/ JoinRecv \/ DestroyPool \/ JoinSend
                    \/ UnInitPluginDB \/ UnInitPlugin

-----------------------------------------------------------------------------
InitWorkerEnv == \/ InitPluginDB \/ InitInterceptors \/ InitPluginOutput
                 \/ StartPool \/ StartThreads

WorkerInit ==
  /\ Init
  /\ stage = "database" /\ k = 1
  /\ code = {} /\ threads = {}
  /\ exit = FALSE /\ orphan = FALSE
  /\ queue = 0 /\ asking = {} /\ tasks = Tasks

Threads == \/ RecvEnds \/ OtherEnds("send") \/ OtherEnds("accept")

External == \E c \in Conn : FiveMinutes(c) \/ Lose(c)

WorkerNext ==
  \/ InitWorkerEnv \/ OnHeartbeat \/ AskedToLeave \/ DaemonGone \/ Leave
  \/ CleanEnvironment
  \/ AddTask \/ Threads \/ \E t \in Thread : PoolThread(t)
  \/ External /\ UNCHANGED wvars

allvars == <<vars, wvars>>

WorkerSpec == WorkerInit /\ [][WorkerNext]_allvars

(* Every thread runs on.                                                   *)
WorkerFairSpec ==
  /\ WorkerSpec
  /\ WF_allvars(InitWorkerEnv \/ Leave \/ CleanEnvironment)
  /\ WF_allvars(RecvEnds) /\ WF_allvars(OtherEnds("send")) /\ WF_allvars(OtherEnds("accept"))
  /\ \A t \in Thread : WF_allvars(PoolThread(t))

-----------------------------------------------------------------------------
(* Properties *)

(* The variables stay in their ranges.                                     *)
WorkerTypeOK ==
  /\ TypeOK
  /\ k \in Nat /\ code \subseteq Plugins /\ threads \subseteq {"recv", "send", "accept"}
  /\ exit \in BOOLEAN /\ orphan \in BOOLEAN
  /\ queue \in 0 .. Tasks /\ tasks \in 0 .. Tasks /\ asking \subseteq Thread

(* No thread is in a plugin that is not loaded, and none uses connections   *)
(* of a pool that is deleted: not in OnRequest, not in Doworker, and the    *)
(* receive thread may call OnException as long as it runs.  UnInitPlugin    *)
(* closes the libraries and looks at nobody; that all who could be in them  *)
(* have been joined, on every way a worker starts, fails to start and ends, *)
(* is all that keeps their code mapped.                                    *)
InCode ==
  /\ "recv" \in threads => Range(Outputs) \subseteq code
  /\ asking # {} => Range(Interceptors) \subseteq code
  /\ \A t \in Thread : pc[t] # "idle" => pool = "loaded" /\ Range(Outputs) \subseteq code

(* A worker that leaves its loop or that could not start ends, whatever it  *)
(* had begun: the joins of CleanEnvironment do not wait for a thread nobody *)
(* has told to leave.                                                      *)
WorkerEnds == At("join accept") ~> At("gone")

=============================================================================
