---------------------------- MODULE Worker_proofs ---------------------------
(***************************************************************************)
(* Theorems about DbPool and Worker, for any number of threads, connections*)
(* and pulls.  The step lemmas of the pool assume no more of Unload than   *)
(* that no thread is at work, so that they serve the process that calls it.*)
(***************************************************************************)
EXTENDS Worker, TLAPS

PcPoints == {"idle", "get", "bind", "prepare", "execute", "commit", "rollback", "release"}

-----------------------------------------------------------------------------
(* The deque.                                                              *)

Elems(q) == {q[i] : i \in DOMAIN q}
Once(q) == \A i, j \in DOMAIN q : q[i] = q[j] => i = j

LEMMA ElemsType == ASSUME NEW S, NEW q \in Seq(S) PROVE Elems(q) \subseteq S
<1>1. DOMAIN q = 1 .. Len(q) /\ \A i \in 1 .. Len(q) : q[i] \in S
  OBVIOUS
<1> QED BY <1>1 DEF Elems

(* push_back of a connection that is not in the deque.                     *)
LEMMA AppendOnce ==
  ASSUME NEW S, NEW q \in Seq(S), NEW c \in S, c \notin Elems(q), Once(q)
  PROVE  /\ Append(q, c) \in Seq(S)
         /\ Elems(Append(q, c)) = Elems(q) \cup {c}
         /\ Once(Append(q, c))
<1>1. /\ Append(q, c) \in Seq(S)
      /\ DOMAIN q = 1 .. Len(q) /\ Len(q) \in Nat
      /\ DOMAIN Append(q, c) = 1 .. Len(q) + 1
      /\ Append(q, c)[Len(q) + 1] = c
      /\ \A i \in 1 .. Len(q) : Append(q, c)[i] = q[i]
  OBVIOUS
<1> DEFINE r == Append(q, c)
<1> HIDE DEF r
<1>2. \A i \in DOMAIN r : i = Len(q) + 1 \/ i \in DOMAIN q
  BY <1>1 DEF r
<1>3. Elems(r) = Elems(q) \cup {c}
  BY <1>1, <1>2 DEF Elems, r
<1>4. Once(r)
  BY <1>1, <1>2 DEF Elems, Once, r
<1> QED BY <1>1, <1>3, <1>4 DEF r

(* push_front of a connection that is not in the deque.                    *)
LEMMA ConsOnce ==
  ASSUME NEW S, NEW q \in Seq(S), NEW c \in S, c \notin Elems(q), Once(q),
         NEW r, r = <<c>> \o q
  PROVE  r \in Seq(S) /\ Elems(r) = Elems(q) \cup {c} /\ Once(r)
<1>1. /\ <<c>> \o q \in Seq(S)
      /\ DOMAIN q = 1 .. Len(q) /\ Len(q) \in Nat
      /\ DOMAIN (<<c>> \o q) = 1 .. Len(q) + 1
      /\ (<<c>> \o q)[1] = c
      /\ \A i \in 1 .. Len(q) : (<<c>> \o q)[i + 1] = q[i]
  OBVIOUS
<1>2. \A i \in DOMAIN r : i = 1 \/ (i - 1 \in DOMAIN q /\ r[i] = q[i - 1])
  <2> SUFFICES ASSUME NEW i \in 1 .. Len(q) + 1, i # 1
               PROVE  i - 1 \in 1 .. Len(q) /\ r[i] = q[i - 1]
    BY <1>1
  <2>1. i - 1 \in 1 .. Len(q) /\ (i - 1) + 1 = i
    BY <1>1
  <2> QED BY <1>1, <2>1
<1>3. r[1] = c /\ 1 \in DOMAIN r
  BY <1>1
<1>4. Elems(r) = Elems(q) \cup {c}
  <2>1. \A i \in 1 .. Len(q) : i + 1 \in 1 .. Len(q) + 1
    BY <1>1
  <2>2. \A i \in 1 .. Len(q) : i + 1 \in DOMAIN r /\ r[i + 1] = q[i]
    <3> TAKE i \in 1 .. Len(q)
    <3>1. i + 1 \in DOMAIN r
      BY <1>1, <2>1
    <3>2. r[i + 1] = q[i]
      BY <1>1
    <3> QED BY <3>1, <3>2
  <2>3. \A i \in DOMAIN q : q[i] \in Elems(r)
    <3> TAKE i \in DOMAIN q
    <3>1. i + 1 \in DOMAIN r /\ r[i + 1] = q[i]
      BY <1>1, <2>2
    <3> QED BY <3>1 DEF Elems
  <2>4. \A i \in DOMAIN r : r[i] \in Elems(q) \cup {c}
    BY <1>2, <1>3 DEF Elems
  <2>5. c \in Elems(r)
    BY <1>3 DEF Elems
  <2>6. \A x \in Elems(r) : x \in Elems(q) \cup {c}
    <3> TAKE x \in Elems(r)
    <3>1. PICK i \in DOMAIN r : x = r[i]
      BY DEF Elems
    <3> QED BY <2>4, <3>1
  <2>7. \A x \in Elems(q) : x \in Elems(r)
    <3> TAKE x \in Elems(q)
    <3>1. PICK i \in DOMAIN q : x = q[i]
      BY DEF Elems
    <3> QED BY <2>3, <3>1
  <2> QED BY <2>5, <2>6, <2>7
<1>5. Once(r)
  <2> SUFFICES ASSUME NEW i \in DOMAIN r, NEW j \in DOMAIN r, r[i] = r[j]
               PROVE  i = j
    BY DEF Once
  <2>1. i \in Int /\ j \in Int
    BY <1>1
  <2>2. CASE i = 1 \/ j = 1
    BY <1>2, <1>3, <2>2 DEF Elems
  <2>3. CASE i # 1 /\ j # 1
    BY <1>2, <2>1, <2>3 DEF Once
  <2> QED BY <2>2, <2>3
<1> QED BY <1>1, <1>4, <1>5

(* pop_front.                                                              *)
LEMMA TailOnce ==
  ASSUME NEW S, NEW q \in Seq(S), q # <<>>, Once(q)
  PROVE  /\ Head(q) \in S /\ Tail(q) \in Seq(S)
         /\ Head(q) \in Elems(q)
         /\ Elems(Tail(q)) = Elems(q) \ {Head(q)}
         /\ Once(Tail(q))
<1>1. /\ Head(q) = q[1] /\ Head(q) \in S /\ Tail(q) \in Seq(S)
      /\ Len(q) \in Nat /\ Len(q) >= 1
      /\ DOMAIN q = 1 .. Len(q)
      /\ DOMAIN Tail(q) = 1 .. Len(q) - 1
      /\ \A i \in 1 .. Len(q) - 1 : Tail(q)[i] = q[i + 1]
  OBVIOUS
<1> DEFINE r == Tail(q)
<1> HIDE DEF r
<1>2. \A i \in DOMAIN r : i \in Int /\ i + 1 \in DOMAIN q /\ i + 1 # 1 /\ r[i] = q[i + 1]
  BY <1>1 DEF r
<1>3. \A i \in DOMAIN q : i = 1 \/ (i - 1 \in DOMAIN r /\ r[i - 1] = q[i])
  <2> SUFFICES ASSUME NEW i \in 1 .. Len(q), i # 1
               PROVE  i - 1 \in 1 .. Len(q) - 1 /\ r[i - 1] = q[i]
    BY <1>1 DEF r
  <2>1. i - 1 \in 1 .. Len(q) - 1 /\ (i - 1) + 1 = i
    BY <1>1
  <2> QED BY <1>1, <2>1 DEF r
<1>4. 1 \in DOMAIN q
  BY <1>1
<1>5. Elems(r) = Elems(q) \ {q[1]}
  <2>1. \A i \in DOMAIN r : r[i] \in Elems(q) /\ r[i] # q[1]
    BY <1>2, <1>4 DEF Elems, Once
  <2>2. \A i \in DOMAIN q : q[i] # q[1] => q[i] \in Elems(r)
    BY <1>3 DEF Elems
  <2> QED BY <2>1, <2>2 DEF Elems
<1>6. Once(r)
  <2> SUFFICES ASSUME NEW i \in DOMAIN r, NEW j \in DOMAIN r, r[i] = r[j]
               PROVE  i = j
    BY DEF Once
  <2>1. i + 1 = j + 1
    BY <1>2 DEF Once
  <2> QED BY <1>2, <2>1
<1> QED BY <1>1, <1>4, <1>5, <1>6 DEF r, Elems

(* pop_back.                                                               *)
LEMMA FrontOnce ==
  ASSUME NEW S, NEW q \in Seq(S), q # <<>>, Once(q)
  PROVE  /\ q[Len(q)] \in Elems(q)
         /\ SubSeq(q, 1, Len(q) - 1) \in Seq(S)
         /\ Elems(SubSeq(q, 1, Len(q) - 1)) \subseteq Elems(q) \ {q[Len(q)]}
         /\ Once(SubSeq(q, 1, Len(q) - 1))
<1>1. /\ Len(q) \in Nat /\ Len(q) >= 1
      /\ DOMAIN q = 1 .. Len(q)
      /\ SubSeq(q, 1, Len(q) - 1) \in Seq(S)
      /\ DOMAIN SubSeq(q, 1, Len(q) - 1) = 1 .. Len(q) - 1
      /\ \A i \in 1 .. Len(q) - 1 : SubSeq(q, 1, Len(q) - 1)[i] = q[i]
  OBVIOUS
<1> DEFINE r == SubSeq(q, 1, Len(q) - 1)
<1> HIDE DEF r
<1>2. \A i \in DOMAIN r : i \in DOMAIN q /\ r[i] = q[i]
  BY <1>1 DEF r
<1>3. Len(q) \in DOMAIN q /\ Len(q) \notin DOMAIN r
  BY <1>1 DEF r
<1> QED BY <1>1, <1>2, <1>3 DEF r, Elems, Once

-----------------------------------------------------------------------------
(* The inductive invariant: OneUser needs nothing but types; that a         *)
(* statement has its own parameters needs to know that a connection comes   *)
(* back, from every way a statement ends, with none.                        *)

Clean == {"bind", "commit", "rollback", "release"}
Bound == {"prepare", "execute"}
FitAt(t) == /\ pc[t] \in Clean => params[my[t]] = <<>>
            /\ pc[t] \in Bound => params[my[t]] = <<stmt[t]>>

PoolType ==
  /\ idle \in Seq(Conn) /\ inUse \subseteq Conn
  /\ my \in [Thread -> Conn \cup {None}]
  /\ pc \in [Thread -> PcPoints]
  /\ stmt \in [Thread -> {"select", "update"}]
  /\ params \in [Conn -> Seq({"select", "update"})]

PoolInv ==
  /\ PoolType
  /\ OneUser
  /\ \A c \in Idle : params[c] = <<>>
  /\ \A t \in Thread : FitAt(t)

poolVars == <<idle, inUse, my, pc, stmt, params>>

LEMMA IdleElems == Idle = Elems(idle) /\ Idle' = Elems(idle')
  BY DEF Idle, Elems

LEMMA PoolInvInit == Init => PoolInv
<1> SUFFICES ASSUME Init PROVE PoolInv
  OBVIOUS
<1>1. idle = <<>> /\ inUse = {} /\ Idle = {}
  BY DEF Init, Idle
<1>2. PoolType
  BY <1>1 DEF Init, PoolType, PcPoints
<1>3. \A t \in Thread : pc[t] = "idle"
  BY DEF Init
<1> QED BY <1>1, <1>2, <1>3 DEF PoolInv, OneUser, Busy, FitAt, Clean, Bound

(* Steps that leave connections, threads and statements alone.             *)
LEMMA PoolInvQuiet == PoolInv /\ UNCHANGED poolVars => PoolInv'
  BY DEF PoolInv, PoolType, OneUser, Busy, FitAt, Idle, poolVars

(* A thread moves on with the connection it has.                           *)
LEMMA PoolInvMove ==
  ASSUME PoolInv, NEW t \in Thread, Busy(t), NEW l \in PcPoints \ {"idle", "get"},
         UNCHANGED <<idle, inUse, my>>,
         pc' = [pc EXCEPT ![t] = l],
         stmt' \in [Thread -> {"select", "update"}],
         \A u \in Thread \ {t} : stmt'[u] = stmt[u],
         params' \in [Conn -> Seq({"select", "update"})],
         \A c \in Conn \ {my[t]} : params'[c] = params[c],
         FitAt(t)'
  PROVE  PoolInv'
<1>1. /\ pc'[t] = l /\ \A u \in Thread \ {t} : pc'[u] = pc[u]
      /\ pc' \in [Thread -> PcPoints]
  BY DEF PoolInv, PoolType
<1>2. \A u \in Thread : Busy(u)' <=> Busy(u)
  BY <1>1 DEF Busy
<1>3. PoolType'
  BY <1>1 DEF PoolInv, PoolType
<1>4. OneUser'
  BY <1>2 DEF PoolInv, OneUser, Idle
<1>5. \A c \in Idle' : params'[c] = <<>>
  <2>1. Idle' = Idle /\ Idle \subseteq Conn /\ my[t] \notin Idle
    BY DEF PoolInv, PoolType, OneUser, Idle
  <2> QED BY <2>1 DEF PoolInv
<1>6. \A u \in Thread : FitAt(u)'
  <2> SUFFICES ASSUME NEW u \in Thread, u # t PROVE FitAt(u)'
    OBVIOUS
  <2>1. CASE Busy(u)
    <3>1. my[u] \in Conn \ {my[t]}
      BY <2>1 DEF PoolInv, PoolType, OneUser
    <3> QED BY <1>1, <3>1 DEF PoolInv, FitAt
  <2>2. CASE ~Busy(u)
    BY <1>1, <2>2 DEF FitAt, Busy, Clean, Bound
  <2> QED BY <2>1, <2>2
<1> QED BY <1>3, <1>4, <1>5, <1>6 DEF PoolInv

(* A thread that has no connection waits for one, or gives up.             *)
LEMMA PoolInvWait ==
  ASSUME PoolInv, NEW t \in Thread, ~Busy(t), NEW l \in {"idle", "get"},
         UNCHANGED <<idle, inUse, my, stmt, params>>,
         pc' = [pc EXCEPT ![t] = l]
  PROVE  PoolInv'
<1>1. /\ pc'[t] = l /\ \A u \in Thread \ {t} : pc'[u] = pc[u]
      /\ pc' \in [Thread -> PcPoints]
  BY DEF PoolInv, PoolType, PcPoints
<1>2. \A u \in Thread : Busy(u)' <=> Busy(u)
  BY <1>1 DEF Busy
<1>3. \A u \in Thread : FitAt(u)'
  BY <1>1 DEF PoolInv, FitAt, Clean, Bound
<1> QED BY <1>1, <1>2, <1>3 DEF PoolInv, PoolType, OneUser, Idle

(* A thread gets a connection, from the deque or a new one.                *)
LEMMA PoolInvGot ==
  ASSUME PoolInv, NEW t \in Thread, ~Busy(t), NEW c \in Conn, c \notin inUse,
         Got(t, c),
         idle' \in Seq(Conn), Once(idle'), Elems(idle') = Elems(idle) \ {c},
         params' = [params EXCEPT ![c] = <<>>]
  PROVE  PoolInv'
<1> USE IdleElems
<1>1. /\ pc'[t] = "bind" /\ my'[t] = c /\ inUse' = inUse \cup {c}
      /\ \A u \in Thread \ {t} : pc'[u] = pc[u] /\ my'[u] = my[u] /\ stmt'[u] = stmt[u]
      /\ params'[c] = <<>> /\ \A d \in Conn \ {c} : params'[d] = params[d]
  BY DEF PoolInv, PoolType, Got, Goto
<1>2. PoolType'
  BY DEF PoolInv, PoolType, Got, Goto, PcPoints
<1>3. \A u \in Thread \ {t} : Busy(u)' <=> Busy(u)
  BY <1>1 DEF Busy
<1>4. OneUser'
  <2>1. Idle' \cap inUse' = {}
    BY <1>1 DEF PoolInv, OneUser
  <2>2. \A u \in Thread : Busy(u)' => my'[u] \in inUse'
    BY <1>1, <1>3 DEF PoolInv, OneUser
  <2>3. \A u, v \in Thread : Busy(u)' /\ Busy(v)' /\ my'[u] = my'[v] => u = v
    BY <1>1, <1>3 DEF PoolInv, OneUser
  <2> QED BY <2>1, <2>2, <2>3 DEF OneUser, Once
<1>5. \A d \in Idle' : params'[d] = <<>>
  <2>1. Idle' \subseteq Conn \ {c} /\ Idle' \subseteq Idle
    BY ElemsType DEF PoolInv, PoolType
  <2> QED BY <1>1, <2>1 DEF PoolInv
<1>6. \A u \in Thread : FitAt(u)'
  <2>1. FitAt(t)'
    BY <1>1 DEF FitAt, Bound
  <2>2. ASSUME NEW u \in Thread \ {t} PROVE FitAt(u)'
    <3>1. CASE Busy(u)
      <4>1. my[u] \in Conn \ {c}
        BY <3>1 DEF PoolInv, PoolType, OneUser
      <4>2. /\ pc'[u] = pc[u] /\ my'[u] = my[u] /\ stmt'[u] = stmt[u]
            /\ params'[my[u]] = params[my[u]]
        BY <1>1, <4>1
      <4>3. FitAt(u)
        BY DEF PoolInv
      <4> QED BY <4>2, <4>3 DEF FitAt
    <3>2. CASE ~Busy(u)
      BY <1>1, <3>2 DEF FitAt, Busy, Clean, Bound
    <3> QED BY <3>1, <3>2
  <2> QED BY <2>1, <2>2
<1> QED BY <1>2, <1>4, <1>5, <1>6 DEF PoolInv

-----------------------------------------------------------------------------
(* One lemma per operation.                                                *)

LEMMA InvLoadConnect == ASSUME PoolInv, NEW c \in Conn, LoadConnect(c) PROVE PoolInv'
<1> USE IdleElems
<1>1. /\ idle' = Append(idle, c) /\ c \notin Idle /\ c \notin inUse
      /\ UNCHANGED <<inUse, my, pc, stmt>>
      /\ params' = [params EXCEPT ![c] = <<>>]
  BY DEF LoadConnect, Connect, Exists
<1>2. idle' \in Seq(Conn) /\ Elems(idle') = Elems(idle) \cup {c} /\ Once(idle')
  BY <1>1, AppendOnce DEF PoolInv, PoolType, OneUser, Once
<1>3. params'[c] = <<>> /\ \A d \in Conn \ {c} : params'[d] = params[d]
  BY <1>1 DEF PoolInv, PoolType
<1>4. PoolType'
  BY <1>1, <1>2 DEF PoolInv, PoolType
<1>5. OneUser'
  BY <1>1, <1>2 DEF PoolInv, OneUser, Busy, Once
<1>6. \A d \in Idle' : params'[d] = <<>>
  <2>1. Elems(idle) \subseteq Conn
    BY ElemsType DEF PoolInv, PoolType
  <2> QED BY <1>2, <1>3, <2>1 DEF PoolInv
<1>7. ASSUME NEW u \in Thread PROVE FitAt(u)'
  <2>1. CASE Busy(u)
    <3>1. my[u] \in Conn \ {c}
      BY <1>1, <2>1 DEF PoolInv, PoolType, OneUser
    <3> QED BY <1>1, <1>3, <3>1 DEF PoolInv, FitAt
  <2>2. CASE ~Busy(u)
    BY <1>1, <2>2 DEF FitAt, Busy, Clean, Bound
  <2> QED BY <2>1, <2>2
<1> QED BY <1>4, <1>5, <1>6, <1>7 DEF PoolInv

LEMMA InvLoadFails == ASSUME PoolInv, LoadFails PROVE PoolInv'
<1>1. idle' = <<>> /\ Idle' = {} /\ UNCHANGED <<inUse, my, pc, stmt, params>>
  BY DEF LoadFails, Idle
<1> QED BY <1>1 DEF PoolInv, PoolType, OneUser, Busy, FitAt

LEMMA InvLoad == ASSUME PoolInv, Load PROVE PoolInv'
<1>1. CASE LoadDone
  BY <1>1, PoolInvQuiet DEF LoadDone, poolVars
<1> QED BY <1>1, InvLoadConnect, InvLoadFails DEF Load

LEMMA InvGetIdle == ASSUME PoolInv, NEW t \in Thread, GetIdle(t) PROVE PoolInv'
<1> USE IdleElems
<1> DEFINE c == Head(idle)
<1>1. ~Busy(t) /\ Got(t, c) /\ idle # <<>> /\ idle' = Tail(idle) /\ params' = params
  BY DEF GetIdle, Busy
<1>2. /\ c \in Conn /\ idle' \in Seq(Conn) /\ c \in Elems(idle)
      /\ Elems(idle') = Elems(idle) \ {c} /\ Once(idle')
  BY <1>1, TailOnce DEF PoolInv, PoolType, OneUser, Once
<1>3. c \notin inUse /\ params[c] = <<>>
  BY <1>2 DEF PoolInv, OneUser
<1>4. params' = [params EXCEPT ![c] = <<>>]
  BY <1>1, <1>2, <1>3 DEF PoolInv, PoolType
<1> HIDE DEF c
<1> QED BY <1>1, <1>2, <1>3, <1>4, PoolInvGot

LEMMA InvGetNew ==
  ASSUME PoolInv, NEW t \in Thread, NEW c \in Conn, GetNew(t, c) PROVE PoolInv'
<1>1. /\ ~Busy(t) /\ Got(t, c) /\ idle = <<>> /\ idle' = idle /\ c \notin inUse
      /\ params' = [params EXCEPT ![c] = <<>>]
  BY DEF GetNew, Connect, Exists, Busy
<1>2. idle' \in Seq(Conn) /\ Once(idle') /\ Elems(idle') = Elems(idle) \ {c}
  BY <1>1 DEF Once, Elems
<1> QED BY <1>1, <1>2, PoolInvGot

LEMMA InvAsk == ASSUME PoolInv, NEW t \in Thread, Ask(t) PROVE PoolInv'
<1>1. /\ ~Busy(t) /\ UNCHANGED <<idle, inUse, my, stmt, params>>
      /\ pc' = [pc EXCEPT ![t] = "get"]
  BY DEF Ask, Busy, deques, Goto
<1> QED BY <1>1, PoolInvWait

LEMMA InvGet == ASSUME PoolInv, NEW t \in Thread, Get(t) PROVE PoolInv'
<1>1. CASE GetTimeOut(t)
  <2>1. /\ ~Busy(t) /\ UNCHANGED <<idle, inUse, my, stmt, params>>
        /\ pc' = [pc EXCEPT ![t] = "idle"]
    BY <1>1 DEF GetTimeOut, Busy, deques, Goto
  <2> QED BY <2>1, PoolInvWait
<1> QED BY <1>1, InvGetIdle, InvGetNew DEF Get

(* What a thread at work has.                                              *)
LEMMA AtWork ==
  ASSUME PoolInv, NEW t \in Thread, pc[t] \in Clean \cup Bound
  PROVE  /\ Busy(t) /\ my[t] \in Conn /\ my[t] \in inUse
         /\ stmt[t] \in {"select", "update"}
         /\ pc[t] \in Clean => params[my[t]] = <<>>
         /\ pc[t] \in Bound => params[my[t]] = <<stmt[t]>>
<1>1. Busy(t)
  BY DEF Busy, Clean, Bound
<1> QED BY <1>1 DEF PoolInv, PoolType, OneUser, FitAt

LEMMA InvBind == ASSUME PoolInv, NEW t \in Thread, Bind(t) PROVE PoolInv'
<1>1. /\ pc[t] = "bind" /\ UNCHANGED <<idle, inUse, my, stmt>>
      /\ pc' = [pc EXCEPT ![t] = "prepare"]
      /\ params' = [params EXCEPT ![my[t]] = Append(@, stmt[t])]
  BY DEF Bind, deques, Goto
<1>2. /\ Busy(t) /\ my[t] \in Conn /\ params[my[t]] = <<>>
      /\ stmt[t] \in {"select", "update"}
  BY <1>1, AtWork DEF Clean
<1>3. /\ params' \in [Conn -> Seq({"select", "update"})]
      /\ params'[my[t]] = <<stmt[t]>>
      /\ \A c \in Conn \ {my[t]} : params'[c] = params[c]
  BY <1>1, <1>2 DEF PoolInv, PoolType
<1>4. FitAt(t)' /\ stmt' \in [Thread -> {"select", "update"}]
  BY <1>1, <1>3 DEF PoolInv, PoolType, FitAt, Clean
<1> QED BY <1>1, <1>2, <1>3, <1>4, PoolInvMove DEF PcPoints

(* A statement has ended: nothing is bound any more.                       *)
LEMMA InvEnded ==
  ASSUME PoolInv, NEW t \in Thread, pc[t] \in Bound, NEW l \in Clean,
         UNCHANGED <<idle, inUse, my>>,
         stmt' \in [Thread -> {"select", "update"}],
         \A u \in Thread \ {t} : stmt'[u] = stmt[u],
         Destroy(my[t]), Goto(t, l)
  PROVE  PoolInv'
<1>1. Busy(t) /\ my[t] \in Conn
  BY AtWork
<1>2. pc' = [pc EXCEPT ![t] = l] /\ params' = [params EXCEPT ![my[t]] = <<>>]
  BY DEF Destroy, Goto
<1>3. /\ params' \in [Conn -> Seq({"select", "update"})]
      /\ params'[my[t]] = <<>>
      /\ \A c \in Conn \ {my[t]} : params'[c] = params[c]
  BY <1>1, <1>2 DEF PoolInv, PoolType
<1>4. pc'[t] = l /\ l \in PcPoints \ {"idle", "get"}
  BY <1>2 DEF PoolInv, PoolType, PcPoints, Clean
<1>5. FitAt(t)'
  BY <1>3, <1>4 DEF FitAt, Clean, Bound
<1> QED BY <1>1, <1>2, <1>3, <1>4, <1>5, PoolInvMove

(* A thread at work goes on to where the same is bound.                    *)
LEMMA InvGoesOn ==
  ASSUME PoolInv, NEW t \in Thread, NEW l,
         \/ pc[t] \in Clean /\ l \in Clean
         \/ pc[t] \in Bound /\ l \in Bound,
         UNCHANGED <<idle, inUse, my, stmt, params>>, Goto(t, l)
  PROVE  PoolInv'
<1>1. Busy(t) /\ FitAt(t) /\ l \in PcPoints \ {"idle", "get"}
  BY AtWork DEF PoolInv, PcPoints, Clean, Bound
<1>2. pc' = [pc EXCEPT ![t] = l] /\ pc'[t] = l
  BY DEF Goto, PoolInv, PoolType
<1>3. FitAt(t)'
  BY <1>1, <1>2 DEF FitAt, Clean, Bound
<1> QED BY <1>1, <1>2, <1>3, PoolInvMove DEF PoolInv, PoolType

LEMMA InvPrepare == ASSUME PoolInv, NEW t \in Thread, Prepare(t) PROVE PoolInv'
<1>1. pc[t] = "prepare" /\ UNCHANGED <<idle, inUse, my, stmt>>
  BY DEF Prepare, deques
<1>2. CASE Goto(t, "execute") /\ UNCHANGED params
  BY <1>1, <1>2, InvGoesOn DEF Bound
<1>3. CASE Goto(t, "rollback") /\ Destroy(my[t])
  BY <1>1, <1>3, InvEnded DEF Bound, Clean, PoolInv, PoolType
<1> QED BY <1>2, <1>3 DEF Prepare

LEMMA InvExecute ==
  ASSUME PoolInv, NEW t \in Thread,
         ExecuteSelect(t) \/ ExecuteUpdate(t) \/ ExecuteFails(t)
  PROVE  PoolInv'
<1>1. CASE ExecuteSelect(t)
  <2> DEFINE l == IF OverMax(t) THEN "rollback" ELSE "bind"
  <2>1. /\ pc[t] \in Bound /\ l \in Clean /\ UNCHANGED <<idle, inUse, my>>
        /\ Destroy(my[t]) /\ Goto(t, l)
        /\ stmt' = [stmt EXCEPT ![t] = "update"]
    BY <1>1 DEF ExecuteSelect, Executes, deques, Bound, Clean
  <2>2. /\ stmt' \in [Thread -> {"select", "update"}]
        /\ \A u \in Thread \ {t} : stmt'[u] = stmt[u]
    BY <2>1 DEF PoolInv, PoolType
  <2> HIDE DEF l
  <2> QED BY <2>1, <2>2, InvEnded
<1>2. CASE ExecuteUpdate(t)
  <2>1. /\ pc[t] \in Bound /\ UNCHANGED <<idle, inUse, my, stmt>>
        /\ Destroy(my[t]) /\ Goto(t, "commit") /\ "commit" \in Clean
    BY <1>2 DEF ExecuteUpdate, Executes, deques, Bound, Clean
  <2> QED BY <2>1, InvEnded DEF PoolInv, PoolType
<1>3. CASE ExecuteFails(t)
  <2>1. /\ pc[t] \in Bound /\ UNCHANGED <<idle, inUse, my, stmt>>
        /\ Destroy(my[t]) /\ Goto(t, "rollback") /\ "rollback" \in Clean
    BY <1>3 DEF ExecuteFails, deques, Bound, Clean
  <2> QED BY <2>1, InvEnded DEF PoolInv, PoolType
<1> QED BY <1>1, <1>2, <1>3

LEMMA InvEndTransaction ==
  ASSUME PoolInv, NEW t \in Thread, Commit(t) \/ Rollback(t) PROVE PoolInv'
<1>1. /\ pc[t] \in Clean /\ "release" \in Clean
      /\ UNCHANGED <<idle, inUse, my, stmt, params>> /\ Goto(t, "release")
  BY DEF Commit, Rollback, deques, Clean
<1> QED BY <1>1, InvGoesOn

LEMMA InvRelease == ASSUME PoolInv, NEW t \in Thread, Release(t) PROVE PoolInv'
<1> USE IdleElems
<1> DEFINE c == my[t]
<1>1. /\ pc[t] = "release" /\ UNCHANGED <<stmt, params>>
      /\ inUse' = inUse \ {c}
      /\ my' = [my EXCEPT ![t] = None]
      /\ pc' = [pc EXCEPT ![t] = "idle"]
      /\ c \in inUse => idle' = <<c>> \o idle
  BY DEF Release, Goto
<1>2. Busy(t) /\ c \in Conn /\ c \in inUse /\ params[c] = <<>>
  BY <1>1, AtWork DEF Clean
<1>3. c \notin Elems(idle) /\ Once(idle) /\ idle \in Seq(Conn)
  BY <1>2 DEF PoolInv, PoolType, OneUser, Once
<1> HIDE DEF c
<1>4. idle' \in Seq(Conn) /\ Elems(idle') = Elems(idle) \cup {c} /\ Once(idle')
  BY <1>1, <1>2, <1>3, ConsOnce
<1>5. /\ pc'[t] = "idle"
      /\ \A u \in Thread \ {t} : pc'[u] = pc[u] /\ my'[u] = my[u]
  BY <1>1 DEF PoolInv, PoolType
<1>6. PoolType'
  BY <1>1, <1>4 DEF PoolInv, PoolType, PcPoints
<1>7. ~Busy(t)' /\ \A u \in Thread \ {t} : Busy(u)' <=> Busy(u)
  BY <1>5 DEF Busy
<1>8. \A u \in Thread \ {t} : Busy(u) => my[u] # c
  BY <1>2 DEF PoolInv, OneUser, c
<1>9. OneUser'
  BY <1>1, <1>4, <1>5, <1>7, <1>8 DEF PoolInv, OneUser, Once
<1>10. \A d \in Idle' : params'[d] = <<>>
  BY <1>1, <1>2, <1>4 DEF PoolInv
<1>11. \A u \in Thread : FitAt(u)'
  BY <1>1, <1>5 DEF PoolInv, FitAt, Clean, Bound
<1> QED BY <1>6, <1>9, <1>10, <1>11 DEF PoolInv

LEMMA InvPull == ASSUME PoolInv, NEW t \in Thread, Pull(t) PROVE PoolInv'
  BY InvGet, InvBind, InvPrepare, InvExecute, InvEndTransaction, InvRelease DEF Pull

LEMMA InvHeartbeat == ASSUME PoolInv, Heartbeat PROVE PoolInv'
<1> USE IdleElems
<1>1. /\ idle # <<>> /\ idle' = SubSeq(idle, 1, Len(idle) - 1)
      /\ UNCHANGED <<inUse, my, pc, stmt, params>>
  BY DEF Heartbeat
<1>2. idle' \in Seq(Conn) /\ Elems(idle') \subseteq Elems(idle) /\ Once(idle')
  BY <1>1, FrontOnce DEF PoolInv, PoolType, OneUser, Once
<1>3. OneUser'
  BY <1>1, <1>2 DEF PoolInv, OneUser, Busy, Once
<1> QED BY <1>1, <1>2, <1>3 DEF PoolInv, PoolType, FitAt

(* The pool may be deleted when no thread is at work.                      *)
LEMMA InvUnload ==
  ASSUME PoolInv, Unload, \A t \in Thread : ~Busy(t) PROVE PoolInv'
<1>1. idle' = <<>> /\ Idle' = {} /\ inUse' = {} /\ UNCHANGED <<my, pc, stmt, params>>
  BY DEF Unload, Idle
<1> QED BY <1>1 DEF PoolInv, PoolType, OneUser, Busy, FitAt, Clean, Bound

LEMMA InvExternal ==
  ASSUME PoolInv, NEW c \in Conn, FiveMinutes(c) \/ Lose(c) PROVE PoolInv'
  BY PoolInvQuiet DEF FiveMinutes, Lose, poolVars, deques

LEMMA PoolInvStep == PoolInv /\ [Next]_vars => PoolInv'
<1> SUFFICES ASSUME PoolInv, [Next]_vars PROVE PoolInv'
  OBVIOUS
<1>1. CASE Unload /\ \A t \in Thread : pc[t] = "idle" /\ pulls[t] = 0
  BY <1>1, InvUnload DEF Busy
<1>2. CASE \E t \in Thread : Ask(t) \/ Pull(t)
  BY <1>2, InvAsk, InvPull
<1>3. CASE UNCHANGED vars
  BY <1>3, PoolInvQuiet DEF vars, poolVars
<1> QED BY <1>1, <1>2, <1>3, InvLoad, InvHeartbeat, InvExternal DEF Next

THEOREM PoolInvHolds == Spec => []PoolInv
  BY PoolInvInit, PoolInvStep, PTL DEF Spec

(* No connection is in the hands of two threads, or of a thread and the     *)
(* deque: the pool's map and deque keep CMysqlSqlca objects apart.          *)
THEOREM OneUserHolds == Spec => []OneUser
<1>1. PoolInv => OneUser
  BY DEF PoolInv
<1> QED BY <1>1, PoolInvHolds, PTL

(* A statement is executed with exactly the parameters bound for it.       *)
THEOREM OwnParamsHolds == Spec => []OwnParams
<1>1. PoolInv => OwnParams
  BY DEF PoolInv, OwnParams, FitAt, Bound
<1> QED BY <1>1, PoolInvHolds, PTL

-----------------------------------------------------------------------------
(* Uniqueness.  As long as no session is lost no connection commits by      *)
(* itself, so that a select holds the row's lock until its transaction is   *)
(* over: the owner's cur_val is the row's.  It takes a rule that does not    *)
(* start over, and values that the parameter's type can hold.               *)

Small == ~Cycle /\ MaxVal < Word /\ MaxVal < Long \div 2

Owns(t) == stmt[t] = "update" /\ pc[t] \in {"bind", "prepare", "execute", "commit", "rollback"}

RowInv ==
  /\ row \in 0 .. MaxVal
  /\ pending \in [Conn -> Int \cup {None}]
  /\ read \in [Thread -> 0 .. Word - 1]
  /\ given \in [0 .. Word - 1 -> Nat]
  /\ auto = {}
  /\ Exists \subseteq up
  /\ \A t \in Thread : Owns(t) => rowLock = my[t]
  /\ \A t \in Thread : Owns(t) /\ pc[t] # "rollback" => read[t] = row /\ row + 1 <= MaxVal
  /\ \A t \in Thread : pc[t] = "commit" => stmt[t] = "update" /\ pending[my[t]] = row + 1
  /\ \A v \in 0 .. Word - 1 : given[v] <= 1 /\ (v >= row => given[v] = 0)

UniqueInv == lost \in Nat /\ (lost = 0 => RowInv)

LEMMA ModSmall == ASSUME NEW a \in Nat, NEW w \in Nat \ {0}, a < w PROVE a % w = a
  OBVIOUS

LEMMA StoredSmall ==
  ASSUME NEW v \in Nat, v < Long \div 2 PROVE Stored(v) = v
<1>1. Long \in Nat \ {0} /\ Long \div 2 \in Nat /\ v + Long \div 2 < Long
  BY DbPoolAssumption
<1> DEFINE h == Long \div 2
<1>2. h \in Nat /\ v + h \in Nat /\ v + h < Long
  BY <1>1
<1> HIDE DEF h
<1>3. (v + h) % Long = v + h
  BY <1>1, <1>2, ModSmall
<1>4. (v + h) - h = v
  BY <1>2
<1> QED BY <1>3, <1>4 DEF Stored, h

LEMMA RowInvInit == Init => UniqueInv
<1> SUFFICES ASSUME Init PROVE RowInv
  BY DEF Init, UniqueInv
<1>1. MaxVal \in Nat /\ Word \in Nat \ {0}
  BY DbPoolAssumption
<1>2. Exists = {}
  BY DEF Init, Exists, Idle
<1>3. \A t \in Thread : pc[t] = "idle" /\ ~Owns(t)
  BY DEF Init, Owns
<1>4. read \in [Thread -> 0 .. Word - 1] /\ given \in [0 .. Word - 1 -> Nat]
  BY <1>1 DEF Init
<1> QED BY <1>1, <1>2, <1>3, <1>4 DEF Init, RowInv

(* Steps that leave the row, and what has been read of it, alone.          *)
LEMMA RowKeeps ==
  ASSUME RowInv, UNCHANGED <<row, pending, rowLock, given, read>>,
         auto' = {}, Exists' \subseteq up',
         \A u \in Thread : Owns(u)' => /\ Owns(u) /\ my'[u] = my[u]
                                       /\ pc[u] = "rollback" => pc'[u] = "rollback",
         \A u \in Thread : pc'[u] = "commit" => /\ pc[u] = "commit" /\ my'[u] = my[u]
                                                /\ stmt'[u] = stmt[u]
  PROVE  RowInv'
  BY DEF RowInv

(* So do those of a thread that goes on with, or without, the row.         *)
LEMMA RowMove ==
  ASSUME PoolInv, RowInv, UNCHANGED <<row, pending, rowLock, given, read>>,
         auto' = {}, Exists' \subseteq up',
         NEW t \in Thread, NEW l, l # "commit", Goto(t, l),
         \A u \in Thread \ {t} : my'[u] = my[u] /\ stmt'[u] = stmt[u],
         Owns(t)' => /\ Owns(t) /\ my'[t] = my[t]
                     /\ pc[t] = "rollback" => l = "rollback"
  PROVE  RowInv'
<1>1. pc'[t] = l /\ \A u \in Thread \ {t} : pc'[u] = pc[u]
  BY DEF PoolInv, PoolType, Goto
<1>2. \A u \in Thread \ {t} : Owns(u)' => Owns(u)
  BY <1>1 DEF Owns
<1>3. \A u \in Thread : Owns(u)' => /\ Owns(u) /\ my'[u] = my[u]
                                    /\ pc[u] = "rollback" => pc'[u] = "rollback"
  BY <1>1, <1>2
<1>4. \A u \in Thread : pc'[u] = "commit" => /\ pc[u] = "commit" /\ my'[u] = my[u]
                                             /\ stmt'[u] = stmt[u]
  BY <1>1
<1> QED BY <1>3, <1>4, RowKeeps

(* One transaction at a time owns the row.                                 *)
LEMMA OneOwner ==
  ASSUME PoolInv, RowInv, NEW t \in Thread, NEW u \in Thread, Owns(u), Busy(t),
         rowLock \in {None, my[t]}
  PROVE  u = t
<1>1. Busy(u) /\ rowLock = my[u] /\ my[u] \in Conn
  BY DEF RowInv, Owns, Busy, PoolInv, PoolType, OneUser
<1>2. my[u] = my[t]
  BY <1>1, DbPoolAssumption
<1> QED BY <1>1, <1>2 DEF PoolInv, OneUser

(* A thread at work has a connection whose session lives.                  *)
LEMMA HasSession ==
  ASSUME PoolInv, RowInv, NEW t \in Thread, Busy(t)
  PROVE  my[t] \in Conn /\ my[t] \in inUse /\ my[t] \in up /\ my[t] \notin Idle
  BY DEF PoolInv, PoolType, OneUser, RowInv, Exists

LEMMA RowLoad == ASSUME PoolInv, RowInv, Load PROVE RowInv'
<1>1. ASSUME NEW c \in Conn, LoadConnect(c) PROVE RowInv'
  <2>1. /\ UNCHANGED <<inUse, my, pc, stmt, row, pending, rowLock, given, read>>
        /\ auto' = {} /\ up' = up \cup {c} /\ idle' = Append(idle, c) /\ c \notin Idle
    BY <1>1 DEF LoadConnect, Connect, Exists, table, history, RowInv
  <2>2. Elems(idle') = Elems(idle) \cup {c}
    BY <2>1, AppendOnce, IdleElems DEF PoolInv, PoolType, OneUser, Once
  <2>3. Exists' \subseteq up'
    BY <2>1, <2>2, IdleElems DEF Exists, RowInv
  <2>4. \A u \in Thread : Owns(u)' => Owns(u)
    BY <2>1 DEF Owns
  <2> QED BY <2>1, <2>3, <2>4, RowKeeps
<1>2. ASSUME LoadFails PROVE RowInv'
  <2>1. /\ UNCHANGED <<my, pc, stmt, row, pending, rowLock, given, read, auto>>
        /\ Exists' \subseteq up'
    BY <1>2 DEF LoadFails, Idle, Exists, table, history, sessions, RowInv
  <2>2. \A u \in Thread : Owns(u)' => Owns(u)
    BY <2>1 DEF Owns
  <2> QED BY <2>1, <2>2, RowKeeps DEF RowInv
<1>3. ASSUME LoadDone PROVE RowInv'
  <2>1. /\ UNCHANGED <<my, pc, stmt, row, pending, rowLock, given, read, auto>>
        /\ Exists' \subseteq up'
    BY <1>3 DEF LoadDone, Idle, Exists, table, history, sessions, RowInv
  <2>2. \A u \in Thread : Owns(u)' => Owns(u)
    BY <2>1 DEF Owns
  <2> QED BY <2>1, <2>2, RowKeeps DEF RowInv
<1> QED BY <1>1, <1>2, <1>3 DEF Load

(* A thread begins with a select: whatever it did before is over.          *)
LEMMA RowGet == ASSUME PoolInv, RowInv, NEW t \in Thread, Get(t) PROVE RowInv'
<1>1. ASSUME NEW c \in Conn, Got(t, c), UNCHANGED <<row, pending, rowLock, given, read>>,
             auto' = {}, Exists' \subseteq up'
      PROVE  RowInv'
  <2>1. /\ Goto(t, "bind") /\ stmt'[t] = "select"
        /\ \A u \in Thread \ {t} : my'[u] = my[u] /\ stmt'[u] = stmt[u]
    BY <1>1 DEF Got, PoolInv, PoolType
  <2>2. ~Owns(t)'
    BY <2>1 DEF Owns
  <2> QED BY <1>1, <2>1, <2>2, RowMove
<1>2. CASE GetIdle(t)
  <2>1. /\ Got(t, Head(idle)) /\ idle # <<>> /\ idle' = Tail(idle) /\ UNCHANGED <<up, auto>>
        /\ UNCHANGED <<row, pending, rowLock, given, read>>
    BY <1>2 DEF GetIdle, table, history, sessions
  <2>2. /\ Head(idle) \in Conn /\ Head(idle) \in Elems(idle)
        /\ Elems(idle') = Elems(idle) \ {Head(idle)}
    BY <2>1, TailOnce DEF PoolInv, PoolType, OneUser, Once
  <2>3. inUse' = inUse \cup {Head(idle)}
    BY <2>1 DEF Got
  <2>4. Exists' \subseteq up' /\ auto' = {}
    BY <2>1, <2>2, <2>3, IdleElems DEF RowInv, Exists
  <2> QED BY <1>1, <2>1, <2>2, <2>4
<1>3. ASSUME NEW c \in Conn, GetNew(t, c) PROVE RowInv'
  <2>1. /\ Got(t, c) /\ idle' = idle /\ up' = up \cup {c} /\ auto' = {}
        /\ UNCHANGED <<row, pending, rowLock, given, read>>
        /\ inUse' = inUse \cup {c}
    BY <1>3 DEF GetNew, Connect, Got, table, history, RowInv
  <2>2. Exists' \subseteq up'
    BY <2>1 DEF RowInv, Exists, Idle
  <2> QED BY <1>1, <2>1, <2>2
<1>4. CASE GetTimeOut(t)
  <2>1. /\ Goto(t, "idle") /\ UNCHANGED <<idle, inUse, up, auto, my, stmt>>
        /\ UNCHANGED <<row, pending, rowLock, given, read>>
    BY <1>4 DEF GetTimeOut, deques, table, history, sessions
  <2>2. Exists' \subseteq up' /\ auto' = {}
    BY <2>1 DEF RowInv, Exists, Idle
  <2>3. ~Owns(t)'
    BY <2>1 DEF Owns, Goto, PoolInv, PoolType
  <2> QED BY <2>1, <2>2, <2>3, RowMove
<1> QED BY <1>2, <1>3, <1>4 DEF Get

LEMMA RowAsk == ASSUME PoolInv, RowInv, NEW t \in Thread, Ask(t) PROVE RowInv'
<1>1. /\ Goto(t, "get") /\ UNCHANGED <<idle, inUse, up, auto, my, stmt>>
      /\ UNCHANGED <<row, pending, rowLock, given, read>>
  BY DEF Ask, deques, table, sessions
<1>2. Exists' \subseteq up' /\ auto' = {}
  BY <1>1 DEF RowInv, Exists, Idle
<1>3. ~Owns(t)'
  BY <1>1 DEF Owns, Goto, PoolInv, PoolType
<1> QED BY <1>1, <1>2, <1>3, RowMove

(* Bind, Prepare, and an execution that waited in vain.                    *)
LEMMA RowStatement ==
  ASSUME PoolInv, RowInv, NEW t \in Thread, Bind(t) \/ Prepare(t) \/ ExecuteFails(t)
  PROVE  RowInv'
<1>1. /\ UNCHANGED <<idle, inUse, my, stmt>>
      /\ UNCHANGED <<row, pending, rowLock, given, read>>
  BY DEF Bind, Prepare, ExecuteFails, deques, table, history
<1>2. pc[t] \in {"bind", "prepare", "execute"}
  BY DEF Bind, Prepare, ExecuteFails
<1>3. my[t] \in up
  BY <1>2, HasSession DEF Busy
<1>4. UNCHANGED <<up, auto>>
  BY <1>3 DEF Bind, Prepare, ExecuteFails, sessions
<1>5. Exists' \subseteq up' /\ auto' = {}
  BY <1>1, <1>4 DEF RowInv, Exists, Idle
<1>6. PICK l \in {"prepare", "execute", "rollback"} : Goto(t, l)
  BY DEF Bind, Prepare, ExecuteFails
<1>7. Owns(t)' => Owns(t)
  BY <1>1, <1>2 DEF Owns
<1>8. l # "commit" /\ pc[t] # "rollback"
  BY <1>2
<1> HIDE <1>2
<1> QED BY <1>1, <1>5, <1>6, <1>7, <1>8, RowMove

(* select for update: the row's lock, and with it the cursor.              *)
LEMMA RowSelect ==
  ASSUME PoolInv, RowInv, Small, NEW t \in Thread, ExecuteSelect(t) PROVE RowInv'
<1> DEFINE c == my[t]
           l == IF OverMax(t) THEN "rollback" ELSE "bind"
<1>1. /\ pc[t] = "execute" /\ stmt[t] = "select" /\ c \in up /\ rowLock \in {None, c}
      /\ read' = [read EXCEPT ![t] = Read(row)]
      /\ stmt' = [stmt EXCEPT ![t] = "update"]
      /\ pc' = [pc EXCEPT ![t] = l]
      /\ UNCHANGED <<idle, inUse, up, auto, row, pending, my, given>>
  BY DEF ExecuteSelect, Executes, Goto, deques, history
<1>2. Busy(t) /\ c \in Conn
  BY <1>1, HasSession DEF Busy
<1>3. c \notin auto /\ rowLock' = c
  BY DEF ExecuteSelect, Begun, RowInv
<1>4. /\ row \in Nat /\ row <= MaxVal /\ row < Word /\ Word \in Nat /\ MaxVal \in Nat
      /\ Read(row) = row
  <2>1. /\ row \in Nat /\ row <= MaxVal /\ row < Word
        /\ Word \in Nat \ {0} /\ MaxVal \in Nat
    BY DbPoolAssumption DEF RowInv, Small
  <2>2. row % Word = row
    BY <2>1, ModSmall
  <2> QED BY <2>1, <2>2 DEF Read
<1>5. /\ pc'[t] = l /\ read'[t] = row /\ stmt'[t] = "update" /\ my'[t] = c
      /\ \A u \in Thread \ {t} : /\ pc'[u] = pc[u] /\ my'[u] = my[u]
                                 /\ stmt'[u] = stmt[u] /\ read'[u] = read[u]
  BY <1>1, <1>4 DEF PoolInv, PoolType, RowInv
<1>6. l = "bind" => row + 1 <= MaxVal
  BY <1>4, <1>5 DEF OverMax, Small
<1>7. l \in {"rollback", "bind"}
  OBVIOUS
<1> HIDE DEF l
<1>8. \A u \in Thread \ {t} : ~Owns(u) /\ ~Owns(u)' /\ pc'[u] # "commit"
  <2> TAKE u \in Thread \ {t}
  <2>1. ~Owns(u)
    BY <1>1, <1>2, OneOwner
  <2>2. pc[u] # "commit"
    BY <2>1 DEF RowInv, Owns
  <2> QED BY <1>5, <2>1, <2>2 DEF Owns
<1>9. read' \in [Thread -> 0 .. Word - 1]
  BY <1>1, <1>4 DEF RowInv
<1>10. Exists' \subseteq up' /\ auto' = {}
  BY <1>1 DEF RowInv, Exists, Idle
<1>11. \A u \in Thread : Owns(u)' => rowLock' = my'[u]
  BY <1>3, <1>5, <1>8
<1>12. \A u \in Thread : Owns(u)' /\ pc'[u] # "rollback" => read'[u] = row' /\ row' + 1 <= MaxVal
  BY <1>1, <1>5, <1>6, <1>7, <1>8
<1>13. \A u \in Thread : pc'[u] # "commit"
  BY <1>5, <1>7, <1>8
<1> QED BY <1>1, <1>9, <1>10, <1>11, <1>12, <1>13 DEF RowInv

(* The update is the owner's, and stores the next value as it is.          *)
LEMMA RowUpdate ==
  ASSUME PoolInv, RowInv, Small, NEW t \in Thread, ExecuteUpdate(t) PROVE RowInv'
<1> DEFINE c == my[t]
<1>1. /\ pc[t] = "execute" /\ stmt[t] = "update"
      /\ pc' = [pc EXCEPT ![t] = "commit"]
      /\ UNCHANGED <<idle, inUse, up, auto, my, stmt, read, given>>
  BY DEF ExecuteUpdate, Executes, Goto, deques, history
<1>2. Busy(t) /\ c \in Conn /\ Owns(t)
  BY <1>1, HasSession DEF Busy, Owns
<1>3. /\ c \notin auto /\ rowLock = c /\ read[t] = row /\ row + 1 <= MaxVal
      /\ row \in Nat /\ MaxVal \in Nat
  BY <1>1, <1>2, DbPoolAssumption DEF RowInv
<1>4. Stored(row + 1) = row + 1
  <2>1. row + 1 \in Nat /\ Long \div 2 \in Nat /\ row + 1 < Long \div 2
    BY <1>3, DbPoolAssumption DEF Small
  <2> QED BY <2>1, StoredSmall
<1>5. /\ pending' = [pending EXCEPT ![c] = row + 1] /\ row' = row /\ rowLock' = c
  BY <1>3, <1>4 DEF ExecuteUpdate, Begun
<1>6. pending' \in [Conn -> Int \cup {None}] /\ pending'[c] = row + 1
  BY <1>2, <1>3, <1>5 DEF RowInv
<1>7. pc'[t] = "commit" /\ \A u \in Thread \ {t} : pc'[u] = pc[u]
  BY <1>1 DEF PoolInv, PoolType
<1>8. \A u \in Thread \ {t} : ~Owns(u)' /\ pc'[u] # "commit"
  <2> TAKE u \in Thread \ {t}
  <2>1. ~Owns(u)
    BY <1>2, <1>3, OneOwner
  <2>2. pc[u] # "commit"
    BY <2>1 DEF RowInv, Owns
  <2> QED BY <1>1, <1>7, <2>1, <2>2 DEF Owns
<1>9. Exists' \subseteq up' /\ auto' = {}
  BY <1>1 DEF RowInv, Exists, Idle
<1>10. \A u \in Thread : Owns(u)' => rowLock' = my'[u]
  BY <1>1, <1>5, <1>8
<1>11. \A u \in Thread : Owns(u)' /\ pc'[u] # "rollback" => read'[u] = row' /\ row' + 1 <= MaxVal
  BY <1>1, <1>3, <1>5, <1>8
<1>12. \A u \in Thread : pc'[u] = "commit" => stmt'[u] = "update" /\ pending'[my'[u]] = row' + 1
  BY <1>1, <1>5, <1>6, <1>8
<1> HIDE DEF c
<1> QED BY <1>1, <1>5, <1>6, <1>9, <1>10, <1>11, <1>12 DEF RowInv

(* The commit moves the cursor past the value it gives out.                *)
LEMMA RowCommit ==
  ASSUME PoolInv, RowInv, Small, NEW t \in Thread, Commit(t) PROVE RowInv'
<1> DEFINE c == my[t]
<1>1. /\ pc[t] = "commit" /\ UNCHANGED <<idle, inUse, my, stmt, read>>
      /\ pc' = [pc EXCEPT ![t] = "release"]
      /\ pending' = [pending EXCEPT ![c] = None]
      /\ rowLock' \in {rowLock, None}
      /\ given' = [given EXCEPT ![read[t]] = @ + 1]
  BY DEF Commit, Goto, RolledBack, deques
<1>2. Busy(t) /\ c \in Conn /\ c \in up /\ Owns(t)
  BY <1>1, HasSession DEF Busy, Owns, RowInv
<1>3. /\ rowLock = c /\ read[t] = row /\ row + 1 <= MaxVal /\ pending[c] = row + 1
      /\ row \in Nat /\ MaxVal \in Nat /\ Word \in Nat /\ MaxVal < Word
  BY <1>1, <1>2, DbPoolAssumption DEF RowInv, Small
<1>4. row' = row + 1 /\ UNCHANGED <<up, auto>>
  <2>1. pending[c] # None
    BY <1>3, DbPoolAssumption
  <2> QED BY <1>2, <1>3, <2>1 DEF Commit
<1>5. pending' \in [Conn -> Int \cup {None}]
  BY <1>1, <1>2 DEF RowInv
<1>6. pc'[t] = "release" /\ \A u \in Thread \ {t} : pc'[u] = pc[u]
  BY <1>1 DEF PoolInv, PoolType
<1>7. \A u \in Thread : ~Owns(u)' /\ pc'[u] # "commit"
  <2>1. ~Owns(t)' /\ pc'[t] # "commit"
    BY <1>6 DEF Owns
  <2>2. ASSUME NEW u \in Thread \ {t} PROVE ~Owns(u)' /\ pc'[u] # "commit"
    <3>1. ~Owns(u)
      BY <1>2, <1>3, OneOwner
    <3>2. pc[u] # "commit"
      BY <3>1 DEF RowInv, Owns
    <3> QED BY <1>1, <1>6, <3>1, <3>2 DEF Owns
  <2> QED BY <2>1, <2>2
<1>8. Exists' \subseteq up' /\ auto' = {}
  BY <1>1, <1>4 DEF RowInv, Exists, Idle
<1>9. given' \in [0 .. Word - 1 -> Nat] /\ given'[row] = 1
      /\ \A v \in (0 .. Word - 1) \ {row} : given'[v] = given[v]
  <2>1. row \in 0 .. Word - 1 /\ given[row] = 0
    BY <1>3 DEF RowInv
  <2> QED BY <1>1, <1>3, <2>1 DEF RowInv
<1>10. \A v \in 0 .. Word - 1 : given'[v] <= 1 /\ (v >= row' => given'[v] = 0)
  <2> TAKE v \in 0 .. Word - 1
  <2>1. CASE v = row
    BY <1>3, <1>4, <1>9, <2>1
  <2>2. CASE v # row
    <3>1. given[v] <= 1 /\ (v >= row => given[v] = 0) /\ given'[v] = given[v]
      BY <1>9, <2>2 DEF RowInv
    <3> QED BY <1>3, <1>4, <3>1
  <2> QED BY <2>1, <2>2
<1>11. row' \in 0 .. MaxVal
  BY <1>3, <1>4
<1> HIDE DEF c
<1> QED BY <1>1, <1>5, <1>7, <1>8, <1>9, <1>10, <1>11 DEF RowInv

LEMMA RowRollback ==
  ASSUME PoolInv, RowInv, NEW t \in Thread, Rollback(t) PROVE RowInv'
<1> DEFINE c == my[t]
<1>1. /\ pc[t] = "rollback" /\ UNCHANGED <<idle, inUse, my, stmt, read, given, row>>
      /\ pc' = [pc EXCEPT ![t] = "release"]
      /\ pending' = [pending EXCEPT ![c] = None]
      /\ rowLock' = IF rowLock = c THEN None ELSE rowLock
  BY DEF Rollback, Goto, RolledBack, deques, history
<1>2. Busy(t) /\ c \in Conn /\ c \in up
  BY <1>1, HasSession DEF Busy
<1>3. UNCHANGED <<up, auto>>
  BY <1>2 DEF Rollback
<1>4. pc'[t] = "release" /\ \A u \in Thread \ {t} : pc'[u] = pc[u]
  BY <1>1 DEF PoolInv, PoolType
<1>5. pending' \in [Conn -> Int \cup {None}] /\ \A d \in Conn \ {c} : pending'[d] = pending[d]
  BY <1>1, <1>2 DEF RowInv
<1>6. \A u \in Thread : Owns(u)' => /\ u # t /\ Owns(u) /\ my[u] \in Conn \ {c}
                                    /\ rowLock' = my'[u]
  <2> SUFFICES ASSUME NEW u \in Thread, Owns(u)'
               PROVE  u # t /\ Owns(u) /\ my[u] \in Conn \ {c} /\ rowLock' = my'[u]
    OBVIOUS
  <2>1. u # t
    BY <1>4 DEF Owns
  <2>2. Owns(u)
    BY <1>1, <1>4, <2>1 DEF Owns
  <2>3. my[u] \in Conn /\ my[u] # c /\ rowLock = my[u]
    BY <1>2, <2>1, <2>2 DEF Owns, Busy, RowInv, PoolInv, PoolType, OneUser
  <2> QED BY <1>1, <2>1, <2>2, <2>3
<1>7. \A u \in Thread : Owns(u)' /\ pc'[u] # "rollback" => read'[u] = row' /\ row' + 1 <= MaxVal
  BY <1>1, <1>4, <1>6 DEF RowInv
<1>8. \A u \in Thread : pc'[u] = "commit" => stmt'[u] = "update" /\ pending'[my'[u]] = row' + 1
  <2> SUFFICES ASSUME NEW u \in Thread, pc'[u] = "commit"
               PROVE  stmt'[u] = "update" /\ pending'[my'[u]] = row' + 1
    OBVIOUS
  <2>1. u # t /\ pc[u] = "commit" /\ stmt[u] = "update" /\ pending[my[u]] = row + 1
    BY <1>4 DEF RowInv
  <2>2. Owns(u)'
    BY <1>1, <1>4, <2>1 DEF Owns
  <2> QED BY <1>1, <1>5, <1>6, <2>1, <2>2
<1>9. Exists' \subseteq up' /\ auto' = {}
  BY <1>1, <1>3 DEF RowInv, Exists, Idle
<1> HIDE DEF c
<1> QED BY <1>1, <1>5, <1>6, <1>7, <1>8, <1>9 DEF RowInv

LEMMA RowRelease == ASSUME PoolInv, RowInv, NEW t \in Thread, Release(t) PROVE RowInv'
<1> USE IdleElems
<1> DEFINE c == my[t]
<1>1. /\ pc[t] = "release" /\ Goto(t, "idle") /\ UNCHANGED <<up, auto, stmt>>
      /\ UNCHANGED <<row, pending, rowLock, given, read>>
      /\ my' = [my EXCEPT ![t] = None]
      /\ inUse' = inUse \ {c}
      /\ c \in inUse => idle' = <<c>> \o idle
  BY DEF Release, table, history, sessions
<1>2. c \in Conn /\ c \in inUse /\ c \notin Elems(idle) /\ Once(idle) /\ idle \in Seq(Conn)
  BY <1>1, HasSession DEF Busy, PoolInv, PoolType, OneUser, Once
<1> HIDE DEF c
<1>3. Elems(idle') = Elems(idle) \cup {c}
  BY <1>1, <1>2, ConsOnce
<1>4. Exists' \subseteq up' /\ auto' = {}
  BY <1>1, <1>2, <1>3 DEF RowInv, Exists
<1>5. ~Owns(t)'
  BY <1>1 DEF Owns, Goto, PoolInv, PoolType
<1>6. \A u \in Thread \ {t} : my'[u] = my[u] /\ stmt'[u] = stmt[u]
  BY <1>1 DEF PoolInv, PoolType
<1> QED BY <1>1, <1>4, <1>5, <1>6, RowMove

LEMMA RowPull ==
  ASSUME PoolInv, RowInv, Small, NEW t \in Thread, Pull(t) PROVE RowInv'
  BY RowGet, RowStatement, RowSelect, RowUpdate, RowCommit, RowRollback, RowRelease DEF Pull

(* The session that Heartbeat ends is nobody's.                            *)
LEMMA RowHeartbeat == ASSUME PoolInv, RowInv, Heartbeat PROVE RowInv'
<1> USE IdleElems
<1> DEFINE c == idle[Len(idle)]
<1>1. /\ idle # <<>> /\ idle' = SubSeq(idle, 1, Len(idle) - 1)
      /\ up' = up \ {c} /\ RolledBack(c)
      /\ UNCHANGED <<inUse, auto, row, pc, my, stmt, read, given>>
  BY DEF Heartbeat, history
<1>2. c \in Idle /\ Elems(idle') \subseteq Elems(idle) \ {c}
  BY <1>1, FrontOnce DEF PoolInv, PoolType, OneUser, Once
<1>3. c \in Conn /\ c \notin inUse
  BY <1>2, ElemsType DEF PoolInv, PoolType, OneUser
<1> HIDE DEF c
<1>4. /\ pending' \in [Conn -> Int \cup {None}]
      /\ \A d \in Conn \ {c} : pending'[d] = pending[d]
      /\ rowLock' = IF rowLock = c THEN None ELSE rowLock
  BY <1>1, <1>3 DEF RowInv, RolledBack
<1>5. Exists' \subseteq up' /\ auto' = {}
  BY <1>1, <1>2, <1>3 DEF RowInv, Exists
<1>6. \A u \in Thread : (Owns(u)' <=> Owns(u)) /\ (Owns(u) => my[u] \in Conn \ {c})
  BY <1>1, <1>3 DEF Owns, Busy, PoolInv, PoolType, OneUser
<1>7. \A u \in Thread : Owns(u)' => rowLock' = my'[u]
  BY <1>1, <1>4, <1>6 DEF RowInv
<1>8. \A u \in Thread : pc'[u] = "commit" => stmt'[u] = "update" /\ pending'[my'[u]] = row' + 1
  <2> SUFFICES ASSUME NEW u \in Thread, pc[u] = "commit"
               PROVE  stmt[u] = "update" /\ pending'[my[u]] = row + 1
    BY <1>1
  <2>1. stmt[u] = "update" /\ pending[my[u]] = row + 1
    BY DEF RowInv
  <2>2. Owns(u)
    BY <2>1 DEF Owns
  <2> QED BY <1>4, <1>6, <2>1, <2>2
<1> QED BY <1>1, <1>4, <1>5, <1>6, <1>7, <1>8 DEF RowInv

LEMMA RowUnload ==
  ASSUME PoolInv, RowInv, Unload, \A t \in Thread : ~Busy(t) PROVE RowInv'
<1>1. /\ UNCHANGED <<auto, pc, my, stmt>> /\ Exists' = {}
      /\ UNCHANGED <<row, pending, rowLock, given, read>>
  BY DEF Unload, table, history, Exists, Idle
<1>2. \A u \in Thread : Owns(u)' => Owns(u)
  BY <1>1 DEF Owns
<1>3. auto' = {} /\ Exists' \subseteq up'
  BY <1>1 DEF RowInv
<1> QED BY <1>1, <1>2, <1>3, RowKeeps

LEMMA RowFiveMinutes ==
  ASSUME PoolInv, RowInv, NEW c \in Conn, FiveMinutes(c) PROVE RowInv'
<1>1. /\ UNCHANGED <<idle, inUse, up, auto, pc, my, stmt>>
      /\ UNCHANGED <<row, pending, rowLock, given, read>>
  BY DEF FiveMinutes, deques, table, history, sessions
<1>2. \A u \in Thread : Owns(u)' => Owns(u)
  BY <1>1 DEF Owns
<1>3. auto' = {} /\ Exists' \subseteq up'
  BY <1>1 DEF RowInv, Exists, Idle
<1> QED BY <1>1, <1>2, <1>3, RowKeeps

LEMMA RowQuiet == RowInv /\ UNCHANGED vars => RowInv'
  BY DEF RowInv, vars, Owns, Exists, Idle

(* The steps but Unload, with the count of lost sessions.                  *)
LEMMA UniqueStep ==
  ASSUME PoolInv, UniqueInv, Small,
         \/ Load \/ Heartbeat \/ \E t \in Thread : Ask(t) \/ Pull(t)
         \/ \E c \in Conn : FiveMinutes(c) \/ Lose(c)
         \/ Unload /\ \A t \in Thread : ~Busy(t)
         \/ UNCHANGED vars
  PROVE  UniqueInv'
<1>1. ASSUME NEW c \in Conn, Lose(c) PROVE UniqueInv'
  BY <1>1 DEF UniqueInv, Lose
<1>2. ASSUME NEW t \in Thread, Ask(t) \/ Pull(t) PROVE UniqueInv'
  <2>1. lost' = lost
    BY <1>2 DEF Ask, Pull, Get, GetIdle, GetNew, GetTimeOut, Bind, Prepare, ExecuteSelect,
               ExecuteUpdate, ExecuteFails, Commit, Rollback, Release, history
  <2> QED BY <1>2, <2>1, RowAsk, RowPull DEF UniqueInv
<1>3. CASE Load
  <2>1. lost' = lost
    BY <1>3 DEF Load, LoadConnect, LoadFails, LoadDone, history
  <2> QED BY <1>3, <2>1, RowLoad DEF UniqueInv
<1>4. CASE Heartbeat
  <2>1. lost' = lost
    BY <1>4 DEF Heartbeat, history
  <2> QED BY <1>4, <2>1, RowHeartbeat DEF UniqueInv
<1>5. ASSUME NEW c \in Conn, FiveMinutes(c) PROVE UniqueInv'
  <2>1. lost' = lost
    BY <1>5 DEF FiveMinutes, history
  <2> QED BY <1>5, <2>1, RowFiveMinutes DEF UniqueInv
<1>6. CASE Unload /\ \A t \in Thread : ~Busy(t)
  <2>1. lost' = lost
    BY <1>6 DEF Unload, history
  <2> QED BY <1>6, <2>1, RowUnload DEF UniqueInv
<1>7. CASE UNCHANGED vars
  BY <1>7, RowQuiet DEF UniqueInv, vars
<1> QED BY <1>1, <1>2, <1>3, <1>4, <1>5, <1>6, <1>7

LEMMA UniqueFollows == UniqueInv => UniqueUnlessLost
<1> SUFFICES ASSUME UniqueInv, lost = 0 PROVE Unique
  BY DEF UniqueUnlessLost
<1>1. RowInv /\ DOMAIN given = 0 .. Word - 1
  BY DEF UniqueInv, RowInv
<1> QED BY <1>1 DEF Unique, RowInv

(* No cur_val is given out twice while no session is lost, whatever the     *)
(* number of threads and connections: for update, with autocommit off, is   *)
(* enough.                                                                 *)
THEOREM UniqueUnlessLostHolds == ASSUME Small PROVE Spec => []UniqueUnlessLost
<1>1. Init => PoolInv /\ UniqueInv
  BY PoolInvInit, RowInvInit
<1>2. PoolInv /\ UniqueInv /\ [Next]_vars => PoolInv' /\ UniqueInv'
  <2> SUFFICES ASSUME PoolInv, UniqueInv, [Next]_vars PROVE PoolInv' /\ UniqueInv'
    OBVIOUS
  <2>1. Unload /\ (\A t \in Thread : pc[t] = "idle" /\ pulls[t] = 0)
          => Unload /\ \A t \in Thread : ~Busy(t)
    BY DEF Busy
  <2> QED BY <2>1, PoolInvStep, UniqueStep DEF Next
<1> QED BY <1>1, <1>2, UniqueFollows, PTL DEF Spec


-----------------------------------------------------------------------------
(***************************************************************************)
(* What is shown of the pool holds in the process that loads and unloads   *)
(* it, and no thread is in code that is not loaded.                        *)
(***************************************************************************)

Active == "recv" \in threads \/ queue > 0 \/ Working # {}

(* Stages with every plugin loaded, and those in which nobody is at work:   *)
(* not yet, or no more.                                                    *)
Ready == {"threads", "run"}
Early == {"database", "interceptors", "outputs", "pool"}
Late  == {"join send", "unload database", "unload interceptors", "unload outputs", "gone"}

AllLoaded == /\ pool = "loaded"
             /\ Range(Interceptors) \subseteq code /\ Range(Outputs) \subseteq code

(* How far the plugins are loaded, at the stages that count on it.         *)
Loading ==
  /\ stage \in {"interceptors", "outputs", "pool"} \cup Ready => pool = "loaded"
  /\ stage = "interceptors" =>
       \A i \in DOMAIN Interceptors : i < k => Interceptors[i] \in code
  /\ stage \in {"outputs", "pool"} \cup Ready => Range(Interceptors) \subseteq code
  /\ stage = "outputs" => \A i \in DOMAIN Outputs : i < k => Outputs[i] \in code
  /\ stage \in {"pool"} \cup Ready => Range(Outputs) \subseteq code

LifeInv ==
  /\ k \in Nat \ {0} /\ queue \in Nat /\ tasks \in Nat /\ asking \subseteq Thread
  /\ stage \in Early \cup Late => ~Active
  /\ stage = "destroy" => "recv" \notin threads
  /\ Active => AllLoaded
  /\ Loading

LEMMA LifeInit == WorkerInit => LifeInv
<1> SUFFICES ASSUME WorkerInit PROVE LifeInv
  OBVIOUS
<1>1. Working = {}
  BY DEF WorkerInit, Init, Working
<1>2. ~Active
  BY <1>1 DEF WorkerInit, Active
<1> QED BY <1>2, WorkerAssumption DEF WorkerInit, LifeInv, Loading, Ready

-----------------------------------------------------------------------------
(* The main thread goes on: nobody begins to work.                         *)
LEMMA LifeMain ==
  ASSUME LifeInv, UNCHANGED <<threads, queue, asking, tasks, pc>>, k' \in Nat \ {0},
         Active => UNCHANGED <<pool, code>>,
         stage' \in Early \cup Late => ~Active,
         stage' = "destroy" => "recv" \notin threads,
         Loading'
  PROVE  LifeInv'
<1>1. Active' <=> Active
  BY DEF Active, Working
<1>2. Active' => AllLoaded'
  BY <1>1 DEF LifeInv, AllLoaded
<1>3. stage' \in Early \cup Late => ~Active'
  BY <1>1
<1>4. /\ k' \in Nat \ {0} /\ queue' \in Nat /\ tasks' \in Nat /\ asking' \subseteq Thread
      /\ stage' = "destroy" => "recv" \notin threads'
  BY DEF LifeInv
<1> QED BY <1>2, <1>3, <1>4 DEF LifeInv, Early, Late

(* It gives up, or goes on to end.                                         *)
LEMMA LifeLeaves ==
  ASSUME LifeInv, UNCHANGED <<threads, queue, asking, tasks, pc>>, NEW s, To(s),
         s \in {"join accept", "join recv"},
         Active => UNCHANGED <<pool, code>>
  PROVE  LifeInv'
<1>1. stage' = s /\ k' = 1
  BY DEF To
<1>2. stage' \notin Early \cup Late /\ stage' # "destroy"
  BY <1>1 DEF Early, Late
<1>3. Loading'
  BY <1>1 DEF Loading, Ready
<1>4. k' \in Nat \ {0}
  <2>1. k' = 1
    BY <1>1
  <2> QED BY ONLY <2>1
<1> QED BY <1>2, <1>3, <1>4, LifeMain

LEMMA LifeDatabase == ASSUME LifeInv, InitPluginDB PROVE LifeInv'
<1>1. /\ stage = "database" /\ UNCHANGED <<threads, queue, asking, tasks>>
  BY DEF InitPluginDB, At, requests
<1>2. UNCHANGED pc
  BY DEF InitPluginDB, LoadConnect, LoadDone, LoadFails
<1>3. ~Active
  BY <1>1 DEF LifeInv, Early
<1>4. CASE UNCHANGED <<main, code>> /\ \E c \in Conn : LoadConnect(c)
  <2>1. stage' = "database" /\ k' = k
    BY <1>1, <1>4 DEF main
  <2>2. Loading'
    BY <2>1 DEF Loading, Ready
  <2> QED BY <1>1, <1>2, <1>3, <2>1, <2>2, LifeMain DEF LifeInv
<1>5. CASE To("interceptors") /\ LoadDone
  <2>1. stage' = "interceptors" /\ k' = 1 /\ pool' = "loaded"
    BY <1>5 DEF To, LoadDone
  <2>2. DOMAIN Interceptors = 1 .. Len(Interceptors) /\ Len(Interceptors) \in Nat
    BY WorkerAssumption
  <2>3. Loading'
    BY <2>1, <2>2 DEF Loading, Ready
  <2> QED BY <1>1, <1>2, <1>3, <2>1, <2>3, LifeMain
<1>6. CASE To("join accept")
  BY <1>1, <1>2, <1>3, <1>6, LifeLeaves
<1> QED BY <1>4, <1>5, <1>6 DEF InitPluginDB

(* Where a list's loading ends, all of it is loaded.                       *)
LEMMA ListLoaded ==
  ASSUME NEW S, NEW list \in Seq(S), NEW loaded, NEW n \in Nat, n > Len(list),
         \A i \in DOMAIN list : i < n => list[i] \in loaded
  PROVE  Range(list) \subseteq loaded
<1>1. DOMAIN list = 1 .. Len(list) /\ Len(list) \in Nat
  OBVIOUS
<1>2. \A i \in DOMAIN list : list[i] \in loaded
  BY <1>1
<1> QED BY <1>2 DEF Range

LEMMA OneMore ==
  ASSUME NEW S, NEW list \in Seq(S), NEW loaded, NEW n \in Nat \ {0}, n <= Len(list),
         \A i \in DOMAIN list : i < n => list[i] \in loaded
  PROVE  \A i \in DOMAIN list : i < n + 1 => list[i] \in loaded \cup {list[n]}
<1>1. DOMAIN list = 1 .. Len(list) /\ Len(list) \in Nat
  OBVIOUS
<1> QED BY <1>1

LEMMA LifePlugins == ASSUME LifeInv, InitInterceptors \/ InitPluginOutput PROVE LifeInv'
<1>1. UNCHANGED <<threads, queue, asking, tasks, pc, pool>>
  BY DEF InitInterceptors, InitPluginOutput, requests, vars
<1>2. stage \in {"interceptors", "outputs"} /\ ~Active /\ pool = "loaded" /\ k \in Nat \ {0}
  BY DEF InitInterceptors, InitPluginOutput, At, LifeInv, Early, Loading
<1>3. /\ Interceptors \in Seq(Plugins) /\ Outputs \in Seq(Plugins)
      /\ DOMAIN Outputs = 1 .. Len(Outputs) /\ Len(Outputs) \in Nat
  BY WorkerAssumption
<1>4. CASE To("join accept")
  BY <1>1, <1>2, <1>4, LifeLeaves
<1>5. CASE stage = "interceptors" /\ k <= Len(Interceptors)
             /\ code' = code \cup {Interceptors[k]} /\ k' = k + 1 /\ stage' = stage
  <2>1. \A i \in DOMAIN Interceptors : i < k' => Interceptors[i] \in code'
    BY <1>2, <1>3, <1>5, OneMore DEF LifeInv, Loading
  <2>2. Loading'
    BY <1>1, <1>2, <1>5, <2>1 DEF Loading, Ready
  <2> QED BY <1>1, <1>2, <1>5, <2>2, LifeMain
<1>6. CASE stage = "interceptors" /\ k > Len(Interceptors) /\ To("outputs") /\ code' = code
  <2>1. Range(Interceptors) \subseteq code'
    BY <1>2, <1>3, <1>6, ListLoaded DEF LifeInv, Loading
  <2>2. stage' = "outputs" /\ k' = 1
    BY <1>6 DEF To
  <2>3. Loading'
    BY <1>1, <1>2, <1>3, <2>1, <2>2 DEF Loading, Ready
  <2> QED BY <1>1, <1>2, <2>2, <2>3, LifeMain
<1>7. CASE stage = "outputs" /\ k <= Len(Outputs)
             /\ code' = code \cup {Outputs[k]} /\ k' = k + 1 /\ stage' = stage
  <2>1. \A i \in DOMAIN Outputs : i < k' => Outputs[i] \in code'
    BY <1>2, <1>3, <1>7, OneMore DEF LifeInv, Loading
  <2>2. Range(Interceptors) \subseteq code'
    BY <1>7 DEF LifeInv, Loading
  <2>3. Loading'
    BY <1>1, <1>2, <1>7, <2>1, <2>2 DEF Loading, Ready
  <2> QED BY <1>1, <1>2, <1>7, <2>3, LifeMain
<1>8. CASE stage = "outputs" /\ k > Len(Outputs) /\ To("pool") /\ code' = code
  <2>1. Range(Outputs) \subseteq code'
    BY <1>2, <1>3, <1>8, ListLoaded DEF LifeInv, Loading
  <2>2. Range(Interceptors) \subseteq code'
    BY <1>8 DEF LifeInv, Loading
  <2>3. stage' = "pool" /\ k' = 1
    BY <1>8 DEF To
  <2>4. Loading'
    BY <1>1, <1>2, <2>1, <2>2, <2>3 DEF Loading, Ready
  <2> QED BY <1>1, <1>2, <2>3, <2>4, LifeMain
<1> QED BY <1>4, <1>5, <1>6, <1>7, <1>8
    DEF InitInterceptors, InitPluginOutput, LoadPlugins, At

LEMMA LifeStartPool == ASSUME LifeInv, StartPool PROVE LifeInv'
<1>1. UNCHANGED <<threads, queue, asking, tasks, pc, pool, code>> /\ stage = "pool"
  BY DEF StartPool, At, requests, vars
<1>2. CASE To("threads")
  <2>1. stage' = "threads" /\ k' = 1
    BY <1>2 DEF To
  <2>2. Loading'
    BY <1>1, <2>1 DEF LifeInv, Loading, Ready
  <2> QED BY <1>1, <2>1, <2>2, LifeMain DEF Early, Late
<1>3. CASE To("join accept")
  BY <1>1, <1>3, LifeLeaves
<1> QED BY <1>2, <1>3 DEF StartPool

(* A thread of the event loops begins: everything is loaded.               *)
LEMMA LifeStartThreads == ASSUME LifeInv, StartThreads PROVE LifeInv'
<1>1. /\ UNCHANGED <<queue, asking, tasks, pc, pool, code>>
      /\ stage = "threads" /\ k \in Nat \ {0}
  BY DEF StartThreads, At, requests, vars, LifeInv
<1>2. AllLoaded
  BY <1>1 DEF LifeInv, Loading, Ready, AllLoaded
<1>3. AllLoaded'
  BY <1>1, <1>2 DEF AllLoaded
<1>4. CASE stage' \in Ready /\ k' \in Nat \ {0}
  <2>1. stage' \notin Early \cup Late /\ stage' # "destroy"
    BY <1>4 DEF Ready, Early, Late
  <2>2. Loading'
    BY <1>3, <1>4 DEF Loading, Ready, AllLoaded
  <2> QED BY <1>1, <1>3, <1>4, <2>1, <2>2 DEF LifeInv
<1>5. CASE To("join accept") /\ UNCHANGED threads
  BY <1>1, <1>5, LifeLeaves
<1>6. \/ stage' \in Ready /\ k' \in Nat \ {0}
      \/ To("join accept") /\ UNCHANGED threads
  <2> DEFINE t == <<"recv", "send", "accept">>[k]
  <2> HIDE DEF t
  <2>1. \/ IF t = "accept" THEN To("run") ELSE k' = k + 1 /\ UNCHANGED stage
        \/ To("join accept") /\ UNCHANGED threads
    BY DEF StartThreads, t
  <2>2. CASE t = "accept" /\ To("run")
    <3>1. stage' = "run" /\ k' = 1
      BY <2>2 DEF To
    <3>2. stage' \in Ready
      BY <3>1 DEF Ready
    <3>3. k' \in Nat \ {0}
      BY <3>1
    <3> QED BY <3>2, <3>3
  <2>3. CASE k' = k + 1 /\ UNCHANGED stage
    <3>1. stage' \in Ready
      BY <1>1, <2>3 DEF Ready
    <3>2. k' \in Nat \ {0}
      BY <1>1, <2>3
    <3> QED BY <3>1, <3>2
  <2> QED BY <2>1, <2>2, <2>3
<1> QED BY <1>4, <1>5, <1>6

-----------------------------------------------------------------------------
(* Steps of the others: the main thread, the pool and the plugins stay, and *)
(* nobody works who could not be at work before.                           *)
LEMMA LifeKeeps ==
  ASSUME LifeInv, UNCHANGED <<stage, k, pool, code>>,
         queue' \in Nat, tasks' \in Nat, asking' \subseteq Thread,
         threads' \subseteq threads, Active' => Active
  PROVE  LifeInv'
<1>1. Active' => AllLoaded'
  BY DEF LifeInv, AllLoaded
<1>2. Loading'
  BY DEF LifeInv, Loading, Ready
<1>3. stage' \in Early \cup Late => ~Active'
  BY DEF LifeInv
<1>4. stage' = "destroy" => "recv" \notin threads'
  BY DEF LifeInv
<1> QED BY <1>1, <1>2, <1>3, <1>4 DEF LifeInv, Early, Late

LEMMA LifeMainQuiet ==
  ASSUME LifeInv, OnHeartbeat \/ AskedToLeave \/ DaemonGone \/ (External /\ UNCHANGED wvars)
  PROVE  LifeInv'
<1>1. UNCHANGED <<stage, k, pool, code, threads, queue, asking, tasks, pc>>
  BY DEF OnHeartbeat, AskedToLeave, DaemonGone, External, wvars, main, requests, vars,
         Heartbeat, FiveMinutes, Lose, deques
<1>2. Active' => Active
  BY <1>1 DEF Active, Working
<1> QED BY <1>1, <1>2, LifeKeeps DEF LifeInv

LEMMA LifeThreads == ASSUME LifeInv, AddTask \/ Threads PROVE LifeInv'
<1>1. /\ UNCHANGED <<stage, k, pool, code, asking, pc>>
      /\ threads' \subseteq threads
  BY DEF AddTask, Threads, RecvEnds, OtherEnds, main, requests, vars
<1>2. queue' \in Nat /\ tasks' \in Nat
  BY DEF AddTask, Threads, RecvEnds, OtherEnds, requests, LifeInv
<1>3. "recv" \in threads \/ queue' = queue
  BY DEF AddTask, Threads, RecvEnds, OtherEnds, requests
<1>4. Active' => Active
  BY <1>1, <1>3 DEF Active, Working
<1> QED BY <1>1, <1>2, <1>4, LifeKeeps DEF LifeInv

LEMMA LifePoolThread ==
  ASSUME PoolType, LifeInv, NEW t \in Thread, PoolThread(t) PROVE LifeInv'
<1>1. CASE OnRequest(t)
  <2>1. /\ UNCHANGED <<stage, k, pool, code, threads, tasks>> /\ queue > 0
        /\ queue' = queue - 1 /\ asking' = asking \cup {t}
    BY <1>1 DEF OnRequest, main, vars
  <2>2. queue' \in Nat /\ asking' \subseteq Thread /\ Active
    BY <2>1 DEF LifeInv, Active
  <2> QED BY <2>1, <2>2, LifeKeeps DEF LifeInv
<1>2. CASE Refused(t)
  <2>1. /\ UNCHANGED <<stage, k, pool, code, threads, tasks, queue>> /\ t \in asking
        /\ asking' = asking \ {t}
    BY <1>2 DEF Refused, main, vars
  <2>2. Active
    BY <2>1 DEF Active, Working
  <2> QED BY <2>1, <2>2, LifeKeeps DEF LifeInv
<1>3. CASE Doworker(t)
  <2>1. /\ UNCHANGED <<stage, k, pool, code, threads, tasks, queue>> /\ t \in asking
        /\ asking' = asking \ {t}
    BY <1>3 DEF Doworker, Ask, main, deques
  <2>2. Active
    BY <2>1 DEF Active, Working
  <2> QED BY <2>1, <2>2, LifeKeeps DEF LifeInv
<1>4. CASE Pull(t) /\ UNCHANGED wvars
  <2>1. UNCHANGED <<stage, k, code, threads, queue, asking, tasks>>
    BY <1>4 DEF wvars
  <2>2. UNCHANGED pool /\ pc[t] # "idle"
    BY <1>4 DEF Pull, Get, GetIdle, GetNew, GetTimeOut, Bind, Prepare, ExecuteSelect, Executes,
                ExecuteUpdate, ExecuteFails, Commit, Rollback, Release, deques
  <2>3. Active
    BY <2>2 DEF Active, Working
  <2> QED BY <2>1, <2>2, <2>3, LifeKeeps DEF LifeInv
<1> QED BY <1>1, <1>2, <1>3, <1>4 DEF PoolThread

-----------------------------------------------------------------------------
(* CleanEnvironment.                                                       *)
LEMMA LifeClean == ASSUME LifeInv, CleanEnvironment PROVE LifeInv'
<1>1. CASE JoinAccept
  <2>1. UNCHANGED <<threads, queue, asking, tasks, pc, pool, code>> /\ To("join recv")
    BY <1>1 DEF JoinAccept, Keep, requests, vars
  <2> QED BY <2>1, LifeLeaves
<1>2. CASE JoinRecv
  <2>1. /\ UNCHANGED <<threads, queue, asking, tasks, pc, pool, code>>
        /\ "recv" \notin threads /\ stage' = "destroy" /\ k' = 1
    BY <1>2 DEF JoinRecv, Keep, To, requests, vars
  <2>2. Loading'
    BY <2>1 DEF Loading, Ready
  <2> QED BY <2>1, <2>2, LifeMain DEF Early, Late
<1>3. CASE DestroyPool
  <2>1. /\ UNCHANGED <<threads, queue, asking, tasks, pc, pool, code>>
        /\ stage = "destroy" /\ stage' = "join send" /\ k' = 1
        /\ queue = 0 /\ Working = {}
    BY <1>3 DEF DestroyPool, Keep, At, To, requests, vars
  <2>2. "recv" \notin threads
    BY <2>1 DEF LifeInv
  <2>3. ~(queue > 0)
    <3>1. queue = 0
      BY <2>1
    <3> QED BY ONLY <3>1
  <2>4. ~Active
    BY <2>1, <2>2, <2>3 DEF Active
  <2>5. Loading'
    BY <2>1 DEF Loading, Ready
  <2>6. stage' # "destroy" /\ k' = 1
    BY <2>1
  <2>7. k' \in Nat \ {0}
    BY ONLY <2>6
  <2> QED BY <2>1, <2>4, <2>5, <2>6, <2>7, LifeMain
<1>4. CASE JoinSend \/ UnInitPluginDB \/ UnInitPlugin
  <2>1. UNCHANGED <<threads, queue, asking, tasks>> /\ k \in Nat \ {0}
    BY <1>4 DEF JoinSend, UnInitPluginDB, UnInitPlugin, Keep, requests, LifeInv
  <2>2. stage \in Late /\ stage' \in Late /\ k' \in {1, k}
    BY <1>4 DEF JoinSend, UnInitPluginDB, UnInitPlugin, UnloadPlugins, At, To, Late, main
  <2>3. UNCHANGED pc
    BY <1>4 DEF JoinSend, UnInitPluginDB, UnInitPlugin, Keep, Unload, vars
  <2>4. ~Active
    BY <2>2 DEF LifeInv
  <2>5. Loading' /\ stage' # "destroy"
    BY <2>2 DEF Loading, Ready, Late
  <2>6. k' \in Nat \ {0}
    BY <2>1, <2>2
  <2> QED BY <2>1, <2>3, <2>4, <2>5, <2>6, LifeMain
<1> QED BY <1>1, <1>2, <1>3, <1>4 DEF CleanEnvironment

LEMMA LifeStep == ASSUME PoolType, LifeInv, [WorkerNext]_allvars PROVE LifeInv'
<1>1. CASE InitWorkerEnv
  BY <1>1, LifeDatabase, LifePlugins, LifeStartPool, LifeStartThreads DEF InitWorkerEnv
<1>2. CASE Leave
  <2>1. UNCHANGED <<threads, queue, asking, tasks, pc, pool, code>> /\ To("join accept")
    BY <1>2 DEF Leave, requests, vars
  <2> QED BY <2>1, LifeLeaves
<1>3. CASE UNCHANGED allvars
  BY <1>3 DEF allvars, vars, wvars, LifeInv, Active, Working, AllLoaded, Loading, Ready,
             Early, Late
<1> QED BY <1>1, <1>2, <1>3, LifeMainQuiet, LifeThreads, LifePoolThread, LifeClean
    DEF WorkerNext

-----------------------------------------------------------------------------
(* The pool in the process: its steps are DbPool's, and Unload comes when   *)
(* nobody is at work.                                                      *)
PoolStep == \/ Load \/ Heartbeat \/ \E t \in Thread : Ask(t) \/ Pull(t)
            \/ \E c \in Conn : FiveMinutes(c) \/ Lose(c)
            \/ Unload /\ \A t \in Thread : ~Busy(t)
            \/ UNCHANGED vars

LEMMA WorkerIsPoolStep == ASSUME LifeInv, [WorkerNext]_allvars PROVE PoolStep
<1>1. CASE InitWorkerEnv
  BY <1>1 DEF InitWorkerEnv, InitPluginDB, InitInterceptors, InitPluginOutput, StartPool,
              StartThreads, PoolStep, Load
<1>2. CASE OnHeartbeat \/ AskedToLeave \/ DaemonGone \/ Leave
  BY <1>2 DEF OnHeartbeat, AskedToLeave, DaemonGone, Leave, PoolStep
<1>3. CASE JoinAccept \/ JoinRecv \/ DestroyPool \/ JoinSend \/ UnInitPlugin
  BY <1>3 DEF JoinAccept, JoinRecv, DestroyPool, JoinSend, UnInitPlugin, Keep, PoolStep
<1>4. CASE UnInitPluginDB
  <2>1. stage \in Late /\ Unload
    BY <1>4 DEF UnInitPluginDB, At, Late
  <2>2. Working = {}
    BY <2>1 DEF LifeInv, Active
  <2>3. \A t \in Thread : ~Busy(t)
    BY <2>2 DEF Working, Busy
  <2> QED BY <2>1, <2>3 DEF PoolStep
<1>5. CASE AddTask \/ Threads
  BY <1>5 DEF AddTask, Threads, RecvEnds, OtherEnds, PoolStep
<1>6. ASSUME NEW t \in Thread, PoolThread(t) PROVE PoolStep
  BY <1>6 DEF PoolThread, OnRequest, Refused, Doworker, PoolStep
<1>7. CASE External
  BY <1>7 DEF External, PoolStep
<1>8. CASE UNCHANGED allvars
  BY <1>8 DEF allvars, PoolStep
<1> QED BY <1>1, <1>2, <1>3, <1>4, <1>5, <1>6, <1>7, <1>8 DEF WorkerNext, CleanEnvironment

LEMMA PoolInvPoolStep == ASSUME PoolInv, PoolStep PROVE PoolInv'
<1>1. CASE \E t \in Thread : Ask(t) \/ Pull(t)
  BY <1>1, InvAsk, InvPull
<1>2. CASE UNCHANGED vars
  BY <1>2, PoolInvQuiet DEF vars, poolVars
<1> QED BY <1>1, <1>2, InvLoad, InvHeartbeat, InvExternal, InvUnload DEF PoolStep

LEMMA WorkerStep ==
  PoolInv /\ LifeInv /\ [WorkerNext]_allvars => PoolInv' /\ LifeInv' /\ PoolStep
<1> SUFFICES ASSUME PoolInv, LifeInv, [WorkerNext]_allvars
             PROVE  PoolInv' /\ LifeInv' /\ PoolStep
  OBVIOUS
<1>1. PoolType
  BY DEF PoolInv
<1> QED BY <1>1, LifeStep, WorkerIsPoolStep, PoolInvPoolStep

LEMMA WorkerInits == WorkerInit => PoolInv /\ LifeInv /\ UniqueInv
<1>1. WorkerInit => Init
  BY DEF WorkerInit
<1> QED BY <1>1, LifeInit, PoolInvInit, RowInvInit

THEOREM WorkerInvHolds == WorkerSpec => [](PoolInv /\ LifeInv)
  BY WorkerInits, WorkerStep, PTL DEF WorkerSpec

(* Nobody is in a plugin that is closed, nor uses the connections of a pool *)
(* that is deleted, in a process with any plugins, threads and requests:    *)
(* the joins of CleanEnvironment, in their order, are enough.              *)
THEOREM InCodeHolds == WorkerSpec => []InCode
<1>1. LifeInv => InCode
  <2> SUFFICES ASSUME LifeInv PROVE InCode
    OBVIOUS
  <2>1. Active => AllLoaded
    BY DEF LifeInv
  <2> QED BY <2>1 DEF Active, AllLoaded, Working, InCode
<1> QED BY <1>1, WorkerInvHolds, PTL

(* What a connection is used for and by whom holds in the process, too.    *)
THEOREM WorkerPoolHolds == WorkerSpec => [](OneUser /\ OwnParams)
<1>1. PoolInv => OneUser /\ OwnParams
  BY DEF PoolInv, OwnParams, FitAt, Bound
<1> QED BY <1>1, WorkerInvHolds, PTL

(* And so does that no cur_val is given out twice.                         *)
THEOREM WorkerUniqueHolds == ASSUME Small PROVE WorkerSpec => []UniqueUnlessLost
<1>1. PoolInv /\ UniqueInv /\ PoolStep => UniqueInv'
  <2> SUFFICES ASSUME PoolInv, UniqueInv, PoolStep PROVE UniqueInv'
    OBVIOUS
  <2> QED BY UniqueStep DEF PoolStep
<1>2. PoolInv /\ LifeInv /\ UniqueInv /\ [WorkerNext]_allvars => PoolInv' /\ LifeInv' /\ UniqueInv'
  BY <1>1, WorkerStep
<1> QED BY <1>2, WorkerInits, UniqueFollows, PTL DEF WorkerSpec

=============================================================================
