---------------------------- MODULE SeqSdk_proofs ----------------------------
(***************************************************************************)
(* The client library implements the ledger: an id is returned to the       *)
(* application at most once and, without a failure, none is lost; a request  *)
(* gives up only when every host has failed (SeqSdk).                       *)
(***************************************************************************)
EXTENDS SeqSdk, FiniteSetTheorems, SequenceTheorems, WellFoundedInduction,
        TLAPS

(* A response of a host, and one whose ids are being used up.              *)
Answers == [value : Nat, count : Nat, cache : {0, ClientCache}, alert : {0, ClientAlertDiff}]
Ranges  == [value : Nat, count : Int, cache : {0, ClientCache}, alert : {0, ClientAlertDiff}]

Requesting == {"select", "connect", "send", "wait", "done"}

(* Types.                                                                  *)
SharedTyped ==
  /\ url \in Url \cup {<<>>} /\ hosts \subseteq Host /\ fused \subseteq hosts
  /\ mapLock \in Caller \cup {None} /\ known \subseteq Name
  /\ lock \in [Name -> Caller \cup {None}]
  /\ tasks \subseteq known
  /\ calls \in 0 .. Calls /\ faults \in 0 .. Faults
NamesTyped ==
  /\ total \in [Name -> Int] /\ pulling \in [Name -> BOOLEAN]
  /\ cache \in [Name -> {0, ClientCache}] /\ alert \in [Name -> {0, ClientAlertDiff}]
  /\ cursor \in [Name -> Nat]
ThreadsTyped ==
  /\ pc \in [Thread -> {"idle", "find", "enter", "select", "connect", "send", "wait", "done"}]
  /\ name \in [Thread -> Name] /\ host \in [Thread -> Host \cup {None}]
  /\ ask \in [Thread -> Nat]
RangesTyped ==
  /\ deque \in [Name -> Seq(Ranges)]
  /\ answer \in [Thread -> Answers \cup {None}]
  /\ issued \in [Name -> SUBSET Nat]
Typed == SharedTyped /\ NamesTyped /\ ThreadsTyped /\ RangesTyped

(* Whoever keeps a lock is asking a host; at one the library knows.        *)
Control ==
  /\ \A t \in Thread : pc[t] \in {"find", "enter"} => t \in Caller
  /\ \A t \in Thread : pc[t] \in {"connect", "send", "wait"} => host[t] \in hosts
  /\ \A t \in Thread : answer[t] # None => pc[t] \in {"wait", "done"}
  /\ \A t \in Caller : pc[t] = "enter" => name[t] \in known
  /\ \A t \in Caller : mapLock = t => ask[t] = 1 /\ pc[t] \in Requesting
  /\ \A t \in Caller : mapLock = t /\ answer[t] # None => answer[t].count <= 1
  /\ \A t \in Caller, n \in Name : lock[n] = t =>
       name[t] = n /\ pc[t] \in Requesting /\ mapLock # t

(* A response as it came: an error, or ids from a positive value on.       *)
Fresh(r) == IF r.value = 0 THEN r.count = 0 ELSE r.count >= 1

(* Only the first range of a deque is in use.                              *)
Whole ==
  /\ \A t \in Thread : answer[t] # None => Fresh(answer[t])
  /\ \A n \in Name : \A i \in 1 .. Len(deque[n]) :
       IF i = 1 THEN deque[n][i].count >= 1 => deque[n][i].value >= 1
                ELSE Fresh(deque[n][i])

Has(t, n) == name[t] = n /\ answer[t] # None
Disjoint(r, s) == \A x \in Nat : ~(x \in Ids(r) /\ x \in Ids(s))

(* No id is in two ranges.                                                 *)
Apart ==
  /\ \A n \in Name : \A i, j \in 1 .. Len(deque[n]) : i # j => Disjoint(deque[n][i], deque[n][j])
  /\ \A n \in Name : \A t, u \in Thread : t # u /\ Has(t, n) /\ Has(u, n) => Disjoint(answer[t], answer[u])
  /\ \A n \in Name : \A t \in Thread, i \in 1 .. Len(deque[n]) :
       Has(t, n) => Disjoint(deque[n][i], answer[t])

(* What is held was taken off the cursor and has not been returned.        *)
Bounded(r, n) == \A x \in Nat : x \in Ids(r) => x < cursor[n] /\ x \notin issued[n]
Claimed ==
  /\ \A n \in Name : \A x \in issued[n] : x \in 1 .. cursor[n] - 1
  /\ \A n \in Name : \A i \in 1 .. Len(deque[n]) : Bounded(deque[n][i], n)
  /\ \A n \in Name : \A t \in Thread : Has(t, n) => Bounded(answer[t], n)
  /\ \A n \in Name : cursor[n] >= 1

SInv == Typed /\ Control /\ Whole /\ Apart /\ Claimed

-----------------------------------------------------------------------------
(* Responses and deques.                                                   *)
LEMMA ResponseTypes ==
  /\ ErrorResponse \in Answers
  /\ \A v, n \in Nat : Response(v, n) \in Answers
  /\ Answers \subseteq Ranges
  /\ \A r \in Ranges : /\ Used(r) \in Ranges
                       /\ Used(r).value = r.value + 1 /\ Used(r).count = r.count - 1
  /\ None \notin Answers
<1>1. ErrorResponse \in Answers /\ Answers \subseteq Ranges
  BY DEF ErrorResponse, Answers, Ranges
<1>2. \A v, n \in Nat : Response(v, n) \in Answers
  BY SeqSdkAssumption DEF Response, Answers
<1>3. ASSUME NEW r \in Ranges
      PROVE  Used(r) \in Ranges /\ Used(r).value = r.value + 1 /\ Used(r).count = r.count - 1
  <2>1. r.value \in Nat /\ r.count \in Int
    BY DEF Ranges
  <2> DEFINE q == [r EXCEPT !.value = r.value + 1]
  <2>2. q \in Ranges /\ q.value = r.value + 1 /\ q.count = r.count
    BY <2>1 DEF Ranges
  <2>3. Used(r) = [q EXCEPT !.count = r.count - 1]
    BY DEF Used
  <2> HIDE DEF q
  <2> QED BY <2>1, <2>2, <2>3 DEF Ranges
<1>4. None \notin Answers
  <2>1. Answers \subseteq [value : Nat, count : Nat, cache : Nat, alert : Nat]
    BY SeqSdkAssumption DEF Answers
  <2> QED BY <2>1, SeqSdkAssumption
<1> QED BY <1>1, <1>2, <1>3, <1>4

(* The host never gives fewer ids than it is asked for.                    *)
LEMMA RoundUpType ==
  ASSUME NEW n \in Nat PROVE RoundUp(n) \in Nat /\ RoundUp(n) >= n
<1>1. Factor \in Nat \ {0}
  BY SeqSdkAssumption
<1> DEFINE q == (n + Factor - 1) \div Factor
           r == (n + Factor - 1) % Factor
<1>2. q \in Nat /\ r \in 0 .. Factor - 1 /\ n + Factor - 1 = Factor * q + r
  BY <1>1
<1>3. q * Factor \in Nat /\ q * Factor = Factor * q
  BY <1>1, <1>2
<1>4. q * Factor >= n
  BY <1>1, <1>2, <1>3
<1> QED BY <1>3, <1>4 DEF RoundUp

(* Popping takes at most the first range, when it is spent.                *)
LEMMA PoppedDeque ==
  ASSUME NEW d \in Seq(Ranges)
  PROVE  \E k \in {0, 1} :
           /\ Popped(d) \in Seq(Ranges) /\ Len(Popped(d)) = Len(d) - k
           /\ \A i \in 1 .. Len(Popped(d)) : Popped(d)[i] = d[i + k]
           /\ k = 1 => d # <<>> /\ d[1].count <= 0
           /\ k = 0 /\ d # <<>> => d[1].count >= 1
<1>1. CASE d # <<>> /\ Head(d).count <= 0
  <2>1. Popped(d) = Tail(d)
    BY <1>1 DEF Popped
  <2>2. /\ Tail(d) \in Seq(Ranges) /\ Len(Tail(d)) = Len(d) - 1
        /\ \A i \in 1 .. Len(Tail(d)) : Tail(d)[i] = d[i + 1]
        /\ Head(d) = d[1]
    BY <1>1, HeadTailProperties
  <2>3. d[1].count <= 0 /\ Len(d) \in Nat /\ Len(d) - 1 = Len(d) - 1
    BY <1>1, <2>2
  <2>4. /\ Popped(d) \in Seq(Ranges) /\ Len(Popped(d)) = Len(d) - 1
        /\ \A i \in 1 .. Len(Popped(d)) : Popped(d)[i] = d[i + 1]
    BY <2>1, <2>2
  <2> QED BY <1>1, <2>3, <2>4
<1>2. CASE ~(d # <<>> /\ Head(d).count <= 0)
  <2>1. Popped(d) = d
    BY <1>2 DEF Popped
  <2>2. d # <<>> => Head(d) = d[1] /\ d[1] \in Ranges
    BY HeadTailProperties, ElementOfSeq
  <2>3. d # <<>> => d[1].count >= 1
    BY <1>2, <2>2 DEF Ranges
  <2>4. Len(d) \in Nat
    OBVIOUS
  <2> QED BY <2>1, <2>3, <2>4
<1> QED BY <1>1, <1>2

LEMMA ConsProperties ==
  ASSUME NEW S, NEW u \in S, NEW t \in Seq(S)
  PROVE  /\ <<u>> \o t \in Seq(S) /\ Len(<<u>> \o t) = Len(t) + 1
         /\ (<<u>> \o t)[1] = u
         /\ \A i \in 2 .. Len(t) + 1 : (<<u>> \o t)[i] = t[i - 1]
  OBVIOUS

(* Taking an id uses the first range that is left.                         *)
LEMMA TakenDeque ==
  ASSUME NEW d \in Seq(Ranges), Popped(d) # <<>>,
         NEW e, e = <<Used(Head(Popped(d)))>> \o Tail(Popped(d))
  PROVE  \E k \in {0, 1} :
           /\ Head(Popped(d)) = d[1 + k] /\ 1 + k <= Len(d)
           /\ e \in Seq(Ranges) /\ Len(e) = Len(d) - k
           /\ e[1] = Used(d[1 + k])
           /\ \A i \in 2 .. Len(e) : e[i] = d[i + k]
           /\ k = 1 => d[1].count <= 0
           /\ k = 0 => d[1].count >= 1
<1> DEFINE p == Popped(d)
<1>1. PICK k \in {0, 1} :
        /\ p \in Seq(Ranges) /\ Len(p) = Len(d) - k
        /\ \A i \in 1 .. Len(p) : p[i] = d[i + k]
        /\ k = 1 => d # <<>> /\ d[1].count <= 0
        /\ k = 0 /\ d # <<>> => d[1].count >= 1
  BY PoppedDeque
<1>2. /\ Head(p) = p[1] /\ Head(p) \in Ranges /\ Tail(p) \in Seq(Ranges)
      /\ Len(p) >= 1 /\ Len(Tail(p)) = Len(p) - 1
      /\ \A i \in 1 .. Len(Tail(p)) : Tail(p)[i] = p[i + 1]
  BY <1>1, HeadTailProperties
<1>3. Used(Head(p)) \in Ranges
  BY <1>2, ResponseTypes DEF Ranges
<1> DEFINE u == Used(Head(p))
           t == Tail(p)
<1> HIDE DEF p, u, t
<1>4. u \in Ranges /\ t \in Seq(Ranges) /\ Len(t) = Len(p) - 1 /\ e = <<u>> \o t
  BY <1>2, <1>3 DEF p, u, t
<1>5. e \in Seq(Ranges) /\ Len(e) = Len(t) + 1
  <2>1. <<u>> \o t \in Seq(Ranges) /\ Len(<<u>> \o t) = Len(t) + 1
    BY <1>4, ConsProperties
  <2> QED BY <1>4, <2>1, Zenon
<1>6. e[1] = u /\ \A i \in 2 .. Len(t) + 1 : e[i] = t[i - 1]
  BY <1>4, ConsProperties
<1>7. Len(e) = Len(d) - k /\ Len(p) \in Nat
  BY <1>1, <1>4, <1>5, LenProperties
<1>8. \A i \in 2 .. Len(e) : e[i] = p[i]
  BY <1>2, <1>4, <1>5, <1>6, <1>7 DEF t
<1>9. \A i \in 2 .. Len(e) : e[i] = d[i + k]
  <2>1. Len(p) \in Nat /\ Len(e) = Len(p)
    BY <1>4, <1>5, <1>7
  <2>2. \A i \in 2 .. Len(e) : i \in 1 .. Len(p)
    BY <2>1
  <2> QED BY <1>1, <1>8, <2>2
<1>10. Head(p) = d[1 + k] /\ 1 + k <= Len(d)
  BY <1>1, <1>2
<1>11. d # <<>>
  BY <1>1, <1>10
<1> QED BY <1>1, <1>5, <1>6, <1>7, <1>9, <1>10, <1>11 DEF u, p

-----------------------------------------------------------------------------
(* Types and control.                                                      *)
LEMMA TypedTypeOK == Typed => TypeOK
  BY DEF Typed, SharedTyped, NamesTyped, ThreadsTyped, TypeOK

LEMMA InitTyped == Init => Typed /\ Control
<1> SUFFICES ASSUME Init PROVE Typed /\ Control
  OBVIOUS
<1>1. <<>> \in Seq(Ranges)
  OBVIOUS
<1>2. SharedTyped /\ NamesTyped /\ ThreadsTyped
  BY SeqSdkAssumption DEF Init, SharedTyped, NamesTyped, ThreadsTyped, Thread
<1>3. RangesTyped
  BY <1>1 DEF Init, RangesTyped
<1>4. Control
  BY SeqSdkAssumption DEF Init, Control, Thread
<1> QED BY <1>2, <1>3, <1>4 DEF Typed

(* A set of naturals that is not empty has a least element.               *)
LEMMA LeastNatural ==
  ASSUME NEW I \in SUBSET Nat, I # {}
  PROVE  \E m \in I : \A k \in I : m <= k
<1> DEFINE R == {ss \in Nat \X Nat : ss[1] < ss[2]}
<1>1. IsWellFoundedOn(R, Nat)
  BY NatLessThanWellFounded DEF OpToRel
<1> HIDE DEF R
<1>2. PICK m \in I : \A k \in I : ~(<<k, m>> \in R)
  BY <1>1, WFMin
<1>3. \A k \in I : ~(k < m)
  BY <1>2 DEF R
<1> QED BY <1>2, <1>3

LEMMA MinOfSome ==
  ASSUME NEW I \in SUBSET Nat, I # {}
  PROVE  Min(I) \in I /\ \A i \in I : Min(I) <= i
  BY LeastNatural DEF Min

(* SetServerUrl keeps the hosts before the first bad entry.                *)
LEMMA HostsType ==
  ASSUME NEW u \in Url PROVE Hosts(u) \subseteq Host
<1>1. u \in Seq(Host \cup {Bad})
  BY SeqSdkAssumption
<1> DEFINE I == {i \in 1 .. Len(u) : u[i] = Bad}
           n == SelectInSeq(u, LAMBDA e : e = Bad)
<1>2. n = IF I # {} THEN Min(I) ELSE 0
  BY DEF SelectInSeq
<1>3. CASE I = {}
  <2>1. n = 0 /\ Hosts(u) = ToSet(u)
    BY <1>2, <1>3 DEF Hosts
  <2> QED BY <1>1, <1>3, <2>1, ElementOfSeq DEF ToSet
<1>4. CASE I # {}
  <2>1. n = Min(I) /\ Min(I) \in I
    BY <1>2, <1>4, MinOfSome
  <2>2. Hosts(u) = ToSet(SubSeq(u, 1, n - 1)) /\ n \in 1 .. Len(u)
    BY <2>1 DEF Hosts
  <2>3. \A i \in 1 .. n - 1 : u[i] \in Host
    <3>1. ASSUME NEW i \in 1 .. n - 1 PROVE i \in 1 .. Len(u) /\ i \notin I
      BY <1>1, <1>4, <2>1, <2>2, MinOfSome
    <3>2. \A i \in 1 .. Len(u) : u[i] \in Host \cup {Bad}
      BY <1>1
    <3> HIDE DEF n
    <3> QED BY <3>1, <3>2
  <2>4. \A i \in DOMAIN SubSeq(u, 1, n - 1) : SubSeq(u, 1, n - 1)[i] \in Host
    <3>1. n \in Int /\ n - 1 \in Int
      BY <2>2
    <3> HIDE DEF n
    <3>2. SubSeq(u, 1, n - 1) \in Seq(Host)
      BY <2>3, <3>1, SubSeqProperties
    <3> QED BY <3>2
  <2> QED BY <2>2, <2>4 DEF ToSet
<1> QED BY <1>3, <1>4

LEMMA Constants ==
  /\ Caller \subseteq Thread /\ Pool \in Thread /\ Pool \notin Caller
  /\ None \notin Caller /\ None \notin Thread
  /\ Calls \in Nat /\ Faults \in Nat /\ ClientCache \in Nat /\ ClientAlertDiff \in Nat
  /\ \A t \in Thread : t \in Caller \/ t = Pool
  BY SeqSdkAssumption DEF Thread

LEMMA SetServerUrlTyped ==
  ASSUME Typed, Control, NEW u \in Url, SetServerUrl(u)
  PROVE  Typed' /\ Control'
<1> USE Constants DEF SetServerUrl, batch, request
<1>1. SharedTyped'
  BY HostsType DEF Typed, Control, SharedTyped, ThreadsTyped
<1>2. NamesTyped'
  BY HostsType DEF Typed, NamesTyped, ThreadsTyped
<1>3. ThreadsTyped'
  BY HostsType DEF Typed, SharedTyped, NamesTyped, ThreadsTyped
<1>4. RangesTyped'
  BY HostsType DEF Typed, RangesTyped, ThreadsTyped
<1>5. Control'
  BY HostsType DEF Typed, Control, SharedTyped, ThreadsTyped, RangesTyped, Requesting
<1> QED BY <1>1, <1>2, <1>3, <1>4, <1>5 DEF Typed

LEMMA CallTyped ==
  ASSUME Typed, Control, NEW t \in Caller, NEW n \in Name, Call(t, n)
  PROVE  Typed' /\ Control'
<1> USE Constants DEF Call, Goto, config, batch
<1>1. SharedTyped'
  BY DEF Typed, Control, SharedTyped, ThreadsTyped
<1>2. NamesTyped'
  BY DEF Typed, NamesTyped, ThreadsTyped
<1>3. ThreadsTyped'
  BY DEF Typed, SharedTyped, NamesTyped, ThreadsTyped
<1>4. RangesTyped'
  BY DEF Typed, RangesTyped, ThreadsTyped
<1>5. Control'
  BY DEF Typed, Control, SharedTyped, ThreadsTyped, RangesTyped, Requesting
<1> QED BY <1>1, <1>2, <1>3, <1>4, <1>5 DEF Typed

LEMMA SelectValidHostTyped ==
  ASSUME Typed, Control, NEW t \in Thread, SelectValidHost(t)
  PROVE  Typed' /\ Control'
<1> USE Constants DEF SelectValidHost, Goto, config, batch
<1>1. SharedTyped'
  BY DEF Typed, Control, SharedTyped, ThreadsTyped
<1>2. NamesTyped'
  BY DEF Typed, NamesTyped, ThreadsTyped
<1>3. ThreadsTyped'
  <2>1. CASE UNCHANGED host
    BY <2>1 DEF Typed, ThreadsTyped
  <2>2. ASSUME NEW h \in hosts, host' = [host EXCEPT ![t] = h], Goto(t, "connect")
        PROVE  ThreadsTyped'
    BY <2>2 DEF Typed, SharedTyped, ThreadsTyped
  <2> QED BY <2>1, <2>2
<1>4. RangesTyped'
  BY DEF Typed, RangesTyped, ThreadsTyped
<1>5. Control'
  <2>1. CASE UNCHANGED host /\ Goto(t, "done")
    BY <2>1 DEF Typed, Control, ThreadsTyped, Requesting
  <2>2. ASSUME NEW h \in hosts, host' = [host EXCEPT ![t] = h], Goto(t, "connect")
        PROVE  Control'
    BY <2>2 DEF Typed, Control, SharedTyped, ThreadsTyped, Requesting
  <2> QED BY <2>1, <2>2
<1> QED BY <1>1, <1>2, <1>3, <1>4, <1>5 DEF Typed

LEMMA ConnectTyped ==
  ASSUME Typed, Control, NEW t \in Thread, Connect(t)
  PROVE  Typed' /\ Control'
<1> USE Constants DEF Connect, Goto, Fault, Fuse, config, batch, request
<1>1. SharedTyped'
  BY DEF Typed, Control, SharedTyped, ThreadsTyped
<1>2. NamesTyped'
  BY DEF Typed, NamesTyped, ThreadsTyped
<1>3. ThreadsTyped'
  <2>1. \E l \in {"send", "select", "done"} : pc' = [pc EXCEPT ![t] = l]
    OBVIOUS
  <2> QED BY <2>1 DEF Typed, ThreadsTyped
<1>4. RangesTyped'
  BY DEF Typed, RangesTyped, ThreadsTyped
<1>5. Control'
  <2>1. \E l \in {"send", "select", "done"} : pc' = [pc EXCEPT ![t] = l]
    OBVIOUS
  <2>2. pc[t] = "connect" /\ UNCHANGED <<hosts, mapLock, known, lock, name, host, ask, answer>>
    OBVIOUS
  <2> QED BY <2>1, <2>2 DEF Typed, Control, SharedTyped, ThreadsTyped, RangesTyped, Requesting
<1> QED BY <1>1, <1>2, <1>3, <1>4, <1>5 DEF Typed

LEMMA ServeTyped ==
  ASSUME Typed, Control, NEW t \in Thread, Serve(t)
  PROVE  Typed' /\ Control'
<1> USE Constants DEF Serve, Goto, Fault, config, batch, request
<1>0. /\ ErrorResponse \in Answers /\ ErrorResponse.count = 0
      /\ RoundUp(ask[t]) \in Nat
      /\ \A v, k \in Nat : Response(v, k) \in Answers /\ Response(v, k).count = k
  BY ResponseTypes, RoundUpType DEF Typed, ThreadsTyped, Response, ErrorResponse
<1>1. SharedTyped'
  BY <1>0 DEF Typed, Control, SharedTyped, ThreadsTyped
<1>2. NamesTyped'
  BY <1>0 DEF Typed, NamesTyped, ThreadsTyped
<1>3. ThreadsTyped'
  BY <1>0 DEF Typed, SharedTyped, NamesTyped, ThreadsTyped
<1>4. RangesTyped'
  <2>1. \E r \in Answers : answer' = [answer EXCEPT ![t] = r]
    BY <1>0 DEF Typed, NamesTyped, ThreadsTyped
  <2> QED BY <2>1 DEF Typed, RangesTyped
<1>5. Control'
  <2> DEFINE k == IF ask[t] > 1 THEN RoundUp(ask[t]) ELSE 1
  <2>3. k \in Nat /\ (ask[t] = 1 => k = 1) /\ cursor[name[t]] \in Nat
    BY <1>0 DEF Typed, NamesTyped, ThreadsTyped
  <2>4. \/ answer' = [answer EXCEPT ![t] = Response(cursor[name[t]], k)]
        \/ answer' = [answer EXCEPT ![t] = ErrorResponse]
    OBVIOUS
  <2>1. \E r \in Answers : answer' = [answer EXCEPT ![t] = r] /\ (ask[t] = 1 => r.count <= 1)
    <3> HIDE DEF k
    <3> QED BY <1>0, <2>3, <2>4
  <2>2. pc' = [pc EXCEPT ![t] = "wait"] /\ pc[t] = "send"
    OBVIOUS
  <2> QED BY <2>1, <2>2 DEF Typed, Control, ThreadsTyped, RangesTyped, Requesting
<1> QED BY <1>1, <1>2, <1>3, <1>4, <1>5 DEF Typed

LEMMA ReceiveTyped ==
  ASSUME Typed, Control, NEW t \in Thread, Receive(t)
  PROVE  Typed' /\ Control'
<1> USE Constants DEF Receive, Goto, config, batch, request
<1>1. SharedTyped'
  BY DEF Typed, Control, SharedTyped, ThreadsTyped
<1>2. NamesTyped'
  BY DEF Typed, NamesTyped, ThreadsTyped
<1>3. ThreadsTyped'
  BY DEF Typed, SharedTyped, NamesTyped, ThreadsTyped
<1>4. RangesTyped'
  BY DEF Typed, RangesTyped, ThreadsTyped
<1>5. Control'
  BY DEF Typed, Control, SharedTyped, ThreadsTyped, RangesTyped, Requesting
<1> QED BY <1>1, <1>2, <1>3, <1>4, <1>5 DEF Typed

LEMMA TryAgainTyped ==
  ASSUME Typed, Control, NEW t \in Thread, TryAgain(t)
  PROVE  Typed' /\ Control'
<1> USE Constants DEF TryAgain, Goto, Fault, Fuse, config, batch, request
<1>1. SharedTyped'
  BY DEF Typed, Control, SharedTyped, ThreadsTyped
<1>2. NamesTyped'
  BY DEF Typed, NamesTyped, ThreadsTyped
<1>3. ThreadsTyped'
  BY DEF Typed, SharedTyped, NamesTyped, ThreadsTyped
<1>4. RangesTyped'
  BY DEF Typed, RangesTyped, ThreadsTyped
<1>5. Control'
  BY DEF Typed, Control, SharedTyped, ThreadsTyped, RangesTyped, Requesting
<1> QED BY <1>1, <1>2, <1>3, <1>4, <1>5 DEF Typed

LEMMA MisreadTyped ==
  ASSUME Typed, Control, NEW t \in Thread, Misread(t)
  PROVE  Typed' /\ Control'
<1> USE Constants DEF Misread, Fault, config, batch, request
<1>1. SharedTyped'
  BY DEF Typed, Control, SharedTyped, ThreadsTyped
<1>2. NamesTyped'
  BY DEF Typed, NamesTyped, ThreadsTyped
<1>3. ThreadsTyped'
  BY DEF Typed, SharedTyped, NamesTyped, ThreadsTyped
<1>4. RangesTyped'
  BY DEF Typed, RangesTyped, ThreadsTyped
<1>5. Control'
  BY DEF Typed, Control, SharedTyped, ThreadsTyped, RangesTyped, Requesting
<1> QED BY <1>1, <1>2, <1>3, <1>4, <1>5 DEF Typed

LEMMA FindTyped ==
  ASSUME Typed, Control, NEW t \in Caller, Find(t)
  PROVE  Typed' /\ Control'
<1> USE Constants DEF Find, Goto, config, batch
<1>1. SharedTyped'
  BY DEF Typed, Control, SharedTyped, ThreadsTyped
<1>2. NamesTyped'
  BY DEF Typed, NamesTyped, ThreadsTyped
<1>3. ThreadsTyped'
  BY DEF Typed, SharedTyped, NamesTyped, ThreadsTyped
<1>4. RangesTyped'
  BY DEF Typed, RangesTyped, ThreadsTyped
<1>5. Control'
  <2>1. CASE name[t] \in known
    BY <2>1 DEF Typed, Control, SharedTyped, ThreadsTyped, Requesting
  <2>2. CASE name[t] \notin known
    <3>1. answer[t] = None /\ mapLock' = t
      BY <2>2 DEF Typed, Control, ThreadsTyped
    <3> QED BY <2>2, <3>1 DEF Typed, Control, SharedTyped, ThreadsTyped, Requesting
  <2> QED BY <2>1, <2>2
<1> QED BY <1>1, <1>2, <1>3, <1>4, <1>5 DEF Typed

LEMMA FetchTyped ==
  ASSUME Typed, Control, NEW t \in Caller, Fetch(t)
  PROVE  Typed' /\ Control'
<1> USE Constants DEF Fetch, Goto, config
<1>1. SharedTyped'
  BY DEF Typed, Control, SharedTyped, ThreadsTyped
<1>2. NamesTyped'
  BY DEF Typed, NamesTyped, ThreadsTyped
<1>3. ThreadsTyped'
  <2>1. \E k \in Nat : ask' = [ask EXCEPT ![t] = k]
    BY DEF Typed, NamesTyped, ThreadsTyped
  <2> QED BY <2>1 DEF Typed, ThreadsTyped
<1>4. RangesTyped'
  BY DEF Typed, RangesTyped, ThreadsTyped
<1>5. Control'
  BY DEF Typed, Control, SharedTyped, ThreadsTyped, RangesTyped, Requesting
<1> QED BY <1>1, <1>2, <1>3, <1>4, <1>5 DEF Typed

LEMMA TakeTyped ==
  ASSUME Typed, Control, NEW t \in Caller, Take(t)
  PROVE  Typed' /\ Control'
<1> USE Constants DEF Take, Goto, Return, WantsMore, config, request
<1> DEFINE d == deque[name[t]]
<1>0. /\ d \in Seq(Ranges) /\ Popped(d) # <<>>
      /\ <<Used(Head(Popped(d)))>> \o Tail(Popped(d)) \in Seq(Ranges)
      /\ Head(Popped(d)).value \in Nat
  <2>1. d \in Seq(Ranges) /\ Popped(d) # <<>>
    BY DEF Typed, RangesTyped, ThreadsTyped
  <2>2. Popped(d) \in Seq(Ranges)
    BY <2>1, PoppedDeque
  <2>3. Head(Popped(d)) \in Ranges
    BY <2>1, <2>2, HeadTailProperties
  <2> QED BY <2>1, <2>3, TakenDeque DEF Ranges
<1>1. SharedTyped'
  BY <1>0 DEF Typed, Control, SharedTyped, ThreadsTyped
<1>2. NamesTyped'
  <2>1. WantsMore(name[t]) \in BOOLEAN
    BY DEF WantsMore
  <2> HIDE DEF WantsMore
  <2>2. \A b \in BOOLEAN : (b \/ WantsMore(name[t])) \in BOOLEAN
    BY <2>1
  <2>3. pulling' \in [Name -> BOOLEAN]
    BY <2>2 DEF Typed, NamesTyped, ThreadsTyped
  <2>4. total' \in [Name -> Int]
    BY DEF Typed, NamesTyped, ThreadsTyped
  <2> QED BY <2>3, <2>4 DEF Typed, NamesTyped
<1>3. ThreadsTyped'
  BY <1>0 DEF Typed, SharedTyped, NamesTyped, ThreadsTyped
<1>4. RangesTyped'
  BY <1>0 DEF Typed, RangesTyped, ThreadsTyped
<1>5. Control'
  BY <1>0 DEF Typed, Control, SharedTyped, ThreadsTyped, RangesTyped, Requesting
<1> QED BY <1>1, <1>2, <1>3, <1>4, <1>5 DEF Typed

LEMMA FinishFirstTyped ==
  ASSUME Typed, Control, NEW t \in Caller, FinishFirst(t)
  PROVE  Typed' /\ Control'
<1> USE Constants DEF FinishFirst, Goto, Return, Valid, config, request
<1>0. answer[t] # None =>
        /\ answer[t].value \in Nat /\ answer[t].count \in Nat
        /\ answer[t].cache \in {0, ClientCache} /\ answer[t].alert \in {0, ClientAlertDiff}
        /\ answer[t] \in Ranges /\ Used(answer[t]) \in Ranges
  BY ResponseTypes DEF Typed, RangesTyped, Answers
<1>1. SharedTyped'
  BY <1>0 DEF Typed, Control, SharedTyped, ThreadsTyped
<1>2. NamesTyped'
  BY <1>0 DEF Typed, NamesTyped, ThreadsTyped
<1>3. ThreadsTyped'
  BY <1>0 DEF Typed, SharedTyped, NamesTyped, ThreadsTyped
<1>4. RangesTyped'
  BY <1>0 DEF Typed, RangesTyped, ThreadsTyped
<1>5. Control'
  BY <1>0 DEF Typed, Control, SharedTyped, ThreadsTyped, RangesTyped, Requesting
<1> QED BY <1>1, <1>2, <1>3, <1>4, <1>5 DEF Typed

LEMMA FinishFetchTyped ==
  ASSUME Typed, Control, NEW t \in Caller, FinishFetch(t)
  PROVE  Typed' /\ Control'
<1> USE Constants DEF FinishFetch, Goto, Return, Valid, config, request
<1>0. answer[t] # None =>
        /\ answer[t].value \in Nat /\ answer[t].count \in Nat
        /\ answer[t].cache \in {0, ClientCache} /\ answer[t].alert \in {0, ClientAlertDiff}
        /\ answer[t] \in Ranges /\ Used(answer[t]) \in Ranges
  BY ResponseTypes DEF Typed, RangesTyped, Answers
<1>1. SharedTyped'
  BY <1>0 DEF Typed, Control, SharedTyped, ThreadsTyped
<1>2. NamesTyped'
  BY <1>0 DEF Typed, NamesTyped, ThreadsTyped
<1>3. ThreadsTyped'
  BY <1>0 DEF Typed, SharedTyped, NamesTyped, ThreadsTyped
<1>4. RangesTyped'
  <2> DEFINE n == name[t]
  <2>1. deque[n] \in Seq(Ranges) /\ n \in Name
    BY DEF Typed, ThreadsTyped, RangesTyped
  <2>2. answer[t] # None => Append(deque[n], Used(answer[t])) \in Seq(Ranges)
    BY <1>0, <2>1
  <2> HIDE DEF n
  <2>3. \E q \in Seq(Ranges) : deque' = [deque EXCEPT ![n] = q]
    <3>1. CASE ~Valid(t)
      BY <2>1, <3>1 DEF Typed, RangesTyped
    <3>2. CASE Valid(t)
      BY <2>1, <2>2, <3>2 DEF n
    <3> QED BY <3>1, <3>2
  <2>4. \E v \in Nat : issued' = [issued EXCEPT ![n] = @ \cup {v}] \/ issued' = issued
    <3>1. CASE ~Valid(t)
      BY <3>1
    <3>2. CASE Valid(t)
      BY <1>0, <3>2 DEF n
    <3> QED BY <3>1, <3>2
  <2>5. answer' = [answer EXCEPT ![t] = None]
    OBVIOUS
  <2> QED BY <2>1, <2>3, <2>4, <2>5 DEF Typed, RangesTyped
<1>5. Control'
  <2>1. pc' = [pc EXCEPT ![t] = "idle"] /\ answer' = [answer EXCEPT ![t] = None] /\ mapLock # t
    BY DEF Typed, Control, ThreadsTyped
  <2>3. \A n \in Name : lock'[n] # t
    BY <2>1 DEF Typed, Control, SharedTyped, ThreadsTyped
  <2>2. UNCHANGED <<mapLock, known, name, host, ask, hosts>>
    OBVIOUS
  <2> QED BY <2>1, <2>2, <2>3 DEF Typed, Control, ThreadsTyped, RangesTyped, Requesting
<1> QED BY <1>1, <1>2, <1>3, <1>4, <1>5 DEF Typed

LEMMA TakeTaskTyped ==
  ASSUME Typed, Control, NEW n \in Name, TakeTask(n)
  PROVE  Typed' /\ Control'
<1> USE Constants DEF TakeTask, Goto, config, batch
<1>1. SharedTyped'
  BY DEF Typed, Control, SharedTyped, ThreadsTyped
<1>2. NamesTyped'
  BY DEF Typed, NamesTyped, ThreadsTyped
<1>3. ThreadsTyped'
  <2>1. cache[n] \in Nat
    BY DEF Typed, NamesTyped
  <2> QED BY <2>1 DEF Typed, ThreadsTyped
<1>4. RangesTyped'
  BY DEF Typed, RangesTyped, ThreadsTyped
<1>5. Control'
  BY DEF Typed, Control, SharedTyped, ThreadsTyped, RangesTyped, Requesting
<1> QED BY <1>1, <1>2, <1>3, <1>4, <1>5 DEF Typed

LEMMA FinishPrefetchTyped ==
  ASSUME Typed, Control, FinishPrefetch
  PROVE  Typed' /\ Control'
<1> USE Constants DEF FinishPrefetch, Prefetched, Goto, config, request
<1>0. answer[Pool] # None =>
        /\ answer[Pool].value \in Nat /\ answer[Pool].count \in Nat
        /\ answer[Pool].cache \in {0, ClientCache} /\ answer[Pool].alert \in {0, ClientAlertDiff}
        /\ answer[Pool] \in Ranges /\ Used(answer[Pool]) \in Ranges
  BY ResponseTypes DEF Typed, RangesTyped, Answers
<1>1. SharedTyped'
  BY <1>0 DEF Typed, Control, SharedTyped, ThreadsTyped
<1>2. NamesTyped'
  <2>1. CASE answer[Pool] = None
    BY <2>1 DEF Typed, NamesTyped, ThreadsTyped
  <2>2. CASE answer[Pool] # None
    <3>1. total' \in [Name -> Int]
      BY <1>0, <2>2 DEF Typed, NamesTyped, ThreadsTyped
    <3>2. cache' \in [Name -> {0, ClientCache}] /\ alert' \in [Name -> {0, ClientAlertDiff}]
      BY <1>0, <2>2 DEF Typed, NamesTyped, ThreadsTyped
    <3>3. pulling' \in [Name -> BOOLEAN] /\ cursor' \in [Name -> Nat]
      BY DEF Typed, NamesTyped, ThreadsTyped
    <3> QED BY <3>1, <3>2, <3>3 DEF NamesTyped
  <2> QED BY <2>1, <2>2
<1>3. ThreadsTyped'
  BY <1>0 DEF Typed, SharedTyped, NamesTyped, ThreadsTyped
<1>4. RangesTyped'
  <2>1. deque[name[Pool]] \in Seq(Ranges) /\ name[Pool] \in Name
    BY DEF Typed, ThreadsTyped, RangesTyped
  <2>2. \E q \in Seq(Ranges) : deque' = [deque EXCEPT ![name[Pool]] = q]
    <3>1. CASE answer[Pool] = None
      BY <2>1, <3>1 DEF Typed, RangesTyped
    <3>2. CASE answer[Pool] # None
      <4>1. Append(deque[name[Pool]], answer[Pool]) \in Seq(Ranges)
        BY <1>0, <2>1, <3>2
      <4> QED BY <3>2, <4>1
    <3> QED BY <3>1, <3>2
  <2>3. answer' = [answer EXCEPT ![Pool] = None] /\ issued' = issued
    OBVIOUS
  <2> QED BY <2>1, <2>2, <2>3 DEF Typed, RangesTyped
<1>5. Control'
  BY <1>0 DEF Typed, Control, SharedTyped, ThreadsTyped, RangesTyped, Requesting
<1> QED BY <1>1, <1>2, <1>3, <1>4, <1>5 DEF Typed

LEMMA TimePassesTyped ==
  ASSUME Typed, Control, NEW h \in Host, TimePasses(h)
  PROVE  Typed' /\ Control'
<1> USE DEF TimePasses, config, batch, request
<1>1. SharedTyped'
  BY DEF Typed, Control, SharedTyped, ThreadsTyped
<1>2. NamesTyped'
  BY DEF Typed, NamesTyped, ThreadsTyped
<1>3. ThreadsTyped'
  BY DEF Typed, SharedTyped, NamesTyped, ThreadsTyped
<1>4. RangesTyped'
  BY DEF Typed, RangesTyped, ThreadsTyped
<1>5. Control'
  BY DEF Typed, Control, SharedTyped, ThreadsTyped, RangesTyped, Requesting
<1> QED BY <1>1, <1>2, <1>3, <1>4, <1>5 DEF Typed

LEMMA TypedNext ==
  ASSUME Typed, Control, [Next]_vars
  PROVE  Typed' /\ Control'
<1>1. CASE UNCHANGED vars
  BY <1>1 DEF vars, Typed, Control, SharedTyped, NamesTyped, ThreadsTyped, RangesTyped
<1>2. CASE \E t \in Caller : GetSequence(t)
  BY <1>2, FindTyped, FetchTyped, TakeTyped, FinishFirstTyped, FinishFetchTyped DEF GetSequence
<1>3. CASE \E t \in Thread : HttpRequest(t) \/ Misread(t)
  BY <1>3, SelectValidHostTyped, ConnectTyped, ServeTyped, ReceiveTyped, TryAgainTyped,
     MisreadTyped DEF HttpRequest
<1>4. CASE ThreadWorker
  BY <1>4, TakeTaskTyped, FinishPrefetchTyped DEF ThreadWorker
<1> QED BY <1>1, <1>2, <1>3, <1>4, SetServerUrlTyped, CallTyped, TimePassesTyped DEF Next

-----------------------------------------------------------------------------
(* A fuse goes with a failure.                                             *)
Fuses == Typed /\ Control /\ IsFiniteSet(fused) /\ Cardinality(fused) <= faults

LEMMA InitFuses == Init => Fuses
  BY InitTyped, FS_EmptySet DEF Init, Fuses

LEMMA FuseCounted ==
  ASSUME Fuses, NEW t \in Thread, NEW took, Fuse(t, took), Fault
  PROVE  IsFiniteSet(fused') /\ Cardinality(fused') <= faults'
<1>1. faults \in Nat /\ Cardinality(fused) \in Nat /\ faults' = faults + 1
  BY FS_CardinalityType, Constants DEF Fuses, Typed, SharedTyped, Fault
<1>2. CASE fused' = fused
  BY <1>1, <1>2 DEF Fuses
<1>3. CASE fused' = fused \cup {host[t]}
  BY <1>1, <1>3, FS_AddElement DEF Fuses
<1> QED BY <1>2, <1>3 DEF Fuse

LEMMA NextFuses == Fuses /\ [Next]_vars => Fuses'
<1> SUFFICES ASSUME Fuses, [Next]_vars PROVE Fuses'
  OBVIOUS
<1>1. Typed' /\ Control'
  BY TypedNext DEF Fuses
<1>2. faults \in Nat /\ Cardinality(fused) \in Nat
  BY FS_CardinalityType, Constants DEF Fuses, Typed, SharedTyped
<1>3. \/ UNCHANGED fused /\ (faults' = faults \/ faults' = faults + 1)
      \/ \E t \in Thread : \E took \in {ConnectTimeout, Timeout, 0} : Fuse(t, took) /\ Fault
      \/ fused' \subseteq fused /\ faults' = faults
  <2>1. CASE UNCHANGED vars
    BY <2>1 DEF vars
  <2>2. ASSUME NEW u \in Url, SetServerUrl(u) PROVE fused' \subseteq fused /\ faults' = faults
    BY <2>2 DEF SetServerUrl
  <2>3. ASSUME NEW h \in Host, TimePasses(h) PROVE fused' \subseteq fused /\ faults' = faults
    BY <2>3 DEF TimePasses
  <2>4. ASSUME NEW t \in Thread, HttpRequest(t) \/ Misread(t)
        PROVE  \/ UNCHANGED fused /\ (faults' = faults \/ faults' = faults + 1)
               \/ \E took \in {ConnectTimeout, Timeout, 0} : Fuse(t, took) /\ Fault
    BY <2>4 DEF HttpRequest, SelectValidHost, Connect, Serve, Receive, TryAgain, Misread, Fault
  <2>5. ASSUME NEW t \in Caller, GetSequence(t) PROVE UNCHANGED <<fused, faults>>
    BY <2>5 DEF GetSequence, Find, Fetch, Take, FinishFirst, FinishFetch
  <2>6. ASSUME ThreadWorker PROVE UNCHANGED <<fused, faults>>
    BY <2>6 DEF ThreadWorker, FinishPrefetch, TakeTask
  <2>7. ASSUME NEW t \in Caller, NEW n \in Name, Call(t, n) PROVE UNCHANGED <<fused, faults>>
    BY <2>7 DEF Call
  <2> QED BY <2>1, <2>2, <2>3, <2>4, <2>5, <2>6, <2>7 DEF Next
<1>4. CASE UNCHANGED fused /\ (faults' = faults \/ faults' = faults + 1)
  BY <1>1, <1>2, <1>4 DEF Fuses
<1>5. CASE \E t \in Thread : \E took \in {ConnectTimeout, Timeout, 0} : Fuse(t, took) /\ Fault
  BY <1>1, <1>5, FuseCounted DEF Fuses
<1>6. CASE fused' \subseteq fused /\ faults' = faults
  <2>1. IsFiniteSet(fused') /\ Cardinality(fused') <= Cardinality(fused) /\ Cardinality(fused') \in Nat
    BY <1>6, FS_Subset, FS_CardinalityType DEF Fuses
  <2> QED BY <1>1, <1>2, <1>6, <2>1 DEF Fuses
<1> QED BY <1>3, <1>4, <1>5, <1>6

(* A request gives up for want of a host only when there have been as many *)
(* failures as there are hosts: SelectValidHost refuses a host only for its *)
(* fuse, which a failure set.                                              *)
THEOREM OneHostIsEnough == Spec => OneHostEnough
<1>1. Fuses /\ [Next]_vars =>
        [\A t \in Thread : pc[t] = "select" /\ pc'[t] = "done" => Cardinality(hosts) <= faults]_vars
  <2> SUFFICES ASSUME Fuses, Next, NEW t \in Thread, pc[t] = "select", pc'[t] = "done"
               PROVE  Cardinality(hosts) <= faults
    OBVIOUS
  <2>1. SelectValidHost(t)
    <3> USE DEF Fuses, Typed, ThreadsTyped, Goto
    <3>1. ~\E u \in Url : SetServerUrl(u)
      BY DEF SetServerUrl
    <3>2. ~\E u \in Caller, n \in Name : Call(u, n)
      BY Constants DEF Call
    <3>3. ASSUME NEW u \in Caller, GetSequence(u) PROVE FALSE
      <4>1. \E l \in {"enter", "select", "idle"} : pc' = [pc EXCEPT ![u] = l]
        BY <3>3 DEF GetSequence, Find, Fetch, Take, FinishFirst, FinishFetch
      <4> QED BY <4>1, Constants
    <3>4. ~ThreadWorker
      BY Constants DEF ThreadWorker, FinishPrefetch, TakeTask
    <3>5. ~\E h \in Host : TimePasses(h)
      BY DEF TimePasses
    <3>6. PICK u \in Thread : HttpRequest(u) \/ Misread(u)
      BY <3>1, <3>2, <3>3, <3>4, <3>5 DEF Next
    <3>7. u = t
      BY <3>6 DEF HttpRequest, SelectValidHost, Connect, Serve, Receive, TryAgain, Misread
    <3> QED BY <3>6, <3>7 DEF HttpRequest, Connect, Serve, Receive, TryAgain, Misread
  <2>2. hosts \subseteq fused
    BY <2>1 DEF SelectValidHost, Goto, Fuses, Typed, ThreadsTyped
  <2>3. Cardinality(hosts) <= Cardinality(fused) /\ Cardinality(hosts) \in Nat
    BY <2>2, FS_Subset, FS_CardinalityType DEF Fuses
  <2> QED BY <2>3, FS_CardinalityType, Constants DEF Fuses, Typed, SharedTyped
<1> QED BY <1>1, InitFuses, NextFuses, PTL DEF Spec, OneHostEnough

(* The library's variables keep their types.                               *)
THEOREM SdkTypeCorrect == Spec => []TypeOK
  BY InitTyped, TypedNext, TypedTypeOK, PTL DEF Spec

-----------------------------------------------------------------------------
(* The ids held for a name, and what a step does to them.                  *)
Held(n, x) ==
  \/ \E i \in 1 .. Len(deque[n]) : x \in Ids(deque[n][i])
  \/ \E t \in Thread : Has(t, n) /\ x \in Ids(answer[t])

Keeps(n) ==
  /\ cursor'[n] = cursor[n] /\ issued'[n] = issued[n]
  /\ \A x \in Nat : Held(n, x)' <=> Held(n, x)
Claims(n) ==
  /\ cursor'[n] > cursor[n] /\ issued'[n] = issued[n]
  /\ \A x \in Nat : Held(n, x)' <=> Held(n, x) \/ x \in cursor[n] .. cursor'[n] - 1
Loses(n) ==
  /\ faults' > 0
  /\ cursor'[n] = cursor[n] /\ issued'[n] = issued[n]
  /\ \A x \in Nat : Held(n, x)' => Held(n, x)
Gives(n) ==
  \E v \in Nat :
    /\ Held(n, v)
    /\ cursor'[n] = cursor[n] /\ issued'[n] = issued[n] \cup {v}
    /\ \A x \in Nat : Held(n, x)' <=> Held(n, x) /\ x # v
Accounts == \A n \in Name : Keeps(n) \/ Claims(n) \/ Loses(n) \/ Gives(n)

Sound == Whole /\ Apart /\ Claimed

LEMMA DequeTypes ==
  ASSUME Typed, NEW n \in Name
  PROVE  /\ deque[n] \in Seq(Ranges) /\ Len(deque[n]) \in Nat
         /\ \A i \in 1 .. Len(deque[n]) : deque[n][i] \in Ranges
         /\ cursor[n] \in Nat /\ issued[n] \subseteq Nat
<1>1. deque[n] \in Seq(Ranges) /\ cursor[n] \in Nat /\ issued[n] \subseteq Nat
  BY DEF Typed, RangesTyped, NamesTyped
<1> QED BY <1>1

LEMMA LiveHeld ==
  ASSUME Typed, NEW n \in Name
  PROVE  Live(n) \subseteq Nat /\ \A x \in Nat : x \in Live(n) <=> Held(n, x)
<1>1. DOMAIN deque[n] = 1 .. Len(deque[n])
  BY DequeTypes
<1>2. \A x : x \in Live(n) <=> Held(n, x)
  <2>1. \A x : x \in Queued(n) <=> \E i \in 1 .. Len(deque[n]) : x \in Ids(deque[n][i])
    BY <1>1 DEF Queued, ToSet
  <2>2. \A x : x \in Received(n) <=> \E t \in Answered(n) : x \in Ids(answer[t])
    BY DEF Received
  <2>3. \A t : t \in Answered(n) <=> t \in Thread /\ Has(t, n)
    BY DEF Answered, Has
  <2>4. \A x : x \in Received(n) <=> \E t \in Thread : Has(t, n) /\ x \in Ids(answer[t])
    BY <2>2, <2>3
  <2> QED BY <2>1, <2>4 DEF Live, Held
<1>3. \A i \in 1 .. Len(deque[n]) : Ids(deque[n][i]) \subseteq Nat
  BY DequeTypes DEF Ids, Ranges
<1>4. \A t \in Thread : Has(t, n) => Ids(answer[t]) \subseteq Nat
  BY DEF Has, Typed, RangesTyped, Answers, Ids
<1> QED BY <1>2, <1>3, <1>4 DEF Held

AllHeld == \A n \in Name : Live(n) \subseteq Nat /\ \A x \in Nat : x \in Live(n) <=> Held(n, x)

LEMMA LiveAllHeld == Typed => AllHeld
  BY LiveHeld DEF AllHeld

LEMMA IdsOf ==
  ASSUME NEW r \in Ranges
  PROVE  /\ Ids(r) \subseteq Nat
         /\ r.count <= 0 => Ids(r) = {}
         /\ r.count >= 1 => r.value \in Ids(r)
         /\ \A x \in Nat : x \in Ids(Used(r)) <=> x \in Ids(r) /\ x # r.value
<1>1. r.value \in Nat /\ r.count \in Int
  BY DEF Ranges
<1>2. Used(r).value = r.value + 1 /\ Used(r).count = r.count - 1
  BY ResponseTypes
<1> QED BY <1>1, <1>2 DEF Ids

-----------------------------------------------------------------------------
(* Steps that leave the ranges alone.                                      *)
LEMMA FrameSound ==
  ASSUME Typed, Sound,
         deque' = deque, cursor' = cursor, issued' = issued, answer' = answer,
         \A t \in Thread : answer[t] # None => name'[t] = name[t]
  PROVE  Sound' /\ Accounts
<1>1. \A n \in Name, t \in Thread : Has(t, n)' <=> Has(t, n)
  BY DEF Has
<1>2. \A n \in Name, x \in Nat : Held(n, x)' <=> Held(n, x)
  BY <1>1 DEF Held
<1>3. Sound'
  BY <1>1 DEF Sound, Whole, Apart, Claimed, Bounded, Disjoint
<1> QED BY <1>2, <1>3 DEF Accounts, Keeps

(* A thread drops its answer.                                              *)
LEMMA DropSound ==
  ASSUME Typed, Sound, NEW t \in Thread,
         UNCHANGED <<deque, cursor, issued, name>>,
         answer' = [answer EXCEPT ![t] = None], faults' > 0
  PROVE  Sound' /\ Accounts
<1>1. /\ \A u \in Thread : answer'[u] = IF u = t THEN None ELSE answer[u]
      /\ \A n \in Name, u \in Thread : Has(u, n)' => Has(u, n) /\ u # t
  BY DEF Has, Typed, RangesTyped
<1>2. \A n \in Name, x \in Nat : Held(n, x)' => Held(n, x)
  BY <1>1 DEF Held
<1>3. Whole'
  BY <1>1 DEF Sound, Whole
<1>4. Apart'
  BY <1>1 DEF Sound, Apart, Disjoint
<1>5. Claimed'
  BY <1>1 DEF Sound, Claimed, Bounded
<1> QED BY <1>2, <1>3, <1>4, <1>5 DEF Accounts, Loses, Sound

(* The host's ids come off the cursor.                                     *)
LEMMA ServeSound ==
  ASSUME Typed, Control, Sound, NEW t \in Thread, Serve(t)
  PROVE  Sound' /\ Accounts
<1> SUFFICES ASSUME NEW n, n = name[t],
                    NEW k, k = IF ask[t] > 1 THEN RoundUp(ask[t]) ELSE 1,
                    NEW r, r = Response(cursor[n], k)
             PROVE  Sound' /\ Accounts
  OBVIOUS
<1>1. n \in Name /\ k \in Nat /\ k >= 1 /\ cursor[n] \in Nat /\ cursor[n] >= 1
  BY RoundUpType DEF Typed, ThreadsTyped, NamesTyped, Sound, Claimed
<1>2. r.value = cursor[n] /\ r.count = k /\ Ids(r) = cursor[n] .. cursor[n] + k - 1
      /\ ErrorResponse.value = 0 /\ ErrorResponse.count = 0 /\ Ids(ErrorResponse) = {}
  BY DEF Response, ErrorResponse, Ids
<1>3. answer[t] = None /\ UNCHANGED <<deque, issued, name>> /\ answer \in [Thread -> Answers \cup {None}]
  BY DEF Serve, Typed, RangesTyped, Control, ThreadsTyped, batch, request
<1>4. CASE cursor' = [cursor EXCEPT ![n] = @ + k] /\ answer' = [answer EXCEPT ![t] = r]
  <2>1. r # None
    BY <1>1, ResponseTypes
  <2>2. /\ cursor'[n] = cursor[n] + k
        /\ \A m \in Name : m # n => cursor'[m] = cursor[m]
        /\ \A u \in Thread : answer'[u] = IF u = t THEN r ELSE answer[u]
    BY <1>1, <1>3, <1>4 DEF Typed, NamesTyped
  <2>3. \A m \in Name, u \in Thread : Has(u, m)' <=> Has(u, m) \/ (u = t /\ m = n)
    BY <1>3, <2>1, <2>2 DEF Has
  <2>4. \A m \in Name, u \in Thread : Has(u, m) => u # t
    BY <1>3 DEF Has
  <2>5. \A x \in Nat : x \in Ids(r) <=> x \in cursor[n] .. cursor'[n] - 1
    BY <1>1, <1>2, <2>2
  <2>6. Claims(n)
    <3>1. \A x \in Nat : Held(n, x)' <=> Held(n, x) \/ x \in Ids(r)
      <4>1. \A x \in Nat : (\E u \in Thread : Has(u, n)' /\ x \in Ids(answer'[u])) <=>
                (\E u \in Thread : Has(u, n) /\ x \in Ids(answer[u])) \/ x \in Ids(r)
        <5> SUFFICES ASSUME NEW x \in Nat
                     PROVE (\E u \in Thread : Has(u, n)' /\ x \in Ids(answer'[u])) <=>
                             (\E u \in Thread : Has(u, n) /\ x \in Ids(answer[u])) \/ x \in Ids(r)
          OBVIOUS
        <5>1. \A u \in Thread : Has(u, n)' /\ x \in Ids(answer'[u]) =>
                                  (Has(u, n) /\ x \in Ids(answer[u])) \/ x \in Ids(r)
          BY <1>1, <2>2, <2>3, <2>4
        <5>2. \A u \in Thread : Has(u, n) /\ x \in Ids(answer[u]) =>
                                  Has(u, n)' /\ x \in Ids(answer'[u])
          BY <1>1, <2>2, <2>3, <2>4
        <5>3. Has(t, n)' /\ answer'[t] = r
          BY <1>1, <2>2, <2>3
        <5> QED BY <5>1, <5>2, <5>3
      <4> QED BY <1>3, <4>1 DEF Held
    <3>2. cursor'[n] > cursor[n] /\ issued'[n] = issued[n]
      BY <1>1, <1>3, <2>2
    <3> QED BY <2>5, <3>1, <3>2 DEF Claims
  <2>7. \A m \in Name : m # n => Keeps(m)
    BY <1>3, <2>2, <2>3, <2>4 DEF Keeps, Held
  <2>8. Fresh(r)
    BY <1>1, <1>2 DEF Fresh
  <2>9. Whole'
    BY <1>3, <2>2, <2>8 DEF Sound, Whole
  <2>10. /\ \A i \in 1 .. Len(deque[n]) : Disjoint(deque[n][i], r)
         /\ \A u \in Thread : Has(u, n) => Disjoint(answer[u], r) /\ Disjoint(r, answer[u])
    BY <1>1, <2>5 DEF Sound, Claimed, Bounded, Disjoint
  <2>11. Apart'
    BY <1>3, <2>2, <2>3, <2>4, <2>10 DEF Sound, Apart, Disjoint
  <2>12. \A m \in Name : cursor[m] \in Nat /\ cursor'[m] \in Nat /\ cursor'[m] >= cursor[m]
                         /\ issued[m] \subseteq Nat
    BY <1>1, <2>2, DequeTypes
  <2>13. \A x \in Nat : x \in Ids(r) => x < cursor'[n] /\ x \notin issued'[n]
    <3>1. \A x \in issued[n] : x < cursor[n]
      BY <1>1, <2>12 DEF Sound, Claimed
    <3> QED BY <1>1, <1>3, <2>5, <2>12, <3>1
  <2>14. Claimed'
    <3>1. \A m \in Name : (\A x \in issued'[m] : x \in 1 .. cursor'[m] - 1) /\ cursor'[m] >= 1
      BY <1>3, <2>12 DEF Sound, Claimed
    <3>4. ASSUME NEW m \in Name, NEW q, Bounded(q, m)
          PROVE  \A x \in Nat : x \in Ids(q) => x < cursor'[m] /\ x \notin issued'[m]
      BY <1>3, <2>12, <3>4 DEF Bounded
    <3>2. \A m \in Name : \A i \in 1 .. Len(deque'[m]) : Bounded(deque[m][i], m)'
      BY <1>3, <3>4 DEF Sound, Claimed, Bounded
    <3>3. \A m \in Name : \A u \in Thread : Has(u, m)' => Bounded(answer[u], m)'
      <4>1. ASSUME NEW m \in Name, NEW u \in Thread, Has(u, m)
            PROVE  \A x \in Nat : x \in Ids(answer[u]) => x < cursor'[m] /\ x \notin issued'[m]
        BY <3>4, <4>1 DEF Sound, Claimed
      <4> QED BY <1>3, <2>2, <2>3, <2>4, <2>13, <4>1 DEF Bounded
    <3> QED BY <3>1, <3>2, <3>3 DEF Claimed
  <2> QED BY <2>6, <2>7, <2>9, <2>11, <2>14 DEF Accounts, Sound
<1>5. CASE cursor' = cursor /\ answer' = [answer EXCEPT ![t] = ErrorResponse]
  <2>1. \A u \in Thread : answer'[u] = IF u = t THEN ErrorResponse ELSE answer[u]
    BY <1>3, <1>5
  <2>2. \A m \in Name, u \in Thread : Has(u, m)' => Has(u, m) \/ u = t
    BY <1>3, <2>1 DEF Has
  <2>3. \A m \in Name, u \in Thread : Has(u, m) => Has(u, m)' /\ u # t
    BY <1>3, <2>1 DEF Has
  <2>4. Fresh(ErrorResponse)
    BY <1>2 DEF Fresh
  <2>5. Whole'
    BY <1>3, <2>1, <2>4 DEF Sound, Whole
  <2>6. Apart'
    BY <1>2, <1>3, <2>1, <2>2 DEF Sound, Apart, Disjoint
  <2>7. Claimed'
    BY <1>2, <1>3, <1>5, <2>1, <2>2 DEF Sound, Claimed, Bounded
  <2>8. \A m \in Name, x \in Nat : Held(m, x)' <=> Held(m, x)
    BY <1>2, <1>3, <2>1, <2>2, <2>3 DEF Held
  <2> QED BY <1>3, <1>5, <2>5, <2>6, <2>7, <2>8 DEF Accounts, Keeps, Sound
<1> QED BY <1>4, <1>5 DEF Serve

LEMMA InitSound == Init => Sound
<1> SUFFICES ASSUME Init PROVE Sound
  OBVIOUS
<1>1. \A n \in Name : deque[n] = <<>> /\ Len(deque[n]) = 0 /\ issued[n] = {} /\ cursor[n] = 1
  BY DEF Init
<1>2. \A t \in Thread : answer[t] = None
  BY DEF Init
<1>3. Whole /\ Apart
  BY <1>1, <1>2 DEF Whole, Apart, Has
<1>4. Claimed
  BY <1>1, <1>2 DEF Claimed, Has
<1> QED BY <1>3, <1>4 DEF Sound

(* No range holds 0, the value of an error.                                *)
LEMMA ZeroIsNoId ==
  ASSUME Typed, Sound, NEW n \in Name
  PROVE  /\ \A i \in 1 .. Len(deque[n]) : 0 \notin Ids(deque[n][i])
         /\ \A t \in Thread : answer[t] # None => 0 \notin Ids(answer[t])
         /\ ~Held(n, 0)
<1>1. ASSUME NEW i \in 1 .. Len(deque[n]) PROVE 0 \notin Ids(deque[n][i])
  <2>1. deque[n][i] \in Ranges
    BY DequeTypes
  <2>2. IF i = 1 THEN deque[n][i].count >= 1 => deque[n][i].value >= 1 ELSE Fresh(deque[n][i])
    BY DEF Sound, Whole
  <2> QED BY <2>1, <2>2 DEF Ranges, Ids, Fresh
<1>2. ASSUME NEW t \in Thread, answer[t] # None PROVE 0 \notin Ids(answer[t])
  <2>1. answer[t] \in Answers /\ Fresh(answer[t])
    BY <1>2 DEF Typed, RangesTyped, Sound, Whole
  <2> QED BY <2>1 DEF Answers, Ids, Fresh
<1> QED BY <1>1, <1>2 DEF Held, Has

(* Fetch throws away a range that is spent, if any.                        *)
LEMMA FetchSound ==
  ASSUME Typed, Sound, NEW t \in Caller, Fetch(t)
  PROVE  Sound' /\ Accounts
<1> SUFFICES ASSUME NEW n, n = name[t] PROVE Sound' /\ Accounts
  OBVIOUS
<1>1. n \in Name /\ Popped(deque[n]) = <<>> /\ deque' = [deque EXCEPT ![n] = <<>>]
      /\ UNCHANGED <<cursor, issued, answer, name>>
  BY Constants DEF Fetch, Typed, ThreadsTyped
<1>2. /\ deque'[n] = <<>> /\ Len(deque'[n]) = 0
      /\ \A m \in Name : m # n => deque'[m] = deque[m]
  BY <1>1 DEF Typed, RangesTyped
<1>3. \A i \in 1 .. Len(deque[n]) : Ids(deque[n][i]) = {}
  <2>1. PICK k \in {0, 1} : /\ Len(Popped(deque[n])) = Len(deque[n]) - k
                            /\ k = 1 => deque[n] # <<>> /\ deque[n][1].count <= 0
    BY <1>1, DequeTypes, PoppedDeque
  <2>2. Len(deque[n]) = k
    BY <1>1, <2>1, DequeTypes
  <2> QED BY <1>1, <2>1, <2>2, DequeTypes, IdsOf
<1>4. \A m \in Name, u \in Thread : Has(u, m)' <=> Has(u, m)
  BY <1>1 DEF Has
<1>5. \A m \in Name, x \in Nat : Held(m, x)' <=> Held(m, x)
  <2>1. \A x \in Nat : Held(n, x)' <=> Held(n, x)
    <3>1. ~\E i \in 1 .. Len(deque'[n]) : TRUE
      BY <1>2
    <3> QED BY <1>1, <1>3, <1>4, <3>1 DEF Held
  <2>2. \A m \in Name, x \in Nat : m # n => (Held(m, x)' <=> Held(m, x))
    BY <1>1, <1>2, <1>4 DEF Held
  <2> QED BY <2>1, <2>2
<1>6. Whole' /\ Apart'
  <2>1. Whole'
    BY <1>1, <1>2 DEF Sound, Whole
  <2>2. Apart'
    BY <1>1, <1>2, <1>4 DEF Sound, Apart, Disjoint
  <2> QED BY <2>1, <2>2
<1>7. Claimed'
  BY <1>1, <1>2, <1>4 DEF Sound, Claimed, Bounded
<1> QED BY <1>1, <1>5, <1>6, <1>7 DEF Sound, Accounts, Keeps

(* Take uses the first id that is left, whatever it is.                    *)
LEMMA TakeSound ==
  ASSUME Typed, Sound, NEW t \in Caller, Take(t)
  PROVE  Sound' /\ Accounts
<1> SUFFICES ASSUME NEW n, n = name[t], NEW d, d = deque[n], NEW e, e = deque'[n],
                    NEW v, v = Head(Popped(d)).value
             PROVE  Sound' /\ Accounts
  OBVIOUS
<1>1. n \in Name /\ Popped(d) # <<>> /\ UNCHANGED <<cursor, answer, name>>
      /\ deque' = [deque EXCEPT ![n] = <<Used(Head(Popped(d)))>> \o Tail(Popped(d))]
      /\ issued' = [issued EXCEPT ![n] = IF v = 0 THEN @ ELSE @ \cup {v}]
  BY Constants DEF Take, Return, Typed, ThreadsTyped, request
<1>2. /\ e = <<Used(Head(Popped(d)))>> \o Tail(Popped(d))
      /\ \A m \in Name : m # n => deque'[m] = deque[m] /\ issued'[m] = issued[m]
      /\ issued'[n] = IF v = 0 THEN issued[n] ELSE issued[n] \cup {v}
  BY <1>1 DEF Typed, RangesTyped
<1>3. d \in Seq(Ranges) /\ Len(d) \in Nat /\ \A i \in 1 .. Len(d) : d[i] \in Ranges
  BY <1>1, DequeTypes
<1>4. PICK k \in {0, 1} :
        /\ Head(Popped(d)) = d[1 + k] /\ 1 + k <= Len(d)
        /\ e \in Seq(Ranges) /\ Len(e) = Len(d) - k
        /\ e[1] = Used(d[1 + k])
        /\ \A i \in 2 .. Len(e) : e[i] = d[i + k]
        /\ k = 1 => d[1].count <= 0
        /\ k = 0 => d[1].count >= 1
  BY <1>1, <1>2, <1>3, TakenDeque
<1>5. d[1 + k] \in Ranges /\ v = d[1 + k].value /\ v \in Nat
  <2>1. 1 + k \in 1 .. Len(d)
    BY <1>3, <1>4
  <2>2. d[1 + k] \in Ranges
    BY <1>3, <2>1
  <2> QED BY <1>4, <2>2 DEF Ranges
<1>6. \A i \in 2 .. Len(d) : Fresh(d[i])
  BY <1>1 DEF Sound, Whole
<1>7. v # 0 => v \in Ids(d[1 + k])
  <2>1. v # 0 => d[1 + k].count >= 1
    BY <1>4, <1>5, <1>6 DEF Fresh
  <2> QED BY <1>5, <2>1, IdsOf
<1>8. \A i \in 1 .. Len(d) : 0 \notin Ids(d[i])
  BY <1>1, ZeroIsNoId
<1>9. \A i, j \in 1 .. Len(d) : i # j => Disjoint(d[i], d[j])
  BY <1>1 DEF Sound, Apart
<1>10. \A i \in 1 .. Len(e) : /\ i + k \in 1 .. Len(d)
                              /\ \A x \in Nat : x \in Ids(e[i]) <=> x \in Ids(d[i + k]) /\ x # v
  <2>1. \A i \in 1 .. Len(e) : i + k \in 1 .. Len(d)
    BY <1>3, <1>4
  <2>2. \A x \in Nat : x \in Ids(e[1]) <=> x \in Ids(d[1 + k]) /\ x # v
    BY <1>4, <1>5, IdsOf
  <2>3. ASSUME NEW i \in 2 .. Len(e), NEW x \in Nat
        PROVE  x \in Ids(e[i]) <=> x \in Ids(d[i + k]) /\ x # v
    <3>1. e[i] = d[i + k] /\ i + k \in 1 .. Len(d) /\ 1 + k \in 1 .. Len(d) /\ i + k # 1 + k
      BY <1>3, <1>4, <2>1
    <3>2. Disjoint(d[1 + k], d[i + k]) /\ 0 \notin Ids(d[i + k])
      BY <1>8, <1>9, <3>1
    <3> QED BY <1>5, <1>7, <3>1, <3>2 DEF Disjoint
  <2>4. \A i \in 1 .. Len(e) : i = 1 \/ i \in 2 .. Len(e)
    BY <1>3, <1>4
  <2> QED BY <2>1, <2>2, <2>3, <2>4
<1>11. \A m \in Name, u \in Thread : Has(u, m)' <=> Has(u, m)
  BY <1>1 DEF Has
<1>12. \A u \in Thread : Has(u, n) => v \notin Ids(answer[u])
  <2>1. 1 + k \in 1 .. Len(d)
    BY <1>3, <1>4
  <2>2. \A u \in Thread : Has(u, n) => Disjoint(d[1 + k], answer[u]) /\ 0 \notin Ids(answer[u])
    BY <1>1, <2>1, ZeroIsNoId DEF Sound, Apart, Has
  <2> QED BY <1>5, <1>7, <2>2 DEF Disjoint
<1>13. \A x \in Nat : Held(n, x)' <=> Held(n, x) /\ x # v
  <2>1. \A x \in Nat : (\E i \in 1 .. Len(e) : x \in Ids(e[i]))
                         <=> (\E i \in 1 .. Len(d) : x \in Ids(d[i])) /\ x # v
    <3> SUFFICES ASSUME NEW x \in Nat
                 PROVE  (\E i \in 1 .. Len(e) : x \in Ids(e[i]))
                          <=> (\E i \in 1 .. Len(d) : x \in Ids(d[i])) /\ x # v
      OBVIOUS
    <3>1. ASSUME NEW i \in 1 .. Len(e), x \in Ids(e[i])
          PROVE  i + k \in 1 .. Len(d) /\ x \in Ids(d[i + k]) /\ x # v
      BY <1>10, <3>1
    <3>2. ASSUME NEW j \in 1 .. Len(d), x \in Ids(d[j]), x # v
          PROVE  j - k \in 1 .. Len(e) /\ x \in Ids(e[j - k])
      <4>1. j - k >= 1
        <5>1. ASSUME k = 1, j = 1 PROVE FALSE
          BY <1>3, <1>4, <3>2, <5>1, IdsOf
        <5> QED BY <5>1
      <4>2. j - k \in 1 .. Len(e) /\ (j - k) + k = j
        BY <1>3, <1>4, <4>1
      <4> QED BY <1>10, <3>2, <4>2
    <3> QED BY <3>1, <3>2
  <2>2. \A x \in Nat : (\E u \in Thread : Has(u, n) /\ x \in Ids(answer[u])) => x # v
    BY <1>12
  <2> QED BY <1>1, <1>11, <2>1, <2>2 DEF Held
<1>14. \A m \in Name : m # n => Keeps(m)
  BY <1>1, <1>2, <1>11 DEF Keeps, Held
<1>15. Keeps(n) \/ Gives(n)
  <2>1. CASE v = 0
    BY <1>1, <1>2, <1>13, <2>1, ZeroIsNoId DEF Keeps
  <2>2. CASE v # 0
    <3>1. Held(n, v)
      BY <1>3, <1>4, <1>7, <2>2 DEF Held
    <3> QED BY <1>1, <1>2, <1>5, <1>13, <2>2, <3>1 DEF Gives
  <2> QED BY <2>1, <2>2
<1>16. Whole'
  <2>1. \A i \in 1 .. Len(e) : IF i = 1 THEN e[i].count >= 1 => e[i].value >= 1 ELSE Fresh(e[i])
    <3>1. e[1].value = d[1 + k].value + 1
      BY <1>4, <1>5, ResponseTypes
    <3>2. ASSUME NEW i \in 1 .. Len(e), i # 1 PROVE Fresh(e[i])
      <4>1. e[i] = d[i + k] /\ i + k \in 2 .. Len(d)
        BY <1>3, <1>4, <3>2
      <4> QED BY <1>6, <4>1
    <3> QED BY <1>5, <3>1, <3>2
  <2> QED BY <1>1, <1>2, <2>1 DEF Sound, Whole
<1>17. Apart'
  <2>1. \A i, j \in 1 .. Len(e) : i # j => Disjoint(e[i], e[j])
    <3> SUFFICES ASSUME NEW i \in 1 .. Len(e), NEW j \in 1 .. Len(e), i # j
                 PROVE  Disjoint(e[i], e[j])
      OBVIOUS
    <3>1. i + k \in 1 .. Len(d) /\ j + k \in 1 .. Len(d) /\ i + k # j + k
      BY <1>10
    <3> QED BY <1>9, <1>10, <3>1 DEF Disjoint
  <2>2. \A u \in Thread, i \in 1 .. Len(e) : Has(u, n) => Disjoint(e[i], answer[u])
    <3>1. \A u \in Thread, i \in 1 .. Len(d) : Has(u, n) => Disjoint(d[i], answer[u])
      BY <1>1 DEF Sound, Apart
    <3> QED BY <1>10, <3>1 DEF Disjoint
  <2>3. \A m \in Name : m # n =>
          /\ \A i, j \in 1 .. Len(deque'[m]) : i # j => Disjoint(deque'[m][i], deque'[m][j])
          /\ \A u \in Thread, i \in 1 .. Len(deque'[m]) : Has(u, m)' => Disjoint(deque'[m][i], answer'[u])
    BY <1>1, <1>2, <1>11 DEF Sound, Apart
  <2>4. /\ \A i, j \in 1 .. Len(deque'[n]) : i # j => Disjoint(deque'[n][i], deque'[n][j])
        /\ \A u \in Thread, i \in 1 .. Len(deque'[n]) : Has(u, n)' => Disjoint(deque'[n][i], answer'[u])
    BY <1>1, <1>11, <2>1, <2>2
  <2>5. \A u, w \in Thread, m \in Name : Has(u, m)' /\ Has(w, m)' /\ u # w => Disjoint(answer'[u], answer'[w])
    BY <1>1, <1>11 DEF Sound, Apart
  <2> QED BY <2>3, <2>4, <2>5 DEF Apart, Disjoint
<1>18. Claimed'
  <2>1. \A x \in issued'[n] : x \in 1 .. cursor[n] - 1
    <3>1. ASSUME v # 0 PROVE v \in 1 .. cursor[n] - 1
      <4>1. 1 + k \in 1 .. Len(d)
        BY <1>3, <1>4
      <4>2. v < cursor[n]
        BY <1>1, <1>5, <1>7, <3>1, <4>1 DEF Sound, Claimed, Bounded
      <4> QED BY <1>1, <1>5, <3>1, <4>2, DequeTypes
    <3> QED BY <1>1, <1>2, <3>1 DEF Sound, Claimed
  <2>2. \A i \in 1 .. Len(e) : \A x \in Nat : x \in Ids(e[i]) => x < cursor[n] /\ x \notin issued'[n]
    <3>1. \A i \in 1 .. Len(d) : \A x \in Nat : x \in Ids(d[i]) => x < cursor[n] /\ x \notin issued[n]
      BY <1>1 DEF Sound, Claimed, Bounded
    <3>2. ASSUME NEW i \in 1 .. Len(e), NEW x \in Nat, x \in Ids(e[i])
          PROVE  x < cursor[n] /\ x \notin issued'[n]
      <4>1. i + k \in 1 .. Len(d) /\ x \in Ids(d[i + k]) /\ x # v
        BY <1>10, <3>2
      <4> QED BY <1>2, <3>1, <4>1
    <3> QED BY <3>2
  <2>3. \A u \in Thread : Has(u, n) =>
          \A x \in Nat : x \in Ids(answer[u]) => x < cursor[n] /\ x \notin issued'[n]
    <3>1. \A u \in Thread : Has(u, n) =>
            \A x \in Nat : x \in Ids(answer[u]) => x < cursor[n] /\ x \notin issued[n]
      BY <1>1 DEF Sound, Claimed, Bounded
    <3> QED BY <1>2, <1>12, <3>1
  <2>4. \A m \in Name : \A u \in Thread : Has(u, m)' =>
          \A x \in Nat : x \in Ids(answer'[u]) => x < cursor'[m] /\ x \notin issued'[m]
    <3>1. \A m \in Name, u \in Thread : Has(u, m) =>
            \A x \in Nat : x \in Ids(answer[u]) => x < cursor[m] /\ x \notin issued[m]
      BY DEF Sound, Claimed, Bounded
    <3> QED BY <1>1, <1>2, <1>11, <2>3, <3>1
  <2>5. \A m \in Name : \A i \in 1 .. Len(deque'[m]) :
          \A x \in Nat : x \in Ids(deque'[m][i]) => x < cursor'[m] /\ x \notin issued'[m]
    <3>1. \A m \in Name : \A i \in 1 .. Len(deque[m]) :
            \A x \in Nat : x \in Ids(deque[m][i]) => x < cursor[m] /\ x \notin issued[m]
      BY DEF Sound, Claimed, Bounded
    <3> QED BY <1>1, <1>2, <2>2, <3>1
  <2>6. \A m \in Name : (\A x \in issued'[m] : x \in 1 .. cursor'[m] - 1) /\ cursor'[m] >= 1
    BY <1>1, <1>2, <2>1 DEF Sound, Claimed
  <2> QED BY <2>4, <2>5, <2>6 DEF Claimed, Bounded
<1> QED BY <1>14, <1>15, <1>16, <1>17, <1>18 DEF Sound, Accounts

(* A thread is done with its answer r: v, if it is not 0, is returned, and  *)
(* what else r has, q, comes after what is left of the name.               *)
Spends(t, n, r, q, v) ==
  /\ Fresh(q) /\ (v # 0 => v \in Ids(r))
  /\ \A x \in Nat : x \in Ids(q) => x \in Ids(r) /\ x # v
  /\ \/ /\ deque' = [deque EXCEPT ![n] = Append(@, q)]
        /\ \A x \in Nat : x \in Ids(r) => x \in Ids(q) \/ x = v
     \/ /\ deque' = deque
        /\ \A x \in Nat : x \in Ids(r) => x = v
  /\ issued' = [issued EXCEPT ![n] = IF v = 0 THEN @ ELSE @ \cup {v}]
  /\ answer' = [answer EXCEPT ![t] = None]
  /\ UNCHANGED <<cursor, name>>

LEMMA UsedSound ==
  ASSUME Typed, Sound, NEW t \in Thread, NEW n, n = name[t], NEW r, r = answer[t], r # None,
         NEW v \in Nat, NEW q \in Ranges, Spends(t, n, r, q, v)
  PROVE  Sound' /\ Accounts
<1> USE DEF Spends
<1>1. n \in Name /\ Has(t, n) /\ r \in Answers
  BY DEF Has, Typed, ThreadsTyped, RangesTyped
<1> DEFINE d == deque[n]
           e == deque'[n]
<1>2. d \in Seq(Ranges) /\ Len(d) \in Nat /\ \A i \in 1 .. Len(d) : d[i] \in Ranges
  BY <1>1, DequeTypes
<1>3. /\ \A m \in Name : m # n => deque'[m] = deque[m] /\ issued'[m] = issued[m]
      /\ issued'[n] = IF v = 0 THEN issued[n] ELSE issued[n] \cup {v}
  BY <1>1 DEF Typed, RangesTyped
<1>4. /\ \A u \in Thread : answer'[u] = IF u = t THEN None ELSE answer[u]
      /\ \A m \in Name, u \in Thread : Has(u, m)' <=> Has(u, m) /\ u # t
  BY DEF Has, Typed, RangesTyped
<1>5. \/ /\ Len(e) = Len(d) + 1 /\ e[Len(d) + 1] = q /\ \A i \in 1 .. Len(d) : e[i] = d[i]
         /\ \A x \in Nat : x \in Ids(r) => x \in Ids(q) \/ x = v
      \/ /\ e = d
         /\ \A x \in Nat : x \in Ids(r) => x = v
  <2>1. CASE /\ deque' = [deque EXCEPT ![n] = Append(@, q)]
             /\ \A x \in Nat : x \in Ids(r) => x \in Ids(q) \/ x = v
    <3>1. e = Append(d, q)
      BY <1>1, <2>1 DEF Typed, RangesTyped
    <3> HIDE DEF d, e
    <3> QED BY <1>2, <2>1, <3>1, AppendProperties
  <2>2. CASE /\ deque' = deque
             /\ \A x \in Nat : x \in Ids(r) => x = v
    BY <2>2
  <2> QED BY <2>1, <2>2
<1> HIDE DEF e
<1>6. \A i \in 1 .. Len(e) : (i \in 1 .. Len(d) /\ e[i] = d[i]) \/ (i = Len(d) + 1 /\ e[i] = q)
  BY <1>2, <1>5
<1>7. \A i \in 1 .. Len(d) : i \in 1 .. Len(e) /\ e[i] = d[i]
  BY <1>2, <1>5
<1> HIDE DEF d
<1>8. /\ \A i \in 1 .. Len(d) : Disjoint(d[i], r)
      /\ \A u \in Thread : Has(u, n) /\ u # t => Disjoint(answer[u], r)
      /\ \A x \in Nat : x \in Ids(r) => x < cursor[n] /\ x \notin issued[n]
  BY <1>1 DEF Sound, Apart, Claimed, Bounded, d
<1>9. /\ \A i \in 1 .. Len(d) : 0 \notin Ids(d[i])
      /\ \A u \in Thread : Has(u, n) => 0 \notin Ids(answer[u])
  BY <1>1, ZeroIsNoId DEF d, Has
<1>10. /\ \A i \in 1 .. Len(d) : v \notin Ids(d[i])
       /\ \A u \in Thread : Has(u, n) /\ u # t => v \notin Ids(answer[u])
  BY <1>8, <1>9 DEF Disjoint
<1>11. \A x \in Nat : Held(n, x)' <=> Held(n, x) /\ x # v
  <2>1. ASSUME NEW x \in Nat, Held(n, x)' PROVE Held(n, x) /\ x # v
    <3>1. ASSUME NEW i \in 1 .. Len(e), x \in Ids(e[i]) PROVE Held(n, x) /\ x # v
      <4>1. CASE i \in 1 .. Len(d) /\ e[i] = d[i]
        BY <1>10, <3>1, <4>1 DEF Held, d
      <4>2. CASE e[i] = q
        BY <1>1, <3>1, <4>2 DEF Held
      <4> QED BY <1>6, <4>1, <4>2
    <3>2. ASSUME NEW u \in Thread, Has(u, n)', x \in Ids(answer'[u]) PROVE Held(n, x) /\ x # v
      BY <1>1, <1>4, <1>10, <3>2 DEF Held
    <3> QED BY <2>1, <3>1, <3>2 DEF Held, e
  <2>2. ASSUME NEW x \in Nat, Held(n, x), x # v PROVE Held(n, x)'
    <3>1. ASSUME NEW i \in 1 .. Len(e), x \in Ids(e[i]) PROVE Held(n, x)'
      BY <3>1 DEF Held, e
    <3>2. ASSUME NEW i \in 1 .. Len(d), x \in Ids(d[i]) PROVE Held(n, x)'
      BY <1>7, <3>1, <3>2
    <3>3. ASSUME NEW u \in Thread, Has(u, n), u # t, x \in Ids(answer[u]) PROVE Held(n, x)'
      BY <1>1, <1>4, <3>3 DEF Held
    <3>4. ASSUME x \in Ids(r) PROVE Held(n, x)'
      <4>1. Len(d) + 1 \in 1 .. Len(e) /\ e[Len(d) + 1] = q /\ x \in Ids(q)
        BY <1>2, <1>5, <2>2, <3>4
      <4> QED BY <3>1, <4>1
    <3> QED BY <2>2, <3>2, <3>3, <3>4 DEF Held, d
  <2> QED BY <2>1, <2>2
<1>12. \A m \in Name : m # n => Keeps(m)
  <2>1. \A m \in Name, u \in Thread : m # n => (Has(u, m)' <=> Has(u, m))
    BY <1>4 DEF Has
  <2> QED BY <1>3, <1>4, <2>1 DEF Keeps, Held
<1>13. Keeps(n) \/ Gives(n)
  <2>1. CASE v = 0
    BY <1>1, <1>3, <1>11, <2>1, ZeroIsNoId DEF Keeps
  <2>2. CASE v # 0
    <3>1. Held(n, v)
      BY <1>1, <2>2 DEF Held
    <3> QED BY <1>3, <1>11, <2>2, <3>1 DEF Gives
  <2> QED BY <2>1, <2>2
<1>14. Whole'
  <2>1. \A i \in 1 .. Len(e) : IF i = 1 THEN e[i].count >= 1 => e[i].value >= 1 ELSE Fresh(e[i])
    <3>1. q.count >= 1 => q.value >= 1
      BY DEF Fresh, Ranges
    <3>2. \A i \in 1 .. Len(d) : IF i = 1 THEN d[i].count >= 1 => d[i].value >= 1 ELSE Fresh(d[i])
      BY <1>1 DEF Sound, Whole, d
    <3> QED BY <1>6, <3>1, <3>2
  <2> QED BY <1>3, <1>4, <2>1 DEF Sound, Whole, e
<1>15. Apart'
  <2>1. \A i, j \in 1 .. Len(e) : i # j => Disjoint(e[i], e[j])
    <3>1. \A i, j \in 1 .. Len(d) : i # j => Disjoint(d[i], d[j])
      BY <1>1 DEF Sound, Apart, d
    <3>2. \A i \in 1 .. Len(d) : Disjoint(d[i], q) /\ Disjoint(q, d[i])
      BY <1>8 DEF Disjoint
    <3> QED BY <1>6, <3>1, <3>2
  <2>2. \A u \in Thread, i \in 1 .. Len(e) : Has(u, n) /\ u # t => Disjoint(e[i], answer[u])
    <3>1. \A u \in Thread, i \in 1 .. Len(d) : Has(u, n) => Disjoint(d[i], answer[u])
      BY <1>1 DEF Sound, Apart, d
    <3>2. \A u \in Thread : Has(u, n) /\ u # t => Disjoint(q, answer[u])
      BY <1>8 DEF Disjoint
    <3> QED BY <1>6, <3>1, <3>2
  <2>3. \A u, w \in Thread, m \in Name : Has(u, m)' /\ Has(w, m)' /\ u # w => Disjoint(answer[u], answer[w])
    BY <1>4 DEF Sound, Apart
  <2>5. \A m \in Name : m # n =>
          /\ \A i, j \in 1 .. Len(deque'[m]) : i # j => Disjoint(deque'[m][i], deque'[m][j])
          /\ \A u \in Thread, i \in 1 .. Len(deque'[m]) : Has(u, m)' => Disjoint(deque'[m][i], answer'[u])
    BY <1>3, <1>4 DEF Sound, Apart
  <2>6. /\ \A i, j \in 1 .. Len(deque'[n]) : i # j => Disjoint(deque'[n][i], deque'[n][j])
        /\ \A u \in Thread, i \in 1 .. Len(deque'[n]) : Has(u, n)' => Disjoint(deque'[n][i], answer'[u])
    <3>1. \A u \in Thread : Has(u, n)' => Has(u, n) /\ u # t /\ answer'[u] = answer[u]
      BY <1>1, <1>4
    <3> QED BY <2>1, <2>2, <3>1 DEF e
  <2>7. \A u, w \in Thread, m \in Name : Has(u, m)' /\ Has(w, m)' /\ u # w => Disjoint(answer'[u], answer'[w])
    BY <1>4, <2>3
  <2> QED BY <2>5, <2>6, <2>7 DEF Apart, Disjoint
<1>16. Claimed'
  <2>1. \A x \in issued'[n] : x \in 1 .. cursor[n] - 1
    <3>1. ASSUME v # 0 PROVE v \in 1 .. cursor[n] - 1
      BY <1>1, <1>8, <3>1, DequeTypes
    <3> QED BY <1>1, <1>3, <3>1 DEF Sound, Claimed
  <2>2. \A i \in 1 .. Len(e) : \A x \in Nat : x \in Ids(e[i]) => x < cursor[n] /\ x \notin issued'[n]
    <3>1. \A i \in 1 .. Len(d) : \A x \in Nat : x \in Ids(d[i]) => x < cursor[n] /\ x \notin issued[n]
      BY <1>1 DEF Sound, Claimed, Bounded, d
    <3>2. ASSUME NEW x \in Nat, x \in Ids(q) PROVE x < cursor[n] /\ x \notin issued'[n]
      BY <1>3, <1>8, <3>2
    <3>3. ASSUME NEW i \in 1 .. Len(d), NEW x \in Nat, x \in Ids(d[i])
          PROVE  x < cursor[n] /\ x \notin issued'[n]
      BY <1>3, <1>10, <3>1, <3>3
    <3> QED BY <1>6, <3>2, <3>3
  <2>3. \A u \in Thread : Has(u, n) /\ u # t =>
          \A x \in Nat : x \in Ids(answer[u]) => x < cursor[n] /\ x \notin issued'[n]
    <3>1. \A u \in Thread : Has(u, n) =>
            \A x \in Nat : x \in Ids(answer[u]) => x < cursor[n] /\ x \notin issued[n]
      BY <1>1 DEF Sound, Claimed, Bounded
    <3> QED BY <1>3, <1>10, <3>1
  <2>4. \A m \in Name : \A u \in Thread : Has(u, m)' =>
          \A x \in Nat : x \in Ids(answer'[u]) => x < cursor[m] /\ x \notin issued'[m]
    <3>1. \A m \in Name, u \in Thread : Has(u, m) =>
            \A x \in Nat : x \in Ids(answer[u]) => x < cursor[m] /\ x \notin issued[m]
      BY DEF Sound, Claimed, Bounded
    <3> QED BY <1>3, <1>4, <2>3, <3>1
  <2>5. \A m \in Name : \A i \in 1 .. Len(deque'[m]) :
          \A x \in Nat : x \in Ids(deque'[m][i]) => x < cursor[m] /\ x \notin issued'[m]
    <3>1. \A m \in Name : \A i \in 1 .. Len(deque[m]) :
            \A x \in Nat : x \in Ids(deque[m][i]) => x < cursor[m] /\ x \notin issued[m]
      BY DEF Sound, Claimed, Bounded
    <3> QED BY <1>3, <2>2, <3>1 DEF e
  <2>6. \A m \in Name : (\A x \in issued'[m] : x \in 1 .. cursor'[m] - 1) /\ cursor'[m] >= 1
    BY <1>3, <2>1 DEF Sound, Claimed
  <2> QED BY <2>4, <2>5, <2>6 DEF Claimed, Bounded
<1> QED BY <1>12, <1>13, <1>14, <1>15, <1>16 DEF Sound, Accounts

(* An error's answer has no ids, a new name's at most one.                 *)
LEMMA AnswerIds ==
  ASSUME Typed, Sound, NEW t \in Thread, NEW r, r = answer[t], r # None
  PROVE  /\ r \in Answers /\ r \in Ranges /\ Fresh(r)
         /\ Valid(t) <=> r.value # 0
         /\ ~Valid(t) => Ids(r) = {}
         /\ Valid(t) => r.value \in Ids(r)
         /\ r.count <= 1 => \A x \in Nat : x \in Ids(r) => x = r.value
<1>1. r \in Answers /\ r \in Ranges /\ Fresh(r)
  BY ResponseTypes DEF Typed, RangesTyped, Sound, Whole
<1>2. r.value \in Nat /\ r.count \in Nat
  BY <1>1 DEF Answers
<1>3. Valid(t) <=> r.value # 0
  BY DEF Valid
<1> QED BY <1>1, <1>2, <1>3 DEF Fresh, Ids

LEMMA FinishFirstSound ==
  ASSUME Typed, Control, Sound, NEW t \in Caller, FinishFirst(t)
  PROVE  Sound' /\ Accounts
<1> SUFFICES ASSUME NEW n, n = name[t], NEW r, r = answer[t],
                    NEW v, v = IF Valid(t) THEN r.value ELSE 0
             PROVE  Sound' /\ Accounts
  OBVIOUS
<1>1. t \in Thread /\ mapLock = t /\ UNCHANGED <<cursor, name, deque>>
      /\ answer' = [answer EXCEPT ![t] = None]
      /\ issued' = [issued EXCEPT ![n] = IF v = 0 THEN @ ELSE @ \cup {v}]
  BY Constants DEF FinishFirst, Return, request
<1>2. CASE r = None
  <2>1. v = 0 /\ answer' = answer /\ issued' = issued
    BY <1>1, <1>2 DEF Valid, Typed, RangesTyped
  <2> QED BY <1>1, <2>1, FrameSound
<1>3. CASE r # None
  <2>1. r.count <= 1
    BY <1>1, <1>3 DEF Control
  <2>2. v \in Nat /\ (v # 0 => v \in Ids(r)) /\ \A x \in Nat : x \in Ids(r) => x = v
    BY <1>1, <1>3, <2>1, AnswerIds DEF Answers
  <2>3. ErrorResponse \in Ranges /\ Fresh(ErrorResponse) /\ Ids(ErrorResponse) = {}
    BY ResponseTypes DEF Fresh, Ids, ErrorResponse
  <2>4. Spends(t, n, r, ErrorResponse, v)
    BY <1>1, <1>3, <2>2, <2>3 DEF Spends
  <2> QED BY <1>3, <1>1, <2>2, <2>3, <2>4, UsedSound
<1> QED BY <1>2, <1>3

LEMMA FinishFetchSound ==
  ASSUME Typed, Control, Sound, NEW t \in Caller, FinishFetch(t)
  PROVE  Sound' /\ Accounts
<1> SUFFICES ASSUME NEW n, n = name[t], NEW r, r = answer[t]
             PROVE  Sound' /\ Accounts
  OBVIOUS
<1>1. t \in Thread /\ n \in Name /\ UNCHANGED <<cursor, name>>
      /\ answer' = [answer EXCEPT ![t] = None]
  BY Constants DEF FinishFetch, request, Typed, ThreadsTyped
<1>2. ErrorResponse \in Ranges /\ Fresh(ErrorResponse) /\ Ids(ErrorResponse) = {}
  BY ResponseTypes DEF Fresh, Ids, ErrorResponse
<1>3. CASE r = None
  <2>1. ~Valid(t) /\ answer' = answer
    BY <1>1, <1>3 DEF Valid, Typed, RangesTyped
  <2>2. UNCHANGED <<deque, issued>>
    BY <2>1 DEF FinishFetch
  <2> QED BY <1>1, <2>1, <2>2, FrameSound
<1>4. CASE r # None /\ ~Valid(t)
  <2>1. UNCHANGED <<deque, issued>>
    BY <1>4 DEF FinishFetch
  <2>2. issued' = [issued EXCEPT ![n] = IF 0 = 0 THEN @ ELSE @ \cup {0}] /\ Ids(r) = {}
    BY <1>1, <1>4, <2>1, AnswerIds DEF Typed, RangesTyped
  <2>3. Spends(t, n, r, ErrorResponse, 0)
    BY <1>1, <1>2, <1>4, <2>1, <2>2 DEF Spends
  <2> QED BY <1>1, <1>2, <1>4, <2>3, UsedSound
<1>5. CASE r # None /\ Valid(t)
  <2> SUFFICES ASSUME NEW v, v = r.value PROVE Sound' /\ Accounts
    OBVIOUS
  <2>1. v \in Nat /\ v # 0 /\ v \in Ids(r) /\ r \in Ranges /\ r \in Answers
        /\ (r.count <= 1 => \A x \in Nat : x \in Ids(r) => x = v)
    BY <1>1, <1>5, AnswerIds DEF Answers
  <2>2. /\ deque' = [deque EXCEPT ![n] = IF r.count > 1 THEN Append(@, Used(r)) ELSE @]
        /\ issued' = [issued EXCEPT ![n] = IF v = 0 THEN @ ELSE @ \cup {v}]
    BY <1>5 DEF FinishFetch, Return
  <2>3. r.count \in Nat
    BY <2>1 DEF Answers
  <2>4. CASE r.count > 1
    <3> SUFFICES ASSUME NEW q, q = Used(r) PROVE Sound' /\ Accounts
      OBVIOUS
    <3>1. q \in Ranges /\ Fresh(q)
      BY <2>1, <2>3, <2>4, ResponseTypes DEF Fresh
    <3>2. \A x \in Nat : x \in Ids(q) <=> x \in Ids(r) /\ x # v
      BY <2>1, IdsOf
    <3>3. deque' = [deque EXCEPT ![n] = Append(@, q)]
      BY <2>2, <2>4
    <3>4. \/ /\ deque' = [deque EXCEPT ![n] = Append(@, q)]
             /\ \A x \in Nat : x \in Ids(r) => x \in Ids(q) \/ x = v
          \/ /\ deque' = deque
             /\ \A x \in Nat : x \in Ids(r) => x = v
      BY <3>2, <3>3
    <3>5. \A x \in Nat : x \in Ids(q) => x \in Ids(r) /\ x # v
      BY <3>2
    <3> HIDE DEF Valid
    <3>6. Spends(t, n, r, q, v)
      BY <1>1, <1>5, <2>1, <2>2, <3>1, <3>4, <3>5 DEF Spends
    <3> QED BY <1>1, <1>5, <2>1, <3>1, <3>6, UsedSound
  <2>5. CASE r.count <= 1
    <3>1. deque' = deque
      BY <2>2, <2>3, <2>5 DEF Typed, RangesTyped
    <3>2. Spends(t, n, r, ErrorResponse, v)
      BY <1>1, <1>2, <1>5, <2>1, <2>2, <2>5, <3>1 DEF Spends
    <3> QED BY <1>1, <1>2, <1>5, <2>1, <3>2, UsedSound
  <2> QED BY <2>3, <2>4, <2>5
<1> QED BY <1>3, <1>4, <1>5

LEMMA FinishPrefetchSound ==
  ASSUME Typed, Sound, FinishPrefetch
  PROVE  Sound' /\ Accounts
<1> SUFFICES ASSUME NEW n, n = name[Pool], NEW r, r = answer[Pool]
             PROVE  Sound' /\ Accounts
  OBVIOUS
<1>1. Pool \in Thread /\ n \in Name /\ UNCHANGED <<cursor, name, issued>>
      /\ answer' = [answer EXCEPT ![Pool] = None]
  BY Constants DEF FinishPrefetch, request, Typed, ThreadsTyped
<1>2. CASE r = None
  <2>1. answer' = answer /\ deque' = deque
    BY <1>1, <1>2 DEF FinishPrefetch, Prefetched, Typed, RangesTyped
  <2> QED BY <1>1, <2>1, FrameSound
<1>3. CASE r # None
  <2> SUFFICES ASSUME NEW q, q = r, NEW v, v = 0 PROVE Sound' /\ Accounts
    OBVIOUS
  <2>1. deque' = [deque EXCEPT ![n] = Append(@, q)]
    BY <1>3 DEF FinishPrefetch, Prefetched
  <2>2. issued' = [issued EXCEPT ![n] = IF v = 0 THEN @ ELSE @ \cup {v}]
    BY <1>1 DEF Typed, RangesTyped
  <2>3. q \in Ranges /\ Fresh(q)
    BY <1>1, <1>3, AnswerIds
  <2>4. \A x \in Nat : x \in Ids(q) => x \in Ids(r) /\ x # v
    BY <1>1, <1>3, ZeroIsNoId
  <2>5. \/ /\ deque' = [deque EXCEPT ![n] = Append(@, q)]
           /\ \A x \in Nat : x \in Ids(r) => x \in Ids(q) \/ x = v
        \/ /\ deque' = deque
           /\ \A x \in Nat : x \in Ids(r) => x = v
    BY <2>1
  <2>6. v \in Nat /\ (v # 0 => v \in Ids(r))
    OBVIOUS
  <2> HIDE DEF Ids, Fresh
  <2>7. Spends(Pool, n, r, q, v)
    BY <1>1, <1>3, <2>2, <2>3, <2>4, <2>5, <2>6 DEF Spends
  <2> QED BY <1>1, <1>3, <2>3, <2>6, <2>7, UsedSound
<1> QED BY <1>2, <1>3

(* Every step keeps the invariant, and accounts for the ids of every name.  *)
LEMMA NextSound ==
  ASSUME Typed, Control, Sound, [Next]_vars
  PROVE  Sound' /\ Accounts
<1>1. CASE UNCHANGED vars
  <2>1. UNCHANGED <<deque, cursor, issued, answer, name>>
    BY <1>1 DEF vars
  <2> QED BY <2>1, FrameSound
<1>2. ASSUME NEW u \in Url, SetServerUrl(u) PROVE Sound' /\ Accounts
  <2>1. UNCHANGED <<deque, cursor, issued, answer, name>>
    BY <1>2 DEF SetServerUrl, batch, request
  <2> QED BY <2>1, FrameSound
<1>3. ASSUME NEW t \in Caller, NEW n \in Name, Call(t, n) PROVE Sound' /\ Accounts
  <2>1. UNCHANGED <<deque, cursor, issued, answer>> /\ answer[t] = None
    BY <1>3, Constants DEF Call, batch, Control
  <2>2. \A u \in Thread : u # t => name'[u] = name[u]
    BY <1>3 DEF Call, Typed, ThreadsTyped
  <2> QED BY <2>1, <2>2, FrameSound
<1>4. ASSUME NEW t \in Caller, GetSequence(t) PROVE Sound' /\ Accounts
  <2>1. CASE Find(t)
    <3>1. UNCHANGED <<deque, cursor, issued, answer, name>>
      BY <2>1 DEF Find, batch
    <3> QED BY <3>1, FrameSound
  <2> QED BY <1>4, <2>1, FetchSound, TakeSound, FinishFirstSound, FinishFetchSound DEF GetSequence
<1>5. ASSUME NEW t \in Thread, HttpRequest(t) \/ Misread(t) PROVE Sound' /\ Accounts
  <2>1. CASE SelectValidHost(t) \/ Connect(t) \/ Receive(t)
    <3>1. UNCHANGED <<deque, cursor, issued, answer, name>>
      BY <2>1 DEF SelectValidHost, Connect, Receive, batch, request
    <3> QED BY <3>1, FrameSound
  <2>2. CASE TryAgain(t) \/ Misread(t)
    <3>1. /\ UNCHANGED <<deque, cursor, issued, name>> /\ answer' = [answer EXCEPT ![t] = None]
          /\ faults' > 0
      BY <2>2 DEF TryAgain, Misread, Fault, batch, request, Typed, SharedTyped
    <3> QED BY <3>1, DropSound
  <2> QED BY <1>5, <2>1, <2>2, ServeSound DEF HttpRequest
<1>6. CASE ThreadWorker
  <2>1. ASSUME NEW n \in Name, TakeTask(n) PROVE Sound' /\ Accounts
    <3>1. UNCHANGED <<deque, cursor, issued, answer>> /\ answer[Pool] = None
      BY <2>1, Constants DEF TakeTask, batch, Control
    <3>2. \A u \in Thread : u # Pool => name'[u] = name[u]
      BY <2>1 DEF TakeTask, Typed, ThreadsTyped
    <3> QED BY <3>1, <3>2, FrameSound
  <2> QED BY <1>6, <2>1, FinishPrefetchSound DEF ThreadWorker
<1>7. ASSUME NEW h \in Host, TimePasses(h) PROVE Sound' /\ Accounts
  <2>1. UNCHANGED <<deque, cursor, issued, answer, name>>
    BY <1>7 DEF TimePasses, batch, request
  <2> QED BY <2>1, FrameSound
<1> QED BY <1>1, <1>2, <1>3, <1>4, <1>5, <1>6, <1>7 DEF Next

-----------------------------------------------------------------------------
(* The ledger of a name.                                                   *)
LEMMA InitLedger == Init => \A n \in Name : Ledger(n)!Init
<1> SUFFICES ASSUME Init, NEW n \in Name PROVE Ledger(n)!Init
  OBVIOUS
<1>1. cursor[n] = 1 /\ issued[n] = {} /\ Len(deque[n]) = 0 /\ \A t \in Thread : answer[t] = None
  BY DEF Init
<1>2. Live(n) = {}
  BY <1>1, InitTyped, LiveHeld DEF Held, Has
<1> QED BY <1>1, <1>2 DEF Ledger!Init

LEMMA AccountsLedger ==
  ASSUME Typed, Typed', Sound, NEW n \in Name, Keeps(n) \/ Claims(n) \/ Loses(n) \/ Gives(n)
  PROVE  [Ledger(n)!Next]_(Ledger(n)!ledger)
<1> SUFFICES ASSUME NEW L, L = Live(n), NEW M, M = Live(n)' PROVE [Ledger(n)!Next]_(Ledger(n)!ledger)
  OBVIOUS
<1>1. /\ L \subseteq Nat /\ M \subseteq Nat
      /\ \A x \in Nat : x \in L <=> Held(n, x)
      /\ \A x \in Nat : x \in M <=> Held(n, x)'
  <2>1. M \subseteq Nat /\ \A x \in Nat : x \in M <=> Held(n, x)'
    <3>1. AllHeld'
      BY LiveAllHeld, PTL
    <3> QED BY <3>1 DEF AllHeld
  <2> QED BY <2>1, LiveHeld
<1>2. cursor[n] \in Nat /\ cursor'[n] \in Nat
  BY DEF Typed, NamesTyped
<1>3. CASE Keeps(n)
  <2>1. M = L
    BY <1>1, <1>3 DEF Keeps
  <2> QED BY <1>3, <2>1 DEF Keeps, Ledger!ledger
<1>4. CASE Claims(n)
  <2>1. M \subseteq L \cup (cursor[n] .. cursor'[n] - 1)
    BY <1>1, <1>4 DEF Claims
  <2>2. cursor'[n] \in cursor[n] .. cursor'[n] /\ cursor'[n] # cursor[n]
    BY <1>2, <1>4 DEF Claims
  <2> QED BY <1>4, <2>1, <2>2 DEF Claims, Ledger!Next, Ledger!Claim
<1>5. CASE Loses(n)
  <2>1. M \subseteq L
    BY <1>1, <1>5 DEF Loses
  <2> QED BY <1>5, <2>1 DEF Loses, Ledger!Next, Ledger!Lose
<1>6. CASE Gives(n)
  <2>1. PICK v \in Nat : /\ Held(n, v)
                         /\ cursor'[n] = cursor[n] /\ issued'[n] = issued[n] \cup {v}
                         /\ \A x \in Nat : Held(n, x)' <=> Held(n, x) /\ x # v
    BY <1>6 DEF Gives
  <2>2. v \notin issued[n]
    BY <2>1 DEF Held, Sound, Claimed, Bounded
  <2>3. issued'[n] \ issued[n] = {v}
    BY <2>1, <2>2
  <2>4. M = L \ {v} /\ v \in L
    BY <1>1, <2>1
  <2> QED BY <2>1, <2>2, <2>3, <2>4 DEF Ledger!Next, Ledger!Deliver
<1> QED BY <1>3, <1>4, <1>5, <1>6

(* For every name, whatever the numbers of threads, hosts and failures, the *)
(* library only takes ids off the hosts' cursor, loses some, and returns   *)
(* ids it holds: so no call returns an id that was returned before.        *)
THEOREM SdkImplementsLedger == Spec => LedgerSpec
<1> DEFINE Inv == Typed /\ Control /\ Sound
<1>1. Init => Inv
  BY InitTyped, InitSound
<1>2. Inv /\ [Next]_vars => Inv'
  BY TypedNext, NextSound
<1>3. Inv /\ [Next]_vars => [\A n \in Name : [Ledger(n)!Next]_(Ledger(n)!ledger)]_vars
  <2> SUFFICES ASSUME Inv, [Next]_vars, NEW n \in Name
               PROVE  [Ledger(n)!Next]_(Ledger(n)!ledger)
    OBVIOUS
  <2>1. Typed' /\ Accounts
    BY TypedNext, NextSound
  <2> QED BY <2>1, AccountsLedger DEF Accounts
<1> QED BY <1>1, <1>2, <1>3, InitLedger, PTL DEF Spec, LedgerSpec

(* What was taken off the cursor is held or was returned.                  *)
NoneGone == faults = 0 => \A n \in Name : \A x \in 1 .. cursor[n] - 1 : x \in issued[n] \/ Held(n, x)

LEMMA FaultsStay == Typed /\ [Next]_vars => faults' >= faults
<1> SUFFICES ASSUME Typed, [Next]_vars PROVE faults' = faults \/ Fault
  BY Constants DEF Fault, Typed, SharedTyped
<1>1. CASE UNCHANGED vars
  BY <1>1 DEF vars
<1>2. ASSUME NEW u \in Url, SetServerUrl(u) PROVE faults' = faults
  BY <1>2 DEF SetServerUrl
<1>3. ASSUME NEW h \in Host, TimePasses(h) PROVE faults' = faults
  BY <1>3 DEF TimePasses
<1>4. ASSUME NEW t \in Thread, HttpRequest(t) \/ Misread(t) PROVE faults' = faults \/ Fault
  BY <1>4 DEF HttpRequest, SelectValidHost, Connect, Serve, Receive, TryAgain, Misread
<1>5. ASSUME NEW t \in Caller, GetSequence(t) PROVE faults' = faults
  BY <1>5 DEF GetSequence, Find, Fetch, Take, FinishFirst, FinishFetch
<1>6. ASSUME ThreadWorker PROVE faults' = faults
  BY <1>6 DEF ThreadWorker, FinishPrefetch, TakeTask
<1>7. ASSUME NEW t \in Caller, NEW n \in Name, Call(t, n) PROVE faults' = faults
  BY <1>7 DEF Call
<1> QED BY <1>1, <1>2, <1>3, <1>4, <1>5, <1>6, <1>7 DEF Next

(* As long as nothing fails, each id that a host gave is returned or still  *)
(* held for a later call: no step of the library drops one.                *)
THEOREM NoIdIsLost == Spec => []NoneLost
<1> DEFINE Inv == Typed /\ Control /\ Sound /\ NoneGone
<1>1. Init => Inv
  <2>1. Init => NoneGone
    BY DEF Init, NoneGone
  <2> QED BY <2>1, InitTyped, InitSound
<1>2. Inv /\ [Next]_vars => Inv'
  <2> SUFFICES ASSUME Inv, [Next]_vars PROVE Inv'
    OBVIOUS
  <2>1. Typed' /\ Control' /\ Sound' /\ Accounts
    BY TypedNext, NextSound
  <2>2. ASSUME faults' = 0, NEW n \in Name, NEW x \in 1 .. cursor'[n] - 1
        PROVE  x \in issued'[n] \/ Held(n, x)'
    <3>1. faults = 0 /\ ~Loses(n)
      BY <2>2, FaultsStay DEF Typed, SharedTyped, Loses
    <3>2. /\ x \in Nat /\ cursor[n] \in Nat /\ cursor'[n] \in Nat
          /\ x < cursor[n] => x \in issued[n] \/ Held(n, x)
      BY <2>1, <2>2, <3>1 DEF NoneGone, Typed, NamesTyped
    <3>3. CASE Keeps(n) \/ Claims(n)
      BY <2>2, <3>2, <3>3 DEF Keeps, Claims
    <3>4. CASE Gives(n)
      BY <2>2, <3>2, <3>4 DEF Gives
    <3> QED BY <2>1, <3>1, <3>3, <3>4 DEF Accounts
  <2> QED BY <2>1, <2>2 DEF NoneGone
<1>3. Inv => NoneLost
  <2> SUFFICES ASSUME Inv, faults = 0, NEW n \in Name
               PROVE  1 .. cursor[n] - 1 = issued[n] \cup Live(n)
    BY DEF NoneLost
  <2>1. Live(n) \subseteq Nat /\ \A x \in Nat : x \in Live(n) <=> Held(n, x)
    BY LiveHeld
  <2>2. cursor[n] \in Nat /\ issued[n] \subseteq 1 .. cursor[n] - 1
    BY DequeTypes DEF Sound, Claimed
  <2>3. ASSUME NEW x \in Live(n) PROVE x \in 1 .. cursor[n] - 1
    <3>1. x \in Nat /\ Held(n, x)
      BY <2>1
    <3>2. x < cursor[n] /\ x # 0
      BY <3>1, ZeroIsNoId DEF Held, Sound, Claimed, Bounded
    <3> QED BY <2>2, <3>1, <3>2
  <2>4. \A x \in 1 .. cursor[n] - 1 : x \in issued[n] \/ x \in Live(n)
    BY <2>1, <2>2 DEF NoneGone
  <2> QED BY <2>2, <2>3, <2>4
<1> QED BY <1>1, <1>2, <1>3, PTL DEF Spec
=============================================================================
