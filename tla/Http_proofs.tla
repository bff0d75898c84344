------------------------------ MODULE Http_proofs ------------------------------
(***************************************************************************)
(* The parser returns and stays in its buffer (HttpParser), and so do both  *)
(* ends of a connection (Http); then what two ends say to each other is     *)
(* what they understand (HttpTalk).                                        *)
(***************************************************************************)
EXTENDS HttpTalk, SequenceTheorems, WellFoundedInduction, TLAPS

(* Sequences of anything, and least numbers.                               *)
LEMMA Least ==
  ASSUME NEW T, T \subseteq Nat, T # {}
  PROVE  \E m \in T : \A k \in T : m <= k
<1>1. IsWellFoundedOn(OpToRel(<, Nat), Nat)
  BY NatLessThanWellFounded
<1>2. PICK m \in T : \A k \in T : ~(<<k, m>> \in OpToRel(<, Nat))
  BY <1>1, WFMin
<1>3. \A k \in T : ~(k < m)
  BY <1>2 DEF OpToRel
<1> QED BY <1>3

IsSeq(q) == \E S : q \in Seq(S)

LEMMA SeqLen == ASSUME NEW q, IsSeq(q) PROVE Len(q) \in Nat /\ DOMAIN q = 1 .. Len(q)
  BY DEF IsSeq

LEMMA Joined ==
  ASSUME NEW q, NEW r, IsSeq(q), IsSeq(r)
  PROVE  IsSeq(q \o r) /\ Len(q \o r) = Len(q) + Len(r)
<1>1. PICK S : q \in Seq(S)
  BY DEF IsSeq
<1>2. PICK T : r \in Seq(T)
  BY DEF IsSeq
<1>3. q \in Seq(S \cup T) /\ r \in Seq(S \cup T)
  BY <1>1, <1>2, SeqMonotonic
<1> QED BY <1>3, ConcatProperties DEF IsSeq

LEMMA Part ==
  ASSUME NEW q, NEW m \in Int, NEW n \in Int
  PROVE  IsSeq(SubSeq(q, m, n)) /\ Len(SubSeq(q, m, n)) = IF m <= n THEN n - m + 1 ELSE 0
<1> DEFINE S == {q[i] : i \in m .. n}
<1>1. \A i \in m .. n : q[i] \in S
  OBVIOUS
<1> HIDE DEF S
<1> QED BY <1>1, SubSeqProperties DEF IsSeq

LEMMA Tuples ==
  ASSUME NEW a, NEW b, NEW c, NEW d, NEW e, NEW f
  PROVE  /\ IsSeq(<<>>) /\ IsSeq(<<a>>) /\ IsSeq(<<a, b>>) /\ IsSeq(<<a, b, c>>)
         /\ IsSeq(<<a, b, c, d>>) /\ IsSeq(<<a, b, c, d, e>>) /\ IsSeq(<<a, b, c, d, e, f>>)
<1>1. <<>> \in Seq({}) /\ <<a>> \in Seq({a}) /\ <<a, b>> \in Seq({a, b}) /\ <<a, b, c>> \in Seq({a, b, c})
  OBVIOUS
<1>2. <<a, b, c, d>> \in Seq({a, b, c, d}) /\ <<a, b, c, d, e>> \in Seq({a, b, c, d, e})
      /\ <<a, b, c, d, e, f>> \in Seq({a, b, c, d, e, f})
  OBVIOUS
<1> QED BY <1>1, <1>2 DEF IsSeq

-----------------------------------------------------------------------------
(* Recursive functions on 0 .. n: that there is one, by the least n for     *)
(* which there is none, and what it computes, by the least i that fails.   *)
Once(u) == CHOOSE t \in {Turn(x) : x \in {u}} : TRUE
Runs(s, n, f) == f = [i \in 0 .. n |-> IF i = 0 THEN s ELSE Once(f[i - 1])]

LEMMA OnceIs == \A u : Once(u) = Turn(u)
  BY DEF Once

LEMMA RunExists ==
  ASSUME NEW s, NEW n \in Nat
  PROVE  \E f : Runs(s, n, f)
<1> DEFINE T == {k \in 0 .. n : ~ \E f : Runs(s, k, f)}
<1> SUFFICES ASSUME T # {} PROVE FALSE
  OBVIOUS
<1>1. PICK m \in T : \A k \in T : m <= k
  <2>1. T \subseteq Nat
    OBVIOUS
  <2> HIDE DEF T
  <2> QED BY <2>1, Least
<1>2. m # 0
  <2>1. Runs(s, 0, [i \in 0 .. 0 |-> s])
    BY DEF Runs
  <2> QED BY <2>1
<1>3. PICK f : Runs(s, m - 1, f)
  BY <1>1, <1>2
<1> DEFINE g == [i \in 0 .. m |-> IF i = 0 THEN s ELSE Once(f[i - 1])]
<1>4. \A i \in 0 .. m - 1 : g[i] = f[i]
  BY <1>3 DEF Runs
<1>5. Runs(s, m, g)
  <2>1. ASSUME NEW i \in 0 .. m, i # 0 PROVE g[i - 1] = f[i - 1]
    <3>1. i - 1 \in 0 .. m - 1
      BY <1>1, <2>1
    <3> QED BY <1>4, <3>1
  <2> QED BY <2>1 DEF Runs
<1> QED BY <1>1, <1>5

LEMMA Running ==
  ASSUME NEW s, NEW n \in Nat, NEW f, Runs(s, n, f)
  PROVE  f[0] = s /\ \A i \in 1 .. n : f[i] = Turn(f[i - 1])
<1>1. f[0] = s
  BY DEF Runs
<1>2. ASSUME NEW i \in 1 .. n PROVE f[i] = Turn(f[i - 1])
  <2>1. i \in 0 .. n /\ i # 0
    OBVIOUS
  <2>2. f[i] = Once(f[i - 1])
    BY <2>1 DEF Runs
  <2> QED BY <2>2, OnceIs
<1> QED BY <1>1, <1>2

LEMMA ParseIs ==
  ASSUME NEW s
  PROVE  Parse(s) = (CHOOSE f : Runs(s, Fill(s) + 1, f))[Fill(s) + 1]
  BY DEF Parse, Runs, Once

(* The digits of a header.                                                 *)
Sums(n, v, k, f) == f = [i \in 0 .. k |-> IF i = 0 THEN n ELSE Counted(f[i - 1], v[i])]

LEMMA SumExists ==
  ASSUME NEW n, NEW v, NEW l \in Nat
  PROVE  \E f : Sums(n, v, l, f)
<1> DEFINE T == {k \in 0 .. l : ~ \E f : Sums(n, v, k, f)}
<1> SUFFICES ASSUME T # {} PROVE FALSE
  OBVIOUS
<1>1. PICK m \in T : \A k \in T : m <= k
  <2>1. T \subseteq Nat
    OBVIOUS
  <2> HIDE DEF T
  <2> QED BY <2>1, Least
<1>2. m # 0
  <2>1. Sums(n, v, 0, [i \in 0 .. 0 |-> n])
    BY DEF Sums
  <2> QED BY <2>1
<1>3. PICK f : Sums(n, v, m - 1, f)
  BY <1>1, <1>2
<1> DEFINE g == [i \in 0 .. m |-> IF i = 0 THEN n ELSE Counted(f[i - 1], v[i])]
<1>4. \A i \in 0 .. m - 1 : g[i] = f[i]
  BY <1>3 DEF Sums
<1>5. Sums(n, v, m, g)
  <2>1. ASSUME NEW i \in 0 .. m, i # 0 PROVE g[i - 1] = f[i - 1]
    <3>1. i - 1 \in 0 .. m - 1
      BY <1>1, <2>1
    <3> QED BY <1>4, <3>1
  <2> QED BY <2>1 DEF Sums
<1> QED BY <1>1, <1>5

LEMMA CountedType == ASSUME NEW n \in Nat, NEW d PROVE Counted(n, d) \in Nat
<1>1. \A x \in DOMAIN Digits : Digits[x] \in Nat
  BY DEF Digits
<1> QED BY <1>1 DEF Counted

LEMMA NumberType ==
  ASSUME NEW n \in Nat, NEW v, Len(v) \in Nat
  PROVE  Number(n, v) \in Nat
<1> DEFINE f == CHOOSE g : Sums(n, v, Len(v), g)
<1>1. Number(n, v) = f[Len(v)]
  BY DEF Number, Sums
<1>2. Sums(n, v, Len(v), f)
  BY SumExists
<1>3. f[0] = n /\ \A i \in 1 .. Len(v) : f[i] = Counted(f[i - 1], v[i])
  <2> HIDE DEF f
  <2>1. f[0] = n
    BY <1>2 DEF Sums
  <2>2. ASSUME NEW i \in 1 .. Len(v) PROVE f[i] = Counted(f[i - 1], v[i])
    <3>1. i \in 0 .. Len(v) /\ i # 0
      OBVIOUS
    <3> QED BY <1>2, <3>1 DEF Sums
  <2> QED BY <2>1, <2>2
<1> DEFINE T == {k \in 0 .. Len(v) : f[k] \notin Nat}
<1> HIDE DEF f
<1>4. ASSUME T # {} PROVE FALSE
  <2>1. PICK m \in T : \A k \in T : m <= k
    <3>1. T \subseteq Nat
      OBVIOUS
    <3> HIDE DEF T
    <3> QED BY <1>4, <3>1, Least
  <2>2. m # 0 /\ m \in 1 .. Len(v) /\ m - 1 \in 0 .. Len(v)
    BY <1>3, <2>1
  <2>3. f[m - 1] \in Nat
    BY <2>1, <2>2
  <2> QED BY <1>3, <2>1, <2>2, <2>3, CountedType
<1> QED BY <1>1, <1>4

(* A buffer that is made large enough.                                     *)
Sizes(b, n, f) == f = [k \in 0 .. n |-> IF k = 0 THEN b.size ELSE 2 * f[k - 1]]
Fit(f, k, need) == need <= f[k] - 1

LEMMA SizesExist ==
  ASSUME NEW b, NEW n \in Nat
  PROVE  \E f : Sizes(b, n, f)
<1> DEFINE T == {k \in 0 .. n : ~ \E f : Sizes(b, k, f)}
<1> SUFFICES ASSUME T # {} PROVE FALSE
  OBVIOUS
<1>1. PICK m \in T : \A k \in T : m <= k
  <2>1. T \subseteq Nat
    OBVIOUS
  <2> HIDE DEF T
  <2> QED BY <2>1, Least
<1>2. m # 0
  <2>1. Sizes(b, 0, [i \in 0 .. 0 |-> b.size])
    BY DEF Sizes
  <2> QED BY <2>1
<1>3. PICK f : Sizes(b, m - 1, f)
  BY <1>1, <1>2
<1> DEFINE g == [i \in 0 .. m |-> IF i = 0 THEN b.size ELSE 2 * f[i - 1]]
<1>4. \A i \in 0 .. m - 1 : g[i] = f[i]
  BY <1>3 DEF Sizes
<1>5. Sizes(b, m, g)
  <2>1. ASSUME NEW i \in 0 .. m, i # 0 PROVE g[i - 1] = f[i - 1]
    <3>1. i - 1 \in 0 .. m - 1
      BY <1>1, <2>1
    <3> QED BY <1>4, <3>1
  <2> QED BY <2>1 DEF Sizes
<1> QED BY <1>1, <1>5

LEMMA ReallocFits ==
  ASSUME NEW b, b.size \in Nat \ {0}, NEW need \in Nat
  PROVE  /\ ReallocHttpBuffer(b, need) \in Nat /\ ReallocHttpBuffer(b, need) >= b.size
         /\ need <= ReallocHttpBuffer(b, need) - 1
<1> DEFINE f == CHOOSE g : Sizes(b, need, g)
           K == CHOOSE k \in 0 .. need : Fit(f, k, need) /\ \A j \in 0 .. k - 1 : ~Fit(f, j, need)
<1>1. ReallocHttpBuffer(b, need) = f[K]
  BY DEF ReallocHttpBuffer, Sizes, Fit
<1>2. Sizes(b, need, f)
  BY SizesExist
<1> HIDE DEF f
<1>3. f[0] = b.size /\ \A k \in 1 .. need : f[k] = 2 * f[k - 1]
  <2>1. f[0] = b.size
    BY <1>2 DEF Sizes
  <2>2. ASSUME NEW k \in 1 .. need PROVE f[k] = 2 * f[k - 1]
    <3>1. k \in 0 .. need /\ k # 0
      OBVIOUS
    <3> QED BY <1>2, <3>1 DEF Sizes
  <2> QED BY <2>1, <2>2
<1>4. \A k \in 0 .. need : f[k] \in Nat /\ f[k] >= b.size /\ f[k] >= k + 1
  <2> DEFINE T == {k \in 0 .. need : ~(f[k] \in Nat /\ f[k] >= b.size /\ f[k] >= k + 1)}
  <2> SUFFICES ASSUME T # {} PROVE FALSE
    OBVIOUS
  <2>1. PICK m \in T : \A k \in T : m <= k
    <3>1. T \subseteq Nat
      OBVIOUS
    <3> HIDE DEF T
    <3> QED BY <3>1, Least
  <2>2. m # 0 /\ m \in 1 .. need /\ m - 1 \in 0 .. need
    BY <1>3, <2>1
  <2>3. f[m - 1] \in Nat /\ f[m - 1] >= b.size /\ f[m - 1] >= m
    BY <2>1, <2>2
  <2>4. f[m] = 2 * f[m - 1]
    BY <1>3, <2>2
  <2> QED BY <2>1, <2>2, <2>3, <2>4
<1>5. \E k \in 0 .. need : Fit(f, k, need) /\ \A j \in 0 .. k - 1 : ~Fit(f, j, need)
  <2> DEFINE T == {k \in 0 .. need : Fit(f, k, need)}
  <2>1. need \in T
    BY <1>4 DEF Fit
  <2>2. PICK m \in T : \A k \in T : m <= k
    <3>1. T \subseteq Nat
      OBVIOUS
    <3> HIDE DEF T
    <3> QED BY <2>1, <3>1, Least
  <2>3. \A j \in 0 .. m - 1 : ~Fit(f, j, need)
    BY <2>2
  <2> QED BY <2>2, <2>3
<1>6. K \in 0 .. need /\ Fit(f, K, need)
  BY <1>5
<1> QED BY <1>1, <1>4, <1>6 DEF Fit

-----------------------------------------------------------------------------
(* What the parser works on.                                               *)
EnvFields ==
  {"role", "req", "rsp", "step", "method", "uri", "version", "statuscode", "content_length",
   "chunked", "keepalive", "trailer", "encoding", "name", "offset", "body", "chunk",
   "chunk_body", "chunk_end", "moved", "reforming"}
Steps ==
  {"METHOD0", "METHOD", "URI0", "URI", "VERSION0", "VERSION", "RSPVERSION0", "RSPVERSION",
   "STATUSCODE0", "STATUSCODE", "REASONPHRASE0", "REASONPHRASE", "NAME0", "NAME", "VALUE0",
   "VALUE", "BODY", "CHUNKED_SIZE", "CHUNKED_DATA"}

EnvOK(e) ==
  /\ DOMAIN e = EnvFields
  /\ e.content_length \in Nat /\ e.offset \in Nat /\ e.body \in Nat
  /\ e.chunk \in Nat /\ e.chunk_body \in Nat /\ e.chunk_end \in Nat
  /\ e.step \in Steps \cup {"BEGIN", "DONE"}
  /\ e.step = "CHUNKED_DATA" => e.chunk >= 1

Data(b) == DOMAIN b = {"data", "process", "size"} /\ IsSeq(b.data)

(* What a turn keeps of the parse it is a part of.                         *)
Same(o, s) ==
  /\ DOMAIN s = {"e", "b", "p", "ret"}
  /\ EnvOK(s.e) /\ s.e.req = o.e.req /\ s.e.rsp = o.e.rsp
  /\ Data(s.b) /\ Len(s.b.data) = Len(o.b.data) /\ s.b.size = o.b.size
  /\ s.b.process \in 0 .. Len(o.b.data)

(* After i turns.                                                          *)
Goes(o, i, s) ==
  /\ s.e.step # "BEGIN"
  /\ s.p \in i .. Len(o.b.data)
  /\ s.e.step = "CHUNKED_DATA" /\ i >= 1 => s.p = s.e.chunk_body
Parsed(o, i, s) ==
  /\ Same(o, s)
  /\ s.ret \in {"run", "more", "done", "invalid"}
  /\ s.ret = "more" => s.e.step # "DONE"
  /\ s.ret = "run" => Goes(o, i, s)

LEMMA LeastOf ==
  ASSUME NEW S, S \subseteq Nat, S # {}
  PROVE  Min(S) \in S /\ \A x \in S : Min(S) <= x
<1>1. \E m \in S : \A k \in S : m =< k
  BY Least
<1> QED BY <1>1 DEF Min

LEMMA ScanIn ==
  ASSUME NEW s, Fill(s) \in Nat, s.p \in 0 .. Fill(s), NEW stops
  PROVE  Scan(s, stops) \in s.p .. Fill(s)
<1> DEFINE S == {q \in s.p .. Fill(s) : q = Fill(s) \/ At(s, q) \in stops}
<1>1. Fill(s) \in S /\ S \subseteq Nat
  OBVIOUS
<1>2. Min(S) \in S
  <2> HIDE DEF S
  <2> QED BY <1>1, LeastOf
<1> QED BY <1>2 DEF Scan

LEMMA BlanksIn ==
  ASSUME NEW s, Fill(s) \in Nat, s.p \in 0 .. Fill(s)
  PROVE  Blanks(s) \in s.p .. Fill(s)
<1> DEFINE S == {q \in s.p .. Fill(s) : q = Fill(s) \/ At(s, q) # "sp"}
<1>1. Fill(s) \in S /\ S \subseteq Nat
  OBVIOUS
<1>2. Min(S) \in S
  <2> HIDE DEF S
  <2> QED BY <1>1, LeastOf
<1> QED BY <1>2 DEF Blanks

LEMMA FillIs ==
  ASSUME NEW o, NEW s, Same(o, s)
  PROVE  Fill(s) = Len(o.b.data) /\ Fill(s) \in Nat
  BY SeqLen DEF Same, Data, Fill

(* The ways a turn ends.                                                   *)
LEMMA MoreParsed ==
  ASSUME NEW o, NEW i, NEW s, Same(o, s), s.e.step # "DONE", NEW q \in 0 .. Fill(s)
  PROVE  Parsed(o, i, More(s, q))
<1> QED BY FillIs DEF More, Parsed, Same, Data

LEMMA InvalidParsed ==
  ASSUME NEW o, NEW i, NEW s, Same(o, s)
  PROVE  Parsed(o, i, Invalid(s))
  BY DEF Invalid, Parsed, Same, Data

LEMMA DoneParsed ==
  ASSUME NEW o, NEW i, NEW s, Same(o, s), NEW q \in 0 .. Fill(s)
  PROVE  Parsed(o, i, Done(s, q)) /\ Parsed(o, i, DoneReforming(s, q))
<1> DEFINE f == [s.e EXCEPT !.step = "DONE"]
           c == [s.b EXCEPT !.process = q]
           t == Done(s, q)
           r == t.e.reforming \/ Fill(s) > q
           g == [t.e EXCEPT !.reforming = r]
           u == DoneReforming(s, q)
<1>1. EnvOK(f) /\ f.req = s.e.req /\ f.rsp = s.e.rsp
  BY DEF Same, EnvOK, EnvFields
<1>2. Data(c) /\ c.data = s.b.data /\ c.size = s.b.size /\ c.process = q
  BY DEF Same, Data
<1>3. DOMAIN t = {"e", "b", "p", "ret"} /\ t.e = f /\ t.b = c /\ t.ret = "done"
  BY DEF Done, Same
<1>4. u = [t EXCEPT !.e.reforming = r]
  BY DEF DoneReforming
<1> HIDE DEF f, c, t, r, u
<1>5. Same(o, t)
  BY FillIs, <1>1, <1>2, <1>3 DEF Same
<1>6. EnvOK(g) /\ g.req = t.e.req /\ g.rsp = t.e.rsp
  BY <1>5 DEF Same, EnvOK, EnvFields
<1>7. DOMAIN u = {"e", "b", "p", "ret"} /\ u.e = g /\ u.b = t.b /\ u.ret = "done"
  BY <1>3, <1>4
<1> HIDE DEF g
<1>8. Same(o, u)
  BY <1>5, <1>6, <1>7 DEF Same
<1>9. Parsed(o, i, t) /\ Parsed(o, i, u)
  BY <1>3, <1>5, <1>7, <1>8 DEF Parsed
<1> QED BY <1>9 DEF t, u

-----------------------------------------------------------------------------
(* Each step.                                                              *)
Going(o, i, s) ==
  /\ i \in Nat /\ Same(o, s) /\ s.ret = "run" /\ Goes(o, i, s)
  /\ s.e.step # "DONE"

LEMMA Place ==
  ASSUME NEW o, NEW i, NEW s, Going(o, i, s)
  PROVE  /\ Fill(s) \in Nat /\ Fill(s) = Len(o.b.data)
         /\ s.p \in 0 .. Fill(s) /\ s.p >= i /\ i \in Nat /\ s.p \in Int
         /\ EnvOK(s.e) /\ s.e.step \in Steps /\ IsSeq(s.b.data) /\ Same(o, s)
<1>1. Fill(s) \in Nat /\ Fill(s) = Len(o.b.data)
  BY FillIs DEF Going
<1> QED BY <1>1 DEF Going, Goes, Same, Data, EnvOK

(* An environment that goes on at a step.                                  *)
Onward(s, e) == EnvOK(e) /\ e.req = s.e.req /\ e.rsp = s.e.rsp /\ e.step \in Steps \ {"CHUNKED_DATA"}

LEMMA WordParsed ==
  ASSUME NEW o, NEW i, NEW s, Going(o, i, s), NEW q \in s.p .. Fill(s), NEW refused \in BOOLEAN,
         NEW e, q < Fill(s) => Onward(s, e)
  PROVE  Parsed(o, i + 1, Word(s, q, refused, e))
<1>1. CASE q = Fill(s)
  BY <1>1, Place, MoreParsed DEF Word, Going
<1>2. CASE q # Fill(s) /\ refused
  BY <1>2, InvalidParsed DEF Word, Going
<1>3. CASE q # Fill(s) /\ ~refused
  <2>1. q < Fill(s) /\ q + 1 \in i + 1 .. Len(o.b.data)
    BY <1>3, Place
  <2>2. Onward(s, e)
    BY <2>1
  <2>3. Word(s, q, refused, e) = [s EXCEPT !.p = q + 1, !.e = e]
    BY <1>3 DEF Word
  <2>4. Parsed(o, i + 1, [s EXCEPT !.p = q + 1, !.e = e])
    BY <2>1, <2>2 DEF Parsed, Going, Same, Goes, Onward, Steps
  <2> QED BY <2>3, <2>4
<1> QED BY <1>1, <1>2, <1>3

(* Most steps only name the next one, and keep a word.                     *)
LEMMA Named ==
  ASSUME NEW o, NEW i, NEW s, Going(o, i, s), NEW next \in Steps \ {"CHUNKED_DATA"}, NEW v,
         NEW q \in Nat
  PROVE  /\ Onward(s, [s.e EXCEPT !.step = next])
         /\ Onward(s, [s.e EXCEPT !.offset = q, !.step = next])
         /\ Onward(s, [s.e EXCEPT !.method = v, !.step = next])
         /\ Onward(s, [s.e EXCEPT !.uri = v, !.step = next])
         /\ Onward(s, [s.e EXCEPT !.statuscode = v, !.step = next])
         /\ Onward(s, [Versioned(s.e, v) EXCEPT !.step = next])
<1>1. EnvOK(s.e)
  BY Place
<1>2. /\ Onward(s, [s.e EXCEPT !.step = next])
      /\ Onward(s, [s.e EXCEPT !.offset = q, !.step = next])
  BY <1>1 DEF Onward, EnvOK, EnvFields, Steps
<1>3. /\ Onward(s, [s.e EXCEPT !.method = v, !.step = next])
      /\ Onward(s, [s.e EXCEPT !.uri = v, !.step = next])
      /\ Onward(s, [s.e EXCEPT !.statuscode = v, !.step = next])
  BY <1>1 DEF Onward, EnvOK, EnvFields, Steps
<1>4. Onward(s, [Versioned(s.e, v) EXCEPT !.step = next])
  BY <1>1 DEF Onward, EnvOK, EnvFields, Steps, Versioned
<1> QED BY <1>2, <1>3, <1>4

LEMMA BeforeParsed ==
  ASSUME NEW o, NEW i, NEW s, Going(o, i, s), NEW next \in Steps \ {"CHUNKED_DATA"}
  PROVE  Parsed(o, i + 1, Before(s, next))
<1> DEFINE q == Blanks(s)
<1>1. q \in s.p .. Fill(s) /\ q \in Nat
  BY Place, BlanksIn
<1>2. Onward(s, [s.e EXCEPT !.offset = q, !.step = next])
  BY <1>1, Named
<1> QED BY <1>1, <1>2, WordParsed DEF Before

LEMMA StartParsed ==
  ASSUME NEW o, NEW i, NEW s, Going(o, i, s)
  PROVE  /\ Parsed(o, i + 1, METHOD(s)) /\ Parsed(o, i + 1, URI(s))
         /\ Parsed(o, i + 1, VERSION(s)) /\ Parsed(o, i + 1, RSPVERSION(s))
         /\ Parsed(o, i + 1, STATUSCODE(s)) /\ Parsed(o, i + 1, REASONPHRASE(s))
<1>1. \A stops : Scan(s, stops) \in s.p .. Fill(s) /\ Scan(s, stops) \in Nat
  BY Place, ScanIn
<1>2. {"URI0", "VERSION0", "NAME0", "STATUSCODE0", "REASONPHRASE0"} \subseteq Steps \ {"CHUNKED_DATA"}
  BY DEF Steps
<1>3. Parsed(o, i + 1, METHOD(s))
  BY <1>1, <1>2, Named, WordParsed DEF METHOD
<1>4. Parsed(o, i + 1, URI(s))
  BY <1>1, <1>2, Named, WordParsed DEF URI
<1>5. Parsed(o, i + 1, VERSION(s))
  <2> DEFINE q == Scan(s, {"lf"})
             w == Read(s, IF At(s, q - 1) = "cr" THEN q - 1 ELSE q)
  <2>1. Onward(s, [Versioned(s.e, w) EXCEPT !.step = "NAME0"])
    BY <1>1, <1>2, Named
  <2>2. BadVersion(w) \in BOOLEAN
    BY DEF BadVersion
  <2> HIDE DEF w
  <2>3. Parsed(o, i + 1, Word(s, q, BadVersion(w), [Versioned(s.e, w) EXCEPT !.step = "NAME0"]))
    BY <1>1, <2>1, <2>2, WordParsed
  <2> QED BY <2>3 DEF VERSION, w
<1>6. Parsed(o, i + 1, RSPVERSION(s))
  <2> DEFINE q == Scan(s, {"sp", "lf"})
             w == Read(s, q)
  <2>1. Onward(s, [Versioned(s.e, w) EXCEPT !.step = "STATUSCODE0"])
    BY <1>1, <1>2, Named
  <2>2. (At(s, q) = "lf" \/ BadVersion(w)) \in BOOLEAN
    OBVIOUS
  <2> HIDE DEF w
  <2>3. Parsed(o, i + 1, Word(s, q, At(s, q) = "lf" \/ BadVersion(w),
                                    [Versioned(s.e, w) EXCEPT !.step = "STATUSCODE0"]))
    BY <1>1, <2>1, <2>2, WordParsed
  <2> QED BY <2>3 DEF RSPVERSION, w
<1>7. Parsed(o, i + 1, STATUSCODE(s))
  BY <1>1, <1>2, Named, WordParsed DEF STATUSCODE
<1>8. Parsed(o, i + 1, REASONPHRASE(s))
  BY <1>1, <1>2, Named, WordParsed DEF REASONPHRASE
<1> QED BY <1>3, <1>4, <1>5, <1>6, <1>7, <1>8

LEMMA NameParsed ==
  ASSUME NEW o, NEW i, NEW s, Going(o, i, s)
  PROVE  Parsed(o, i + 1, NAME(s))
<1> DEFINE q == Scan(s, {"sp", ":", "lf"})
           t == [s EXCEPT !.p = q]
           colon == Scan(t, {":", "lf"})
           named == [s EXCEPT !.e.name = Read(s, q)]
<1>1. q \in s.p .. Fill(s) /\ q \in Nat
  BY Place, ScanIn
<1>2. t.p = q /\ Fill(t) = Fill(s)
  BY DEF Going, Same, Fill
<1>3. colon \in q .. Fill(s) /\ colon \in Nat
  <2> HIDE DEF q
  <2>1. Fill(t) \in Nat /\ t.p \in 0 .. Fill(t)
    BY <1>1, <1>2, Place
  <2> HIDE DEF t
  <2> QED BY <1>1, <1>2, <2>1, ScanIn
<1>4. CASE q = Fill(s)
  BY <1>1, <1>4, Place, MoreParsed DEF NAME, Going
<1>5. CASE q # Fill(s)
  <2> HIDE DEF q
  <2>1. EnvOK(named.e) /\ named.e.req = s.e.req /\ named.e.rsp = s.e.rsp /\ named.e.step = s.e.step
        /\ named.e.chunk_body = s.e.chunk_body
    BY Place DEF EnvOK, EnvFields, Going, Same
  <2>2. /\ DOMAIN named = {"e", "b", "p", "ret"}
        /\ named.b = s.b /\ named.p = s.p /\ named.ret = s.ret
    BY DEF Going, Same
  <2>3. Going(o, i, named) /\ Fill(named) = Fill(s)
    <3> HIDE DEF named
    <3> QED BY <2>1, <2>2 DEF Going, Same, Goes, Fill
  <2>4. Onward(named, [named.e EXCEPT !.step = "VALUE0"])
    <3> HIDE DEF named
    <3> QED BY <2>3, Named DEF Steps
  <2>5. (At(s, colon) = "lf") \in BOOLEAN /\ colon \in named.p .. Fill(named)
    BY <1>1, <1>3, <2>2, <2>3, Place
  <2>6. Parsed(o, i + 1, Word(named, colon, At(s, colon) = "lf", [named.e EXCEPT !.step = "VALUE0"]))
    <3> HIDE DEF named, colon
    <3> QED BY <2>3, <2>4, <2>5, WordParsed
  <2> QED BY <1>5, <2>6 DEF NAME, q
<1> QED BY <1>4, <1>5

LEMMA GreatestOf ==
  ASSUME NEW n \in Nat, NEW S, S \subseteq 0 .. n, S # {}
  PROVE  Max(S) \in S
<1> DEFINE T == {n - x : x \in S}
<1>1. T \subseteq Nat /\ T # {}
  <2>1. ASSUME NEW x \in S PROVE n - x \in Nat
    <3>1. x \in 0 .. n
      OBVIOUS
    <3> QED BY <3>1
  <2> QED BY <2>1
<1>2. PICK m \in T : \A k \in T : m <= k
  <2> HIDE DEF T
  <2> QED BY <1>1, Least
<1>3. PICK y \in S : m = n - y
  BY <1>2
<1>4. ASSUME NEW x \in S PROVE y >= x
  <2>1. m <= n - x
    BY <1>2
  <2>2. x \in 0 .. n /\ y \in 0 .. n
    OBVIOUS
  <2> QED BY <1>3, <2>1, <2>2
<1> QED BY <1>3, <1>4 DEF Max

LEMMA ReadLen ==
  ASSUME NEW o, NEW i, NEW s, Going(o, i, s), NEW q \in Nat
  PROVE  Len(Read(s, q)) \in Nat /\ Len(TrimRight(Read(s, q))) \in Nat
<1> DEFINE v == Read(s, q)
           S == {0} \cup {j \in 1 .. Len(v) : v[j] \notin {"sp", "cr"}}
<1>1. Len(v) \in Nat
  <2>1. s.e.offset + 1 \in Int
    BY Place DEF EnvOK
  <2> QED BY <2>1, Part, SeqLen DEF Read
<1> HIDE DEF v
<1>2. Max(S) \in Int
  <2>1. S \subseteq 0 .. Len(v) /\ S # {}
    BY <1>1
  <2> HIDE DEF S
  <2>2. Max(S) \in S
    BY <1>1, <2>1, GreatestOf
  <2>3. Max(S) \in 0 .. Len(v)
    BY <2>1, <2>2
  <2> QED BY <1>1, <2>3
<1>3. Len(TrimRight(v)) \in Nat
  BY <1>2, Part, SeqLen DEF TrimRight
<1> QED BY <1>1, <1>3 DEF v

LEMMA ValueParsed ==
  ASSUME NEW o, NEW i, NEW s, Going(o, i, s)
  PROVE  Parsed(o, i + 1, VALUE(s))
<1> DEFINE q == Scan(s, {"lf"})
           v == TrimRight(Read(s, q))
           e == Header(s.e, v)
<1>1. q \in s.p .. Fill(s) /\ q \in Nat
  BY Place, ScanIn
<1>2. Len(v) \in Nat
  BY <1>1, ReadLen
<1>3. Decimal(v) \in Nat
  BY <1>2, NumberType DEF Decimal
<1> HIDE DEF v
<1>4. Onward(s, e)
  BY <1>3, Place DEF Onward, EnvOK, EnvFields, Steps, Header
<1>5. CASE q < Fill(s) /\ e.chunked /\ e.content_length > 0 /\ e.name = e.trailer
  <2>1. Same(o, [s EXCEPT !.e = e]) /\ Fill([s EXCEPT !.e = e]) = Fill(s)
    <3> HIDE DEF e
    <3> QED BY <1>4 DEF Going, Same, Onward, Fill
  <2>2. q + 1 \in 0 .. Fill(s)
    BY <1>1, <1>5, Place
  <2>3. Parsed(o, i + 1, DoneReforming([s EXCEPT !.e = e], q + 1))
    <3> HIDE DEF e, q
    <3> QED BY <2>1, <2>2, DoneParsed
  <2> QED BY <1>5, <2>3 DEF VALUE, v
<1>6. CASE ~(q < Fill(s) /\ e.chunked /\ e.content_length > 0 /\ e.name = e.trailer)
  <2>1. Parsed(o, i + 1, Word(s, q, FALSE, e))
    <3> HIDE DEF e, q
    <3> QED BY <1>1, <1>4, WordParsed
  <2> QED BY <1>6, <2>1 DEF VALUE, v
<1> QED BY <1>5, <1>6

LEMMA OnwardParsed ==
  ASSUME NEW o, NEW i, NEW s, Going(o, i, s), NEW q \in i + 1 .. Fill(s), NEW e, Onward(s, e)
  PROVE  Parsed(o, i + 1, [s EXCEPT !.p = q, !.e = e])
<1>1. q \in i + 1 .. Len(o.b.data)
  BY Place
<1> QED BY <1>1, Place DEF Parsed, Going, Same, Goes, Onward, Steps

LEMMA BodyBegun ==
  ASSUME NEW o, NEW i, NEW s, Going(o, i, s), NEW q \in i + 1 .. Fill(s)
  PROVE  Parsed(o, i + 1, GoParsingBody(s, q))
<1>1. EnvOK(s.e) /\ DOMAIN s = {"e", "b", "p", "ret"} /\ q \in 0 .. Fill(s)
  BY Place DEF Going, Same
<1> DEFINE at == [s EXCEPT !.p = q, !.e.body = q]
           e == [s.e EXCEPT !.body = q, !.step = "BODY"]
           c == [s.e EXCEPT !.body = q, !.chunk_end = q, !.step = "CHUNKED_SIZE"]
<1>2. Parsed(o, i + 1, Done(s, q))
  BY <1>1, Place, DoneParsed
<1>3. Parsed(o, i + 1, [at EXCEPT !.e.step = "BODY"])
  <2>1. Onward(s, e)
    BY <1>1 DEF Onward, EnvOK, EnvFields, Steps
  <2>2. [at EXCEPT !.e.step = "BODY"] = [s EXCEPT !.p = q, !.e = e]
    BY <1>1
  <2>3. Parsed(o, i + 1, [s EXCEPT !.p = q, !.e = e])
    <3> HIDE DEF e
    <3> QED BY <2>1, OnwardParsed
  <2> QED BY <2>2, <2>3, Zenon
<1>4. Parsed(o, i + 1, [at EXCEPT !.e.chunk_end = q, !.e.step = "CHUNKED_SIZE"])
  <2>1. Onward(s, c)
    BY <1>1 DEF Onward, EnvOK, EnvFields, Steps
  <2>2. [at EXCEPT !.e.chunk_end = q, !.e.step = "CHUNKED_SIZE"] = [s EXCEPT !.p = q, !.e = c]
    BY <1>1
  <2>3. Parsed(o, i + 1, [s EXCEPT !.p = q, !.e = c])
    <3> HIDE DEF c
    <3> QED BY <2>1, OnwardParsed
  <2> QED BY <2>2, <2>3, Zenon
<1> QED BY <1>2, <1>3, <1>4 DEF GoParsingBody

LEMMA FieldParsed ==
  ASSUME NEW o, NEW i, NEW s, Going(o, i, s)
  PROVE  Parsed(o, i + 1, NAME0(s))
<1> DEFINE q == Blanks(s)
<1>1. q \in s.p .. Fill(s) /\ q \in Nat
  BY Place, BlanksIn
<1> HIDE DEF q
<1>2. CASE q = Fill(s)
  <2>1. Parsed(o, i + 1, More(s, q))
    BY <1>1, <1>2, Place, MoreParsed DEF Going
  <2> QED BY <1>2, <2>1 DEF NAME0, q
<1>3. CASE q # Fill(s)
  <2>1. q + 1 \in i + 1 .. Fill(s)
    BY <1>1, <1>3, Place
  <2>2. Parsed(o, i + 1, GoParsingBody(s, q + 1))
    BY <2>1, BodyBegun
  <2>3. ASSUME q + 1 # Fill(s) PROVE Parsed(o, i + 1, GoParsingBody(s, q + 2))
    <3>1. q + 2 \in i + 1 .. Fill(s)
      BY <1>1, <2>1, <2>3, Place
    <3> QED BY <3>1, BodyBegun
  <2>4. Parsed(o, i + 1, [s EXCEPT !.ret = "more"])
    BY DEF Going, Parsed, Same
  <2>5. Parsed(o, i + 1, [s EXCEPT !.p = q + 1, !.e.offset = q, !.e.step = "NAME"])
    <3> DEFINE e == [s.e EXCEPT !.offset = q, !.step = "NAME"]
    <3>1. Onward(s, e)
      BY <1>1, Named DEF Steps
    <3>2. [s EXCEPT !.p = q + 1, !.e.offset = q, !.e.step = "NAME"] = [s EXCEPT !.p = q + 1, !.e = e]
      BY DEF Going, Same
    <3>3. Parsed(o, i + 1, [s EXCEPT !.p = q + 1, !.e = e])
      <4> HIDE DEF e
      <4> QED BY <2>1, <3>1, OnwardParsed
    <3> QED BY <3>2, <3>3, Zenon
  <2>6. NAME0(s) \in {GoParsingBody(s, q + 1), [s EXCEPT !.ret = "more"],
                      [s EXCEPT !.p = q + 1, !.e.offset = q, !.e.step = "NAME"]}
        \/ (q + 1 # Fill(s) /\ NAME0(s) = GoParsingBody(s, q + 2))
    BY <1>3 DEF NAME0, q
  <2> QED BY <2>2, <2>3, <2>4, <2>5, <2>6
<1> QED BY <1>2, <1>3

LEMMA WholeBodyParsed ==
  ASSUME NEW o, NEW i, NEW s, Going(o, i, s)
  PROVE  Parsed(o, i + 1, BODY(s))
<1> DEFINE end == s.e.body + s.e.content_length
<1>1. end \in Nat /\ Fill(s) \in 0 .. Fill(s)
  BY Place DEF EnvOK
<1>2. CASE Fill(s) >= end
  <2>1. end \in 0 .. Fill(s)
    BY <1>1, <1>2, Place
  <2>2. Parsed(o, i + 1, DoneReforming(s, end))
    <3> HIDE DEF end
    <3> QED BY <2>1, Place, DoneParsed
  <2> QED BY <1>2, <2>2 DEF BODY
<1>3. CASE ~(Fill(s) >= end)
  BY <1>1, <1>3, Place, MoreParsed DEF BODY, Going
<1> QED BY <1>2, <1>3

LEMMA ChunkSizeParsed ==
  ASSUME NEW o, NEW i, NEW s, Going(o, i, s), s.e.step = "CHUNKED_SIZE"
  PROVE  Parsed(o, i + 1, CHUNKED_SIZE(s))
<1> DEFINE q == Scan(s, {"lf"})
           size == Number(s.e.chunk, SubSeq(s.b.data, s.p + 1, q))
           e == [s.e EXCEPT !.chunk = size]
           w == [s EXCEPT !.e.chunk = size]
           t == [s EXCEPT !.p = q + 1, !.e.chunk = size]
<1>1. q \in s.p .. Fill(s) /\ q \in Nat
  BY Place, ScanIn
<1> HIDE DEF q
<1>2. size \in Nat
  <2>1. Len(SubSeq(s.b.data, s.p + 1, q)) \in Nat
    BY <1>1, Place, Part, SeqLen
  <2> QED BY <2>1, Place, NumberType DEF EnvOK
<1> HIDE DEF size
<1>3. EnvOK(e) /\ e.req = s.e.req /\ e.rsp = s.e.rsp /\ e.step = "CHUNKED_SIZE"
  BY <1>2, Place DEF EnvOK, EnvFields
<1>4. Same(o, w) /\ w.e.step = "CHUNKED_SIZE" /\ Fill(w) = Fill(s)
  <2>1. DOMAIN w = {"e", "b", "p", "ret"} /\ w.e = e /\ w.b = s.b
    BY DEF Going, Same
  <2> HIDE DEF w, e
  <2> QED BY <1>3, <2>1 DEF Going, Same, Fill
<1>5. Same(o, t) /\ Fill(t) = Fill(s)
  <2>1. DOMAIN t = {"e", "b", "p", "ret"} /\ t.e = e /\ t.b = s.b
    BY DEF Going, Same
  <2> HIDE DEF t, e
  <2> QED BY <1>3, <2>1 DEF Going, Same, Fill
<1>6. CASE q = Fill(s)
  <2>1. Parsed(o, i + 1, More(w, q))
    <3>1. q \in 0 .. Fill(w)
      BY <1>1, <1>4, Place
    <3> HIDE DEF w
    <3> QED BY <1>4, <3>1, MoreParsed
  <2> QED BY <1>6, <2>1 DEF CHUNKED_SIZE, q, size
<1>7. CASE q # Fill(s)
  <2>1. q + 1 \in i + 1 .. Len(o.b.data) /\ q + 1 \in 0 .. Fill(t) /\ q + 1 \in Nat
    BY <1>1, <1>5, <1>7, Place
  <2>2. ASSUME size > 0
        PROVE  Parsed(o, i + 1, [t EXCEPT !.e.chunk_body = q + 1, !.e.step = "CHUNKED_DATA"])
    <3> DEFINE d == [e EXCEPT !.chunk_body = q + 1, !.step = "CHUNKED_DATA"]
               u == [t EXCEPT !.e.chunk_body = q + 1, !.e.step = "CHUNKED_DATA"]
    <3>1. EnvOK(d) /\ d.req = s.e.req /\ d.rsp = s.e.rsp /\ d.chunk_body = q + 1
          /\ d.step = "CHUNKED_DATA"
      BY <1>2, <1>3, <2>1, <2>2 DEF EnvOK, EnvFields, Steps
    <3>2. /\ DOMAIN u = {"e", "b", "p", "ret"} /\ u.e = d /\ u.b = s.b
          /\ u.p = q + 1 /\ u.ret = "run"
      BY DEF Going, Same
    <3>3. Parsed(o, i + 1, u)
      <4> HIDE DEF u, d
      <4>1. Same(o, u)
        BY <3>1, <3>2 DEF Going, Same
      <4> QED BY <2>1, <3>1, <3>2, <4>1 DEF Parsed, Goes
    <3> QED BY <3>3
  <2>3. Parsed(o, i + 1, [t EXCEPT !.e.step = "NAME0"])
    <3> DEFINE d == [e EXCEPT !.step = "NAME0"]
               u == [t EXCEPT !.e.step = "NAME0"]
    <3>1. EnvOK(d) /\ d.req = s.e.req /\ d.rsp = s.e.rsp /\ d.step = "NAME0"
      BY <1>3 DEF EnvOK, EnvFields, Steps
    <3>2. /\ DOMAIN u = {"e", "b", "p", "ret"} /\ u.e = d /\ u.b = s.b
          /\ u.p = q + 1 /\ u.ret = "run"
      BY DEF Going, Same
    <3>3. Parsed(o, i + 1, u)
      <4> HIDE DEF u, d
      <4>1. Same(o, u)
        BY <3>1, <3>2 DEF Going, Same
      <4> QED BY <2>1, <3>1, <3>2, <4>1 DEF Parsed, Goes
    <3> QED BY <3>3
  <2>4. Parsed(o, i + 1, DoneReforming(t, q + 1))
    <3> HIDE DEF t
    <3> QED BY <1>5, <2>1, DoneParsed
  <2>5. CHUNKED_SIZE(s) = IF size > 0
          THEN [t EXCEPT !.e.chunk_body = q + 1, !.e.step = "CHUNKED_DATA"]
          ELSE IF s.e.trailer # <<>> THEN [t EXCEPT !.e.step = "NAME0"]
          ELSE DoneReforming(t, q + 1)
    BY <1>7 DEF CHUNKED_SIZE, q, size
  <2> HIDE DEF t
  <2> QED BY <2>2, <2>3, <2>4, <2>5
<1> QED BY <1>6, <1>7

LEMMA ChunkParsed ==
  ASSUME NEW o, NEW i, NEW s, Going(o, i, s), s.e.step = "CHUNKED_DATA"
  PROVE  Parsed(o, i + 1, CHUNKED_DATA(s))
<1> DEFINE n == s.e.chunk
           q == s.e.chunk_body + n
           newline == IF At(s, q) = "cr" /\ At(s, q + 1) = "lf" THEN 2
                      ELSE IF At(s, q) = "lf" THEN 1 ELSE 0
           moved == [j \in 1 .. Fill(s) |->
                       IF j - s.e.chunk_end \in 1 .. n
                       THEN s.b.data[j - s.e.chunk_end + s.e.chunk_body] ELSE s.b.data[j]]
           t == [s EXCEPT !.p = q + newline, !.b.data = moved,
                          !.e.chunk_end = @ + n, !.e.content_length = @ + n,
                          !.e.chunk = 0, !.e.step = "CHUNKED_SIZE"]
           e == [s.e EXCEPT !.chunk_end = @ + n, !.content_length = @ + n,
                            !.chunk = 0, !.step = "CHUNKED_SIZE"]
<1>1. EnvOK(s.e) /\ n >= 1 /\ n \in Nat /\ s.e.chunk_body \in Nat
  BY Place DEF EnvOK
<1>2. CASE Fill(s) >= q + 2
  <2>1. newline \in 0 .. 2
    OBVIOUS
  <2>2. q + newline \in i + 1 .. Len(o.b.data)
    <3> HIDE DEF newline
    <3>1. i >= 1 => s.p = s.e.chunk_body
      BY DEF Going, Goes
    <3>2. i \in Nat /\ s.p >= i /\ s.p \in Int /\ Fill(s) \in Nat /\ Fill(s) = Len(o.b.data)
      BY Place
    <3>3. q \in Nat /\ q >= i + 1
      BY <1>1, <3>1, <3>2
    <3> HIDE DEF q
    <3> QED BY <1>2, <2>1, <3>2, <3>3
  <2>3. IsSeq(moved) /\ Len(moved) = Fill(s)
    <3> DEFINE S == {moved[j] : j \in 1 .. Fill(s)}
    <3>1. moved \in [1 .. Fill(s) -> S]
      OBVIOUS
    <3>2. Fill(s) \in Nat
      BY Place
    <3> HIDE DEF moved, S
    <3>3. moved \in Seq(S) /\ Len(moved) = Fill(s)
      BY <3>1, <3>2
    <3> QED BY <3>3 DEF IsSeq
  <2>4. EnvOK(e) /\ e.req = s.e.req /\ e.rsp = s.e.rsp /\ e.step = "CHUNKED_SIZE"
    BY <1>1 DEF EnvOK, EnvFields, Steps
  <2>5. /\ DOMAIN t = {"e", "b", "p", "ret"} /\ t.e = e /\ t.ret = "run" /\ t.p = q + newline
        /\ t.b = [s.b EXCEPT !.data = moved]
    <3> HIDE DEF moved, newline
    <3> QED BY DEF Going, Same
  <2>6. /\ Data(t.b) /\ Len(t.b.data) = Len(o.b.data) /\ t.b.size = o.b.size
        /\ t.b.process \in 0 .. Len(o.b.data)
    <3> HIDE DEF moved, t
    <3> QED BY <2>3, <2>5, Place DEF Going, Same, Data
  <2>7. CHUNKED_DATA(s) = t
    BY <1>2 DEF CHUNKED_DATA
  <2> HIDE DEF t, e, newline, moved
  <2>8. Same(o, t)
    BY <2>4, <2>5, <2>6 DEF Going, Same
  <2> QED BY <2>2, <2>4, <2>5, <2>7, <2>8 DEF Parsed, Goes
<1>3. CASE ~(Fill(s) >= q + 2)
  <2>1. Parsed(o, i + 1, More(s, Fill(s)))
    BY Place, MoreParsed DEF Going
  <2> QED BY <1>3, <2>1 DEF CHUNKED_DATA
<1> QED BY <1>2, <1>3

(* Whatever a turn finds, it consumes a token or is the last.              *)
LEMMA TurnParsed ==
  ASSUME NEW o, NEW i \in Nat, NEW s, Parsed(o, i, s)
  PROVE  Parsed(o, i + 1, Turn(s))
<1>1. CASE s.ret # "run"
  BY <1>1 DEF Turn, Parsed
<1>2. CASE s.ret = "run" /\ s.e.step = "DONE"
  <2>1. ParseStep(s) = [s EXCEPT !.ret = "done"]
    BY <1>2 DEF ParseStep
  <2> QED BY <1>2, <2>1 DEF Turn, Parsed, Same
<1>3. CASE s.ret = "run" /\ s.e.step # "DONE"
  <2>1. Going(o, i, s) /\ s.e.step \in Steps
    BY <1>3 DEF Parsed, Going, Goes, Same, EnvOK
  <2>2. {"METHOD", "URI", "VERSION", "RSPVERSION", "STATUSCODE", "REASONPHRASE", "VALUE"}
          \subseteq Steps \ {"CHUNKED_DATA"}
    BY DEF Steps
  <2>3. /\ Parsed(o, i + 1, METHOD0(s)) /\ Parsed(o, i + 1, URI0(s)) /\ Parsed(o, i + 1, VERSION0(s))
        /\ Parsed(o, i + 1, RSPVERSION0(s)) /\ Parsed(o, i + 1, STATUSCODE0(s))
        /\ Parsed(o, i + 1, REASONPHRASE0(s)) /\ Parsed(o, i + 1, VALUE0(s))
    BY <2>1, <2>2, BeforeParsed
       DEF METHOD0, URI0, VERSION0, RSPVERSION0, STATUSCODE0, REASONPHRASE0, VALUE0
  <2>4. s.e.step = "CHUNKED_SIZE" => Parsed(o, i + 1, CHUNKED_SIZE(s))
    BY <2>1, ChunkSizeParsed
  <2>5. s.e.step = "CHUNKED_DATA" => Parsed(o, i + 1, CHUNKED_DATA(s))
    BY <2>1, ChunkParsed
  <2>6. /\ Parsed(o, i + 1, NAME0(s)) /\ Parsed(o, i + 1, NAME(s))
        /\ Parsed(o, i + 1, VALUE(s)) /\ Parsed(o, i + 1, BODY(s))
    BY <2>1, FieldParsed, NameParsed, ValueParsed, WholeBodyParsed
  <2>7. Parsed(o, i + 1, ParseStep(s))
    BY <2>1, <2>3, <2>4, <2>5, <2>6, StartParsed DEF ParseStep, Steps
  <2> QED BY <1>3, <2>7 DEF Turn
<1> QED BY <1>1, <1>2, <1>3

(* The loop comes to an end.                                               *)
LEMMA LoopParsed ==
  ASSUME NEW s, Parsed(s, 0, s)
  PROVE  Parsed(s, Fill(s) + 1, Parse(s)) /\ Parse(s).ret # "run"
<1> DEFINE n == Fill(s) + 1
           f == CHOOSE g : Runs(s, n, g)
<1>1. Fill(s) \in Nat /\ n \in Nat
  BY FillIs DEF Parsed
<1>2. f[0] = s /\ \A i \in 1 .. n : f[i] = Turn(f[i - 1])
  <2>1. Runs(s, n, f)
    <3> HIDE DEF n
    <3> QED BY <1>1, RunExists
  <2> HIDE DEF f, n
  <2> QED BY <1>1, <2>1, Running
<1>3. Parse(s) = f[n]
  BY ParseIs
<1> HIDE DEF f
<1> DEFINE T == {i \in 0 .. n : ~Parsed(s, i, f[i])}
<1>4. ASSUME T # {} PROVE FALSE
  <2>1. PICK m \in T : \A k \in T : m <= k
    <3>1. T \subseteq Nat
      BY <1>1
    <3> HIDE DEF T
    <3> QED BY <1>4, <3>1, Least
  <2>2. m # 0 /\ m \in 1 .. n /\ m - 1 \in 0 .. n /\ m - 1 \in Nat /\ m - 1 + 1 = m
    BY <1>1, <1>2, <2>1
  <2>3. Parsed(s, m - 1, f[m - 1])
    BY <2>1, <2>2
  <2>4. Parsed(s, m - 1 + 1, Turn(f[m - 1]))
    BY <2>2, <2>3, TurnParsed
  <2> QED BY <1>2, <2>1, <2>2, <2>4
<1>5. Parsed(s, n, f[n])
  BY <1>1, <1>4
<1>6. f[n].ret # "run"
  BY <1>1, <1>5 DEF Parsed, Goes, Fill
<1> QED BY <1>3, <1>5, <1>6

(* What ParseHttpBuffer promises whoever calls it again when more bytes     *)
(* have come: it returns, having touched neither the other buffer nor what *)
(* its own can hold, with a place in it; and it waits in a step it can go  *)
(* on with.                                                                *)
Returned(e, b, s) ==
  /\ s.ret \in {"more", "done", "invalid", "lost"}
  /\ EnvOK(s.e) /\ s.e.req = e.req /\ s.e.rsp = e.rsp
  /\ Data(s.b) /\ Len(s.b.data) = Len(b.data) /\ s.b.size = b.size
  /\ s.b.process \in 0 .. Len(b.data)
  /\ s.ret = "more" => s.e.step # "DONE"

THEOREM ParseReturns ==
  ASSUME NEW e, EnvOK(e), e.step # "DONE",
         NEW b, Data(b), b.process \in 0 .. Len(b.data)
  PROVE  Returned(e, b, ParseHttpBuffer(e, b))
<1> DEFINE begun == IF e.step # "BEGIN" THEN e
                    ELSE [e EXCEPT !.step = First(e.role), !.body = 0, !.content_length = 0]
           s == [e |-> begun, b |-> b, p |-> b.process, ret |-> "run"]
<1>1. CASE e.moved
  BY <1>1 DEF ParseHttpBuffer, Returned
<1>2. CASE ~e.moved
  <2>1. EnvOK(begun) /\ begun.req = e.req /\ begun.rsp = e.rsp
    BY DEF EnvOK, EnvFields, Steps, First
  <2>2. begun.step \in Steps
    BY DEF EnvOK, EnvFields, Steps, First
  <2>3. begun.step # "BEGIN"
    BY <2>2 DEF Steps
  <2>4. DOMAIN s = {"e", "b", "p", "ret"} /\ s.e = begun /\ s.b = b /\ s.p = b.process /\ s.ret = "run"
    OBVIOUS
  <2>5. ParseHttpBuffer(e, b) = Parse(s)
    BY <1>2 DEF ParseHttpBuffer
  <2> HIDE DEF s, begun
  <2>6. Parsed(s, 0, s)
    BY <2>1, <2>3, <2>4 DEF Parsed, Same, Goes
  <2>7. Parsed(s, Fill(s) + 1, Parse(s)) /\ Parse(s).ret # "run"
    BY <2>6, LoopParsed
  <2>8. Returned(e, b, Parse(s))
    BY <2>1, <2>4, <2>7 DEF Parsed, Same, Returned
  <2> QED BY <2>5, <2>8
<1> QED BY <1>1, <1>2

-----------------------------------------------------------------------------
(* What is written into a buffer is a sequence.                            *)
Flat(seqs, n, f) == f = [i \in 1 .. n |-> IF i = 1 THEN seqs[i] ELSE f[i - 1] \o seqs[i]]

LEMMA FlatExists ==
  ASSUME NEW seqs, NEW n \in Nat
  PROVE  \E f : Flat(seqs, n, f)
<1> DEFINE T == {k \in 0 .. n : ~ \E f : Flat(seqs, k, f)}
<1> SUFFICES ASSUME T # {} PROVE FALSE
  OBVIOUS
<1>1. PICK m \in T : \A k \in T : m <= k
  <2>1. T \subseteq Nat
    OBVIOUS
  <2> HIDE DEF T
  <2> QED BY <2>1, Least
<1>2. m # 0
  <2>1. Flat(seqs, 0, [i \in 1 .. 0 |-> seqs])
    BY DEF Flat
  <2> QED BY <2>1
<1>3. PICK f : Flat(seqs, m - 1, f)
  BY <1>1, <1>2
<1> DEFINE g == [i \in 1 .. m |-> IF i = 1 THEN seqs[i] ELSE f[i - 1] \o seqs[i]]
<1>4. ASSUME NEW i \in 1 .. m - 1 PROVE g[i] = f[i]
  <2>1. f[i] = IF i = 1 THEN seqs[i] ELSE f[i - 1] \o seqs[i]
    BY <1>3 DEF Flat
  <2>2. i \in 1 .. m
    BY <1>1
  <2>3. g[i] = IF i = 1 THEN seqs[i] ELSE f[i - 1] \o seqs[i]
    BY <2>2
  <2> QED BY <2>1, <2>3
<1>5. Flat(seqs, m, g)
  <2>1. ASSUME NEW i \in 1 .. m, i # 1 PROVE g[i - 1] = f[i - 1]
    <3>1. i - 1 \in 1 .. m - 1
      BY <1>1, <2>1
    <3> QED BY <1>4, <3>1
  <2> QED BY <2>1 DEF Flat
<1> QED BY <1>1, <1>5

LEMMA FlattenIs ==
  ASSUME NEW n \in Nat, NEW seqs, IsSeq(seqs), Len(seqs) = n,
         \A i \in 1 .. n : IsSeq(seqs[i])
  PROVE  IsSeq(FlattenSeq(seqs))
<1>1. CASE n = 0
  BY <1>1 DEF FlattenSeq
<1>2. CASE n # 0
  <2> DEFINE f == CHOOSE g : Flat(seqs, n, g)
  <2>1. FlattenSeq(seqs) = f[n]
    BY <1>2 DEF FlattenSeq, Flat
  <2>2. Flat(seqs, n, f)
    BY FlatExists
  <2> HIDE DEF f
  <2>3. f[1] = seqs[1] /\ \A i \in 2 .. n : f[i] = f[i - 1] \o seqs[i]
    <3>1. f[1] = seqs[1]
      BY <1>2, <2>2 DEF Flat
    <3>2. ASSUME NEW i \in 2 .. n PROVE f[i] = f[i - 1] \o seqs[i]
      <4>1. i \in 1 .. n /\ i # 1
        OBVIOUS
      <4> QED BY <2>2, <4>1 DEF Flat
    <3> QED BY <3>1, <3>2
  <2> DEFINE T == {k \in 1 .. n : ~IsSeq(f[k])}
  <2>4. ASSUME T # {} PROVE FALSE
    <3>1. PICK m \in T : \A k \in T : m <= k
      <4>1. T \subseteq Nat
        OBVIOUS
      <4> HIDE DEF T
      <4> QED BY <2>4, <4>1, Least
    <3>2. m # 1 /\ m \in 2 .. n /\ m - 1 \in 1 .. n
      BY <2>3, <3>1
    <3>3. IsSeq(f[m - 1])
      BY <3>1, <3>2
    <3>4. IsSeq(f[m])
      BY <2>3, <3>2, <3>3, Joined
    <3> QED BY <3>1, <3>4
  <2> QED BY <1>2, <2>1, <2>4
<1> QED BY <1>1, <1>2

LEMMA Fields ==
  ASSUME NEW name, NEW v, IsSeq(v), NEW eol, eol \in {CrLf, Lf}
  PROVE  IsSeq(Field(name, v, eol))
<1>1. IsSeq(<<name, ":", "sp">>) /\ IsSeq(eol)
  BY Tuples DEF CrLf, Lf
<1>2. IsSeq(<<name, ":", "sp">> \o v)
  BY <1>1, Joined
<1>3. IsSeq((<<name, ":", "sp">> \o v) \o eol)
  BY <1>1, <1>2, Joined
<1> QED BY <1>3 DEF Field

LEMMA Lengths == ASSUME NEW v PROVE IsSeq(Length(v))
<1>1. IsSeq(Digit(Len(v)))
  BY Tuples DEF Digit
<1> QED BY <1>1, Fields DEF Length

LEMMA Bodies ==
  ASSUME NEW m, m.form \in {"none", "length", "gzip", "chunked"}, m.body \in Seq(STRING)
  PROVE  IsSeq(Content(m).head) /\ IsSeq(Content(m).body)
<1>1. IsSeq(m.body) /\ Len(m.body) \in Nat
  BY DEF IsSeq
<1>3. CASE m.form = "none"
  BY <1>3, Tuples DEF Content
<1>4. CASE m.form = "length"
  <2>1. Content(m) = [head |-> Length(m.body), body |-> m.body]
    BY <1>4 DEF Content
  <2> QED BY <1>1, <2>1, Lengths
<1>5. CASE m.form = "gzip"
  <2>1. Content(m) = [head |-> Field("Content-Encoding", <<"gzip">>, CrLf) \o Length(<<"zip">>),
                      body |-> <<"zip">>]
    BY <1>5 DEF Content
  <2>2. IsSeq(Field("Content-Encoding", <<"gzip">>, CrLf))
    BY Tuples, Fields
  <2>3. IsSeq(Content(m).head)
    BY <2>1, <2>2, Lengths, Joined
  <2>4. Content(m).body = <<"zip">>
    BY <2>1
  <2>5. IsSeq(<<"zip">>)
    BY Tuples
  <2> QED BY <2>3, <2>4, <2>5
<1>6. CASE m.form = "chunked"
  <2> DEFINE chunk(i) == <<"d1", "lf", m.body[i]>> \o IF i = 1 THEN CrLf ELSE Lf
             chunks == [i \in 1 .. Len(m.body) |-> chunk(i)]
  <2>1. Content(m) = [head |-> Field("Transfer-Encoding", <<"chunked">>, Lf),
                      body |-> FlattenSeq(chunks) \o <<"d0", "lf", "lf">>]
    BY <1>6 DEF Content
  <2>2. \A i : IsSeq(chunk(i))
    BY Tuples, Joined DEF CrLf, Lf
  <2>3. IsSeq(chunks) /\ Len(chunks) = Len(m.body) /\ \A i \in 1 .. Len(m.body) : IsSeq(chunks[i])
    <3>1. \A i \in 1 .. Len(m.body) : chunks[i] = chunk(i)
      OBVIOUS
    <3> DEFINE S == {chunk(i) : i \in 1 .. Len(m.body)}
    <3>2. chunks \in [1 .. Len(m.body) -> S]
      OBVIOUS
    <3> HIDE DEF chunk, S
    <3>3. chunks \in Seq(S) /\ Len(chunks) = Len(m.body)
      <4> HIDE DEF chunks
      <4> QED BY <1>1, <3>2
    <3> QED BY <2>2, <3>1, <3>3 DEF IsSeq
  <2> HIDE DEF chunks
  <2>4. IsSeq(FlattenSeq(chunks) \o <<"d0", "lf", "lf">>)
    <3>1. IsSeq(FlattenSeq(chunks))
      BY <1>1, <2>3, FlattenIs
    <3>2. IsSeq(<<"d0", "lf", "lf">>)
      BY Tuples
    <3> QED BY <3>1, <3>2, Joined
  <2>5. IsSeq(Field("Transfer-Encoding", <<"chunked">>, Lf))
    BY Tuples, Fields
  <2> QED BY <2>1, <2>4, <2>5
<1> QED BY <1>3, <1>4, <1>5, <1>6

LEMMA WireIs ==
  ASSUME NEW c \in Conversations, NEW i \in 1 .. Len(c)
  PROVE  IsSeq(Wire(c[i]))
<1> DEFINE m == c[i]
           eol == IF m.form = "chunked" THEN Lf ELSE CrLf
           start == <<m.method, "sp", m.uri, "sp", "sp", m.version>>
           keep == IF m.keep = "" THEN <<>> ELSE Field("Connection", <<m.keep>>, eol)
<1>1. IsSeq(Content(m).head) /\ IsSeq(Content(m).body)
  <2>1. m.form \in {"none", "length", "gzip", "chunked"} /\ m.body \in Seq(STRING)
    BY HttpAssumption
  <2> HIDE DEF m
  <2> QED BY <2>1, Bodies
<1>2. IsSeq(start) /\ IsSeq(eol)
  BY Tuples DEF CrLf, Lf
<1>3. IsSeq(keep)
  BY Tuples, Fields
<1>4. Wire(m) = start \o eol \o keep \o Content(m).head \o eol \o Content(m).body
  BY DEF Wire
<1> HIDE DEF m, eol, start, keep
<1>5. IsSeq(start \o eol)
  BY <1>2, Joined
<1>6. IsSeq((start \o eol) \o keep)
  BY <1>3, <1>5, Joined
<1>7. IsSeq(((start \o eol) \o keep) \o Content(m).head)
  BY <1>1, <1>6, Joined
<1>8. IsSeq((((start \o eol) \o keep) \o Content(m).head) \o eol)
  BY <1>2, <1>7, Joined
<1>9. IsSeq(((((start \o eol) \o keep) \o Content(m).head) \o eol) \o Content(m).body)
  BY <1>1, <1>8, Joined
<1> QED BY <1>4, <1>9 DEF m

LEMMA StartLineIs == ASSUME NEW e, NEW code PROVE IsSeq(StartLine(e, code))
<1> DEFINE start == <<e.version, "sp", code, "sp", "reason">>
           keep == IF CheckHttpKeepAlive(e) THEN Field("Connection", <<"keep-alive">>, CrLf)
                   ELSE IF e.version = "HTTP/1.1" THEN Field("Connection", <<"close">>, CrLf)
                   ELSE <<>>
<1>1. IsSeq(start) /\ IsSeq(CrLf)
  BY Tuples DEF CrLf
<1>2. IsSeq(keep)
  BY Tuples, Fields
<1>3. StartLine(e, code) = (start \o CrLf) \o keep
  BY DEF StartLine
<1> HIDE DEF start, keep
<1>4. IsSeq(start \o CrLf)
  BY <1>1, Joined
<1> QED BY <1>2, <1>3, <1>4, Joined

LEMMA AnswerRestIs ==
  ASSUME NEW a, a.body \in Seq(STRING)
  PROVE  IsSeq(Field("Content-Type", <<"json">>, CrLf) \o Length(a.body) \o CrLf \o a.body)
<1>1. IsSeq(Field("Content-Type", <<"json">>, CrLf)) /\ IsSeq(CrLf) /\ IsSeq(a.body)
  <2>1. IsSeq(CrLf) /\ IsSeq(<<"json">>)
    BY Tuples DEF CrLf
  <2>2. IsSeq(a.body)
    BY DEF IsSeq
  <2> QED BY <2>1, <2>2, Fields
<1>2. IsSeq(Field("Content-Type", <<"json">>, CrLf) \o Length(a.body))
  BY <1>1, Lengths, Joined
<1>3. IsSeq((Field("Content-Type", <<"json">>, CrLf) \o Length(a.body)) \o CrLf)
  BY <1>1, <1>2, Joined
<1> QED BY <1>1, <1>3, Joined

-----------------------------------------------------------------------------
(* A buffer with room for what is in it, and what each operation makes of   *)
(* one.                                                                    *)
Roomy(b) ==
  /\ Data(b) /\ b.process \in Nat /\ b.size \in Nat \ {0}
  /\ Len(b.data) < b.size
Placed(b) == b.process <= Len(b.data)

LEMMA RoomyLen == ASSUME NEW b, Roomy(b) PROVE Len(b.data) \in Nat
  BY SeqLen DEF Roomy, Data

LEMMA InitRoomy ==
  ASSUME NEW size \in Nat \ {0}
  PROVE  Roomy(InitHttpBuffer(size)) /\ InitHttpBuffer(size).process = 0
<1> DEFINE c == InitHttpBuffer(size)
<1>1. DOMAIN c = {"data", "process", "size"} /\ c.data = <<>> /\ c.process = 0 /\ c.size = size
  BY DEF InitHttpBuffer
<1>2. IsSeq(<<>>) /\ Len(<<>>) = 0
  BY Tuples
<1> HIDE DEF c
<1>3. Roomy(c) /\ c.process = 0
  BY <1>1, <1>2 DEF Roomy, Data
<1> QED BY <1>3 DEF c

LEMMA StrcatfRoomy ==
  ASSUME NEW b, Roomy(b), NEW str, IsSeq(str)
  PROVE  /\ Roomy(StrcatfHttpBuffer(b, str))
         /\ StrcatfHttpBuffer(b, str).process = b.process
         /\ Len(StrcatfHttpBuffer(b, str).data) >= Len(b.data)
<1> DEFINE need == Len(b.data) + Len(str) + 1
           size == ReallocHttpBuffer(b, need)
           c == StrcatfHttpBuffer(b, str)
<1>1. Len(b.data) \in Nat /\ Len(str) \in Nat /\ need \in Nat /\ b.size \in Nat \ {0} /\ IsSeq(b.data)
  BY RoomyLen, SeqLen DEF Roomy, Data
<1>2. size \in Nat /\ size >= b.size /\ need <= size - 1
  <2> HIDE DEF need
  <2> QED BY <1>1, ReallocFits
<1>3. IsSeq(b.data \o str) /\ Len(b.data \o str) = Len(b.data) + Len(str)
  BY <1>1, Joined
<1>4. /\ DOMAIN c = {"data", "process", "size"} /\ c.data = b.data \o str
      /\ c.process = b.process /\ c.size = size
  BY DEF StrcatfHttpBuffer, Roomy, Data
<1> HIDE DEF c, size
<1>5. Roomy(c) /\ c.process = b.process /\ Len(c.data) >= Len(b.data)
  BY <1>1, <1>2, <1>3, <1>4 DEF Roomy, Data
<1> QED BY <1>5 DEF c

LEMMA StrcpyfRoomy ==
  ASSUME NEW b, Roomy(b), NEW str, IsSeq(str)
  PROVE  /\ Roomy(StrcpyfHttpBuffer(b, str))
         /\ StrcpyfHttpBuffer(b, str).process = b.process
<1> DEFINE need == Len(str) + 1
           size == ReallocHttpBuffer(b, need)
           c == StrcpyfHttpBuffer(b, str)
<1>1. Len(str) \in Nat /\ need \in Nat /\ b.size \in Nat \ {0}
  BY SeqLen DEF Roomy
<1>2. size \in Nat /\ size >= b.size /\ need <= size - 1
  <2> HIDE DEF need
  <2> QED BY <1>1, ReallocFits
<1>3. /\ DOMAIN c = {"data", "process", "size"} /\ c.data = str
      /\ c.process = b.process /\ c.size = size
  BY DEF StrcpyfHttpBuffer, Roomy, Data
<1> HIDE DEF c, size
<1>4. Roomy(c) /\ c.process = b.process
  BY <1>1, <1>2, <1>3 DEF Roomy, Data
<1> QED BY <1>4 DEF c

LEMMA ResetRoomy ==
  ASSUME NEW b, Roomy(b), NEW max \in Nat \ {0, 1}
  PROVE  Roomy(ResetHttpBuffer(b, max)) /\ ResetHttpBuffer(b, max).process = 0
<1>1. (IF b.size > max THEN max ELSE b.size) \in Nat \ {0}
  BY DEF Roomy
<1> QED BY <1>1, InitRoomy DEF ResetHttpBuffer

LEMMA ReformingRoomy ==
  ASSUME NEW b, Roomy(b), Unprocessed(b) > 0
  PROVE  Roomy(ReformingHttpBuffer(b)) /\ ReformingHttpBuffer(b).process = 0
<1> DEFINE rest == SubSeq(b.data, b.process + 1, Len(b.data))
           c == ReformingHttpBuffer(b)
<1>1. Len(b.data) \in Nat /\ b.process \in Nat /\ Len(b.data) > b.process
  BY RoomyLen DEF Roomy, Unprocessed
<1>2. IsSeq(rest) /\ Len(rest) = Len(b.data) - b.process
  BY <1>1, Part
<1>3. /\ DOMAIN c = {"data", "process", "size"} /\ c.data = rest
      /\ c.process = 0 /\ c.size = b.size
  BY DEF ReformingHttpBuffer, Roomy, Data
<1> HIDE DEF c, rest
<1>4. Roomy(c) /\ c.process = 0
  BY <1>1, <1>2, <1>3 DEF Roomy, Data
<1> QED BY <1>4 DEF c

LEMMA SendRoomy ==
  ASSUME NEW b, Roomy(b), NEW k \in Sendable(b)
  PROVE  /\ Roomy(SendHttpBuffer(b, k)) /\ Placed(SendHttpBuffer(b, k)) /\ IsSeq(Sent(b, k))
<1> DEFINE c == SendHttpBuffer(b, k)
<1>1. k \in Nat /\ k <= Len(b.data) - b.process
  BY DEF Sendable, Unprocessed
<1>2. Len(b.data) \in Nat /\ b.process \in Nat
  BY RoomyLen DEF Roomy
<1>3. /\ DOMAIN c = {"data", "process", "size"} /\ c.data = b.data
      /\ c.process = b.process + k /\ c.size = b.size
  BY DEF SendHttpBuffer, Roomy, Data
<1>4. IsSeq(Sent(b, k))
  BY <1>1, <1>2, Part DEF Sent
<1> HIDE DEF c
<1>5. Roomy(c) /\ Placed(c)
  BY <1>1, <1>2, <1>3 DEF Roomy, Data, Placed
<1> QED BY <1>4, <1>5 DEF c

LEMMA TerminateRoomy ==
  ASSUME NEW b, Roomy(b)
  PROVE  Roomy(Terminate(b))
<1>1. CASE Unprocessed(b) > 0
  <2> DEFINE i == b.process + 1
             new == [b.data EXCEPT ![i] = "nul"]
             c == [b EXCEPT !.data[i] = "nul"]
  <2>1. PICK S : b.data \in Seq(S)
    BY DEF Roomy, Data, IsSeq
  <2>2. b.data \in Seq(S \cup {"nul"})
    BY <2>1, SeqMonotonic
  <2>3. new \in Seq(S \cup {"nul"}) /\ Len(new) = Len(b.data)
    <3>1. i \in 1 .. Len(b.data)
      BY <1>1, RoomyLen DEF Roomy, Unprocessed
    <3> HIDE DEF i
    <3> QED BY <2>2, <3>1, ExceptSeq
  <2>4. /\ DOMAIN c = {"data", "process", "size"} /\ c.data = new
        /\ c.process = b.process /\ c.size = b.size
    BY DEF Roomy, Data
  <2>5. Terminate(b) = c
    BY <1>1 DEF Terminate
  <2> HIDE DEF c, new
  <2> QED BY <2>3, <2>4, <2>5 DEF Roomy, Data, IsSeq
<1>2. CASE ~(Unprocessed(b) > 0)
  BY <1>2 DEF Terminate
<1> QED BY <1>1, <1>2

-----------------------------------------------------------------------------
(* Either end, and what its operations make of it.                         *)
EnvRoomy(e) == EnvOK(e) /\ Roomy(e.req) /\ Roomy(e.rsp)
Fresh(e) == EnvRoomy(e) /\ e.step = "BEGIN" /\ e.req.process = 0 /\ e.rsp.process = 0

LEMMA CreateFresh == ASSUME NEW role PROVE Fresh(CreateHttpEnv(role))
<1> DEFINE e == CreateHttpEnv(role)
<1>1. EnvOK(e) /\ e.step = "BEGIN" /\ e.req = InitHttpBuffer(ReqSize) /\ e.rsp = InitHttpBuffer(RspSize)
  BY DEF CreateHttpEnv, EnvOK, EnvFields
<1>2. ReqSize \in Nat \ {0} /\ RspSize \in Nat \ {0}
  BY ParserAssumption
<1> HIDE DEF e
<1>3. Fresh(e)
  BY <1>1, <1>2, InitRoomy DEF Fresh, EnvRoomy
<1> QED BY <1>3 DEF e

LEMMA ResetFresh == ASSUME NEW e, EnvRoomy(e) PROVE Fresh(ResetHttpEnv(e))
<1> DEFINE f == CreateHttpEnv(e.role)
           reform(b) == e.reforming /\ Unprocessed(b) > 0
           q == IF reform(e.req) THEN ReformingHttpBuffer(e.req) ELSE ResetHttpBuffer(e.req, ReqMax)
           r == IF reform(e.rsp) /\ ~reform(e.req) THEN ReformingHttpBuffer(e.rsp)
                                                   ELSE ResetHttpBuffer(e.rsp, RspMax)
           m == e.reforming /\ ~reform(e.req) /\ ~reform(e.rsp)
           g == [f EXCEPT !.req = q, !.rsp = r, !.reforming = m]
<1>1. EnvOK(f) /\ f.step = "BEGIN" /\ f.reforming = FALSE
  BY DEF CreateHttpEnv, EnvOK, EnvFields
<1>2. ReqMax \in Nat \ {0, 1} /\ RspMax \in Nat \ {0, 1}
  BY ParserAssumption
<1>3. Roomy(q) /\ q.process = 0
  BY <1>2, ResetRoomy, ReformingRoomy DEF EnvRoomy
<1>4. Roomy(r) /\ r.process = 0
  BY <1>2, ResetRoomy, ReformingRoomy DEF EnvRoomy
<1>5. ResetHttpEnv(e) = g
  BY DEF ResetHttpEnv
<1> HIDE DEF f, q, r, m
<1>6. EnvOK(g) /\ g.step = "BEGIN" /\ g.req = q /\ g.rsp = r
  BY <1>1 DEF EnvOK, EnvFields
<1> HIDE DEF g
<1>7. Fresh(g)
  BY <1>3, <1>4, <1>6 DEF Fresh, EnvRoomy
<1> QED BY <1>5, <1>7

(* A buffer of an end is filled, or what is on its way there is.           *)
Filled(e, b, r) ==
  /\ EnvOK(r.e) /\ r.e.req = e.req /\ r.e.rsp = e.rsp /\ r.e.step = e.step
  /\ Roomy(r.b) /\ r.b.process = b.process /\ Len(r.b.data) >= Len(b.data)
  /\ IsSeq(r.rest)

LEMMA ReceiveFilled ==
  ASSUME NEW e, EnvOK(e), NEW b, Roomy(b), NEW stream, IsSeq(stream)
  PROVE  Filled(e, b, ReceiveHttpBuffer(e, b, stream))
<1> DEFINE need == Len(b.data) + 1
           size == ReallocHttpBuffer(b, need)
           room == size - 1 - Len(b.data)
           n == Min({room, Len(stream)})
           part == SubSeq(stream, 1, n)
           rest == SubSeq(stream, n + 1, Len(stream))
           f == [e EXCEPT !.moved = @ \/ (size # b.size /\ e.chunk_end > 0)]
           c == [b EXCEPT !.data = @ \o part, !.size = size]
           r == [e |-> f, b |-> c, rest |-> rest]
<1>1. Len(b.data) \in Nat /\ Len(stream) \in Nat /\ need \in Nat /\ IsSeq(b.data)
      /\ b.size \in Nat \ {0} /\ b.process \in Nat
  BY RoomyLen, SeqLen DEF Roomy, Data
<1>2. CASE b.process = 0 /\ b.data # <<>>
  <2>1. ReceiveHttpBuffer(e, b, stream) = [e |-> e, b |-> b, rest |-> stream]
    BY <1>2 DEF ReceiveHttpBuffer
  <2> QED BY <1>1, <2>1 DEF Filled
<1>3. CASE ~(b.process = 0 /\ b.data # <<>>)
  <2>1. size \in Nat /\ need <= size - 1
    <3> HIDE DEF need
    <3> QED BY <1>1, ReallocFits
  <2> HIDE DEF size
  <2>2. n \in Nat /\ n <= room /\ n <= Len(stream)
    <3>1. room \in Nat
      BY <1>1, <2>1
    <3> DEFINE S == {room, Len(stream)}
    <3>2. S \subseteq Nat /\ S # {}
      BY <1>1, <3>1
    <3>3. Min(S) \in S /\ \A x \in S : Min(S) <= x
      <4> HIDE DEF S
      <4> QED BY <3>2, LeastOf
    <3> QED BY <3>2, <3>3
  <2> HIDE DEF n
  <2>3. IsSeq(part) /\ Len(part) = n /\ IsSeq(rest)
    BY <1>1, <2>2, Part
  <2>4. EnvOK(f) /\ f.req = e.req /\ f.rsp = e.rsp /\ f.step = e.step
    BY DEF EnvOK, EnvFields
  <2> HIDE DEF part, rest
  <2>5. IsSeq(b.data \o part) /\ Len(b.data \o part) = Len(b.data) + n
    BY <1>1, <2>3, Joined
  <2>6. /\ DOMAIN c = {"data", "process", "size"} /\ c.data = b.data \o part
        /\ c.process = b.process /\ c.size = size
    BY DEF Roomy, Data
  <2>7. ReceiveHttpBuffer(e, b, stream) = r
    BY <1>3 DEF ReceiveHttpBuffer, size, n, part, rest
  <2> HIDE DEF c, f
  <2>8. Roomy(c) /\ c.process = b.process /\ Len(c.data) >= Len(b.data)
    BY <1>1, <2>1, <2>2, <2>5, <2>6 DEF Roomy, Data
  <2>9. Filled(e, b, r)
    BY <2>3, <2>4, <2>8 DEF Filled
  <2> QED BY <2>7, <2>9
<1> QED BY <1>2, <1>3

LEMMA UncompressRoomy ==
  ASSUME NEW e, EnvOK(e), NEW b, Roomy(b), NEW u, u = UncompressHttpBody(e, b)
  PROVE  EnvOK(u.e) /\ u.e.req = e.req /\ u.e.rsp = e.rsp /\ Roomy(u.b)
<1> DEFINE body == GetHttpBodyPtr(e, b)
           out == Inflate(body)
           start == SubSeq(b.data, 1, e.body)
           need == e.body + Len(out) + 1
           size == IF need > b.size THEN need ELSE b.size
           c == [b EXCEPT !.data = start \o out, !.size = size]
           f == [e EXCEPT !.content_length = Len(out)]
<1>1. CASE e.encoding # <<"gzip">>
  BY <1>1 DEF UncompressHttpBody
<1>2. CASE e.encoding = <<"gzip">>
  <2>1. e.body \in Nat /\ e.content_length \in Nat /\ b.size \in Nat \ {0}
    BY DEF EnvOK, Roomy
  <2>2. IsSeq(body)
    <3>1. e.body + 1 \in Int /\ e.body + e.content_length \in Int
      BY <2>1
    <3>2. IsSeq(SubSeq(b.data, e.body + 1, e.body + e.content_length))
      BY <3>1, Part
    <3>3. IsSeq(<<>>)
      BY Tuples
    <3> QED BY <3>2, <3>3 DEF GetHttpBodyPtr
  <2> HIDE DEF body
  <2>3. IsSeq(out) /\ Len(out) \in Nat
    <3>1. IsSeq(Zipped)
      BY Tuples DEF Zipped
    <3>2. IsSeq(out)
      BY <2>2, <3>1 DEF Inflate
    <3> QED BY <3>2, SeqLen
  <2> HIDE DEF out
  <2>4. IsSeq(start) /\ Len(start) = e.body
    BY <2>1, Part
  <2> HIDE DEF start
  <2>5. IsSeq(start \o out) /\ Len(start \o out) = e.body + Len(out)
    BY <2>3, <2>4, Joined
  <2>6. size \in Nat \ {0} /\ e.body + Len(out) < size
    BY <2>1, <2>3
  <2>7. u = [e |-> f, b |-> c]
    BY <1>2 DEF UncompressHttpBody, body, out, start
  <2>8. EnvOK(f) /\ f.req = e.req /\ f.rsp = e.rsp
    BY <2>3 DEF EnvOK, EnvFields
  <2> HIDE DEF size
  <2>9. /\ DOMAIN c = {"data", "process", "size"} /\ c.data = start \o out
        /\ c.process = b.process /\ c.size = size
    BY DEF Roomy, Data
  <2> HIDE DEF c, f
  <2>10. Roomy(c)
    BY <2>1, <2>5, <2>6, <2>9 DEF Roomy, Data
  <2> QED BY <2>7, <2>8, <2>10
<1> QED BY <1>1, <1>2

LEMMA RequestKept ==
  ASSUME NEW e, EnvOK(e), NEW b, NEW f, f = [e EXCEPT !.req = b]
  PROVE  EnvOK(f) /\ f.req = b /\ f.rsp = e.rsp /\ f.step = e.step
  BY DEF EnvOK, EnvFields

LEMMA ResponseKept ==
  ASSUME NEW e, EnvOK(e), NEW b, NEW f, f = [e EXCEPT !.rsp = b]
  PROVE  EnvOK(f) /\ f.rsp = b /\ f.req = e.req /\ f.step = e.step
  BY DEF EnvOK, EnvFields

(* What the buffers need of the two ends.  Whoever is to parse has not yet *)
(* found the end of a message, or nothing would say what comes next; and   *)
(* an answer is put together in a buffer of which nothing has been sent,   *)
(* for StrcpyfHttpBuffer leaves process_ptr where it was.                  *)
Waiting(e, b) == e.step # "DONE" /\ Placed(b)
HttpInv ==
  /\ conv \in Conversations
  /\ cpc \in {"idle", "send", "receive", "refused", "closed"}
  /\ spc \in {"receive", "process", "send", "refused", "closed"}
  /\ EnvRoomy(cli) /\ EnvRoomy(srv)
  /\ IsSeq(toSrv) /\ IsSeq(toCli) /\ IsSeq(got) /\ IsSeq(ans)
  /\ cpc \in {"send", "receive"} => Placed(cli.req) /\ Waiting(cli, cli.rsp)
  /\ spc = "receive" => Waiting(srv, srv.req)
  /\ spc \in {"receive", "process"} => srv.rsp.process = 0
  /\ spc = "send" => Placed(srv.rsp)

LEMMA Appended == ASSUME NEW q, IsSeq(q), NEW x PROVE IsSeq(Append(q, x))
<1>1. PICK S : q \in Seq(S)
  BY DEF IsSeq
<1>2. q \in Seq(S \cup {x})
  BY <1>1, SeqMonotonic
<1>3. Append(q, x) \in Seq(S \cup {x})
  BY <1>2
<1> QED BY <1>3 DEF IsSeq

LEMMA HttpInit == Init => HttpInv
<1> SUFFICES ASSUME Init PROVE HttpInv
  OBVIOUS
<1>1. Fresh(cli) /\ Fresh(srv) /\ IsSeq(<<>>)
  BY CreateFresh, Tuples DEF Init
<1>2. Len(srv.req.data) \in Nat
  BY <1>1, RoomyLen DEF Fresh, EnvRoomy
<1> QED BY <1>1, <1>2 DEF Init, HttpInv, Fresh, EnvRoomy, Waiting, Placed

LEMMA RequestKeeps == HttpInv /\ Request => HttpInv'
<1> SUFFICES ASSUME HttpInv, Request PROVE HttpInv'
  OBVIOUS
<1> DEFINE e == ResetHttpEnv(cli)
           str == Wire(conv[Asked])
           b == StrcatfHttpBuffer(e.req, str)
<1>1. Fresh(e)
  BY ResetFresh DEF HttpInv
<1>2. IsSeq(str)
  <2>1. Asked \in 1 .. Len(conv) /\ conv \in Conversations
    <3>1. Len(ans) \in Nat
      BY SeqLen DEF HttpInv
    <3>2. Asked <= Len(conv) /\ conv \in Conversations
      BY DEF Request, HttpInv
    <3>3. Len(conv) \in Nat
      BY <3>2, HttpAssumption
    <3> QED BY <3>1, <3>2, <3>3 DEF Asked
  <2> QED BY <2>1, WireIs
<1>3. cli' = [e EXCEPT !.req = b] /\ cpc' = "send"
      /\ UNCHANGED <<conv, srv, toSrv, toCli, spc, got, made, ans>>
  BY DEF Request
<1> HIDE DEF e, str
<1>4. Roomy(b) /\ b.process = 0 /\ Len(b.data) \in Nat
  BY <1>1, <1>2, StrcatfRoomy, RoomyLen DEF Fresh, EnvRoomy
<1> HIDE DEF b
<1>5. EnvOK(cli') /\ cli'.req = b /\ cli'.rsp = e.rsp /\ cli'.step = e.step
  BY <1>1, <1>3, RequestKept DEF Fresh, EnvRoomy
<1>6. Len(e.rsp.data) \in Nat
  BY <1>1, RoomyLen DEF Fresh, EnvRoomy
<1>7. EnvRoomy(cli') /\ Placed(cli'.req) /\ Waiting(cli', cli'.rsp)
  BY <1>1, <1>4, <1>5, <1>6 DEF Fresh, EnvRoomy, Waiting, Placed
<1> QED BY <1>3, <1>7 DEF HttpInv

LEMMA SendRequestKeeps == HttpInv /\ SendHttpRequest => HttpInv'
<1> SUFFICES ASSUME HttpInv, SendHttpRequest PROVE HttpInv'
  OBVIOUS
<1>1. PICK k \in Sendable(cli.req) :
        /\ toSrv' = toSrv \o Sent(cli.req, k)
        /\ cli' = [cli EXCEPT !.req = SendHttpBuffer(@, k)]
        /\ cpc' = IF k = Unprocessed(cli.req) THEN "receive" ELSE "send"
  BY DEF SendHttpRequest
<1> DEFINE b == SendHttpBuffer(cli.req, k)
<1>2. EnvRoomy(cli) /\ EnvOK(cli) /\ Waiting(cli, cli.rsp) /\ IsSeq(toSrv)
  BY DEF SendHttpRequest, HttpInv, EnvRoomy
<1>3. Roomy(b) /\ Placed(b) /\ IsSeq(Sent(cli.req, k))
  BY <1>2, SendRoomy DEF EnvRoomy
<1>4. IsSeq(toSrv')
  BY <1>1, <1>2, <1>3, Joined
<1>5. cli' = [cli EXCEPT !.req = b]
  BY <1>1
<1> HIDE DEF b
<1>6. EnvOK(cli') /\ cli'.req = b /\ cli'.rsp = cli.rsp /\ cli'.step = cli.step
  BY <1>2, <1>5, RequestKept
<1>7. EnvRoomy(cli') /\ Placed(cli'.req) /\ Waiting(cli', cli'.rsp)
  BY <1>2, <1>3, <1>6 DEF EnvRoomy, Waiting
<1>8. UNCHANGED <<conv, srv, toCli, spc, got, ans>>
  BY DEF SendHttpRequest
<1>9. cpc' \in {"idle", "send", "receive", "refused", "closed"}
  BY <1>1
<1> QED BY <1>4, <1>7, <1>8, <1>9 DEF HttpInv

LEMMA ProcessKeeps == HttpInv /\ Process => HttpInv'
<1> SUFFICES ASSUME HttpInv, Process PROVE HttpInv'
  OBVIOUS
<1>1. UNCHANGED <<conv, cli, toSrv, toCli, cpc, got, ans>> /\ spc = "process"
  BY DEF Process
<1>2. CASE spc' = "refused" /\ UNCHANGED srv
  BY <1>1, <1>2 DEF HttpInv
<1>3. CASE ~(spc' = "refused" /\ UNCHANGED srv)
  <2> DEFINE a == Answers[((Len(got) - 1) % Len(Answers)) + 1]
             b == FormatHttpResponse(srv, a)
             rest == Field("Content-Type", <<"json">>, CrLf) \o Length(a.body) \o CrLf \o a.body
             line == StartLine(srv, a.code)
  <2>1. srv' = [srv EXCEPT !.rsp = b, !.statuscode = a.code] /\ spc' = "send"
    BY <1>3 DEF Process
  <2>2. a.body \in Seq(STRING)
    <3>1. Len(got) \in Nat
      BY SeqLen DEF HttpInv
    <3>2. ((Len(got) - 1) % Len(Answers)) + 1 \in 1 .. Len(Answers)
      BY <3>1, HttpAssumption
    <3> QED BY <3>2, HttpAssumption
  <2> HIDE DEF a
  <2>3. IsSeq(rest) /\ IsSeq(line)
    BY <2>2, AnswerRestIs, StartLineIs
  <2>4. b = StrcatfHttpBuffer(StrcpyfHttpBuffer(srv.rsp, line), rest)
    BY DEF FormatHttpResponse
  <2> HIDE DEF rest, line, b
  <2>5. EnvOK(srv) /\ Roomy(srv.req) /\ Roomy(srv.rsp) /\ srv.rsp.process = 0
    BY <1>1 DEF HttpInv, EnvRoomy
  <2>6. Roomy(StrcpyfHttpBuffer(srv.rsp, line)) /\ StrcpyfHttpBuffer(srv.rsp, line).process = 0
    BY <2>3, <2>5, StrcpyfRoomy
  <2>7. Roomy(b) /\ b.process = 0 /\ Len(b.data) \in Nat
    BY <2>3, <2>4, <2>6, StrcatfRoomy, RoomyLen
  <2>8. EnvOK(srv') /\ srv'.req = srv.req /\ srv'.rsp = b
    BY <2>1, <2>5 DEF EnvOK, EnvFields
  <2>9. EnvRoomy(srv') /\ Placed(srv'.rsp)
    BY <2>5, <2>7, <2>8 DEF EnvRoomy, Placed
  <2> QED BY <1>1, <2>1, <2>9 DEF HttpInv
<1> QED BY <1>2, <1>3

LEMMA SendResponseKeeps == HttpInv /\ SendHttpResponseNonblock => HttpInv'
<1> SUFFICES ASSUME HttpInv, SendHttpResponseNonblock PROVE HttpInv'
  OBVIOUS
<1>1. PICK k \in Sendable(srv.rsp) :
        LET e == [srv EXCEPT !.rsp = SendHttpBuffer(@, k)]
            whole == k = Unprocessed(srv.rsp)
        IN  /\ toCli' = toCli \o Sent(srv.rsp, k)
            /\ srv' = IF whole THEN ResetHttpEnv(e) ELSE e
            /\ spc' = IF whole THEN "receive" ELSE "send"
  BY DEF SendHttpResponseNonblock
<1> DEFINE b == SendHttpBuffer(srv.rsp, k)
           e == [srv EXCEPT !.rsp = b]
<1>2. EnvRoomy(srv) /\ EnvOK(srv) /\ IsSeq(toCli)
  BY DEF HttpInv, EnvRoomy
<1>3. Roomy(b) /\ Placed(b) /\ IsSeq(Sent(srv.rsp, k))
  BY <1>2, SendRoomy DEF EnvRoomy
<1>4. IsSeq(toCli')
  BY <1>1, <1>2, <1>3, Joined
<1>5. srv' = IF k = Unprocessed(srv.rsp) THEN ResetHttpEnv(e) ELSE e
  BY <1>1
<1>6. spc' = IF k = Unprocessed(srv.rsp) THEN "receive" ELSE "send"
  BY <1>1
<1> HIDE DEF b
<1>7. EnvRoomy(e) /\ e.rsp = b
  BY <1>2, <1>3, ResponseKept DEF EnvRoomy
<1> HIDE DEF e
<1>8. UNCHANGED <<conv, cli, toSrv, cpc, got, ans>>
  BY DEF SendHttpResponseNonblock
<1>9. CASE k = Unprocessed(srv.rsp)
  <2>1. Fresh(srv') /\ spc' = "receive"
    BY <1>5, <1>6, <1>7, <1>9, ResetFresh
  <2>2. Len(srv'.req.data) \in Nat
    BY <2>1, RoomyLen DEF Fresh, EnvRoomy
  <2>3. EnvRoomy(srv') /\ Waiting(srv', srv'.req) /\ srv'.rsp.process = 0
    BY <2>1, <2>2 DEF Fresh, Waiting, Placed
  <2> QED BY <1>4, <1>8, <2>1, <2>3 DEF HttpInv
<1>10. CASE k # Unprocessed(srv.rsp)
  <2>1. srv' = e /\ spc' = "send"
    BY <1>5, <1>6, <1>10
  <2> QED BY <1>3, <1>4, <1>7, <1>8, <2>1 DEF HttpInv
<1> QED BY <1>9, <1>10

LEMMA ReceiveResponseKeeps == HttpInv /\ ReceiveHttpResponse => HttpInv'
<1> SUFFICES ASSUME HttpInv, ReceiveHttpResponse PROVE HttpInv'
  OBVIOUS
<1> DEFINE r == ReceiveHttpBuffer(cli, cli.rsp, toCli)
           s == ParseHttpBuffer(r.e, r.b)
           u == UncompressHttpBody(s.e, s.b)
<1>1. /\ toCli' = r.rest
      /\ \/ /\ s.ret = "more"
            /\ cli' = [s.e EXCEPT !.rsp = s.b]
            /\ UNCHANGED <<cpc, ans>>
         \/ /\ s.ret = "done"
            /\ cli' = [u.e EXCEPT !.rsp = u.b]
            /\ ans' = Append(ans, [code |-> u.e.statuscode, body |-> GetHttpBodyPtr(u.e, u.b)])
            /\ cpc' = "idle"
         \/ /\ s.ret \in {"invalid", "lost"}
            /\ cpc' = "refused"
            /\ UNCHANGED <<cli, ans>>
  BY DEF ReceiveHttpResponse
<1>2. UNCHANGED <<conv, srv, toSrv, spc, got>> /\ cpc = "receive"
  BY DEF ReceiveHttpResponse
<1>3. /\ EnvRoomy(cli) /\ EnvOK(cli) /\ Roomy(cli.rsp) /\ IsSeq(toCli) /\ IsSeq(ans)
      /\ cli.step # "DONE" /\ Placed(cli.rsp) /\ Placed(cli.req)
  BY <1>2 DEF HttpInv, EnvRoomy, Waiting
<1>4. Filled(cli, cli.rsp, r)
  <2> HIDE DEF r
  <2> QED BY <1>3, ReceiveFilled DEF r
<1> HIDE DEF r
<1>5. Returned(r.e, r.b, s)
  <2>1. r.b.process \in 0 .. Len(r.b.data)
    <3>1. Len(r.b.data) \in Nat /\ Len(cli.rsp.data) \in Nat
      BY <1>3, <1>4, RoomyLen DEF Filled
    <3> QED BY <1>3, <1>4, <3>1 DEF Filled, Placed, Roomy
  <2>2. EnvOK(r.e) /\ r.e.step # "DONE" /\ Data(r.b)
    BY <1>3, <1>4 DEF Filled, Roomy
  <2> QED BY <2>1, <2>2, ParseReturns
<1> HIDE DEF s
<1>6. EnvOK(s.e) /\ s.e.req = cli.req /\ Roomy(s.b) /\ Placed(s.b)
  <2>1. Len(s.b.data) \in Nat
    BY <1>5, SeqLen DEF Returned, Data
  <2> QED BY <1>4, <1>5, <2>1 DEF Filled, Returned, Roomy, Placed
<1>7. EnvOK(u.e) /\ u.e.req = cli.req /\ Roomy(u.b)
  <2> HIDE DEF u
  <2> QED BY <1>6, UncompressRoomy DEF u
<1> HIDE DEF u
<1>8. IsSeq(toCli')
  BY <1>1, <1>4 DEF Filled
<1>9. CASE s.ret = "more"
  <2>1. cli' = [s.e EXCEPT !.rsp = s.b] /\ UNCHANGED <<cpc, ans>>
    BY <1>1, <1>9
  <2>2. EnvOK(cli') /\ cli'.rsp = s.b /\ cli'.req = s.e.req /\ cli'.step = s.e.step
    BY <1>6, <2>1, ResponseKept
  <2>3. EnvRoomy(cli') /\ Placed(cli'.req) /\ Waiting(cli', cli'.rsp)
    BY <1>3, <1>5, <1>6, <1>9, <2>2 DEF EnvRoomy, Waiting, Returned
  <2> QED BY <1>2, <1>8, <2>1, <2>3 DEF HttpInv
<1>10. CASE s.ret = "done"
  <2>1. cli' = [u.e EXCEPT !.rsp = u.b] /\ cpc' = "idle"
    BY <1>1, <1>10
  <2>2. IsSeq(ans')
    <3>1. PICK x : ans' = Append(ans, x)
      BY <1>1, <1>10
    <3> QED BY <1>3, <3>1, Appended
  <2>3. EnvOK(cli') /\ cli'.rsp = u.b /\ cli'.req = u.e.req
    BY <1>7, <2>1, ResponseKept
  <2>4. EnvRoomy(cli')
    BY <1>3, <1>7, <2>3 DEF EnvRoomy
  <2> QED BY <1>2, <1>8, <2>1, <2>2, <2>4 DEF HttpInv
<1>11. CASE s.ret \in {"invalid", "lost"}
  <2>1. cpc' = "refused" /\ UNCHANGED <<cli, ans>>
    BY <1>1, <1>11
  <2> QED BY <1>2, <1>8, <2>1 DEF HttpInv
<1> QED BY <1>1, <1>9, <1>10, <1>11

LEMMA ReceiveRequestKeeps == HttpInv /\ ReceiveHttpRequestNonblock => HttpInv'
<1> SUFFICES ASSUME HttpInv, ReceiveHttpRequestNonblock PROVE HttpInv'
  OBVIOUS
<1> DEFINE r == ReceiveHttpBuffer(srv, srv.req, toSrv)
           s == ParseHttpBuffer(r.e, r.b)
           t == Terminate(s.b)
           u == UncompressHttpBody(s.e, t)
<1>1. /\ toSrv' = r.rest
      /\ \/ /\ s.ret = "more"
            /\ srv' = [s.e EXCEPT !.req = s.b]
            /\ UNCHANGED <<spc, got>>
         \/ /\ s.ret = "done"
            /\ srv' = [u.e EXCEPT !.req = u.b]
            /\ got' = Append(got, [method |-> u.e.method, uri |-> u.e.uri,
                                   body |-> GetHttpBodyPtr(u.e, u.b),
                                   keep |-> CheckHttpKeepAlive(u.e)])
            /\ spc' = "process"
         \/ /\ s.ret \in {"invalid", "lost"}
            /\ spc' = "refused"
            /\ UNCHANGED <<srv, got>>
  BY DEF ReceiveHttpRequestNonblock
<1>2. UNCHANGED <<conv, cli, toCli, cpc, ans>> /\ spc = "receive"
  BY DEF ReceiveHttpRequestNonblock
<1>3. /\ EnvRoomy(srv) /\ EnvOK(srv) /\ Roomy(srv.req) /\ IsSeq(toSrv) /\ IsSeq(got)
      /\ srv.step # "DONE" /\ Placed(srv.req) /\ srv.rsp.process = 0
  BY <1>2 DEF HttpInv, EnvRoomy, Waiting
<1>4. Filled(srv, srv.req, r)
  <2> HIDE DEF r
  <2> QED BY <1>3, ReceiveFilled DEF r
<1> HIDE DEF r
<1>5. Returned(r.e, r.b, s)
  <2>1. r.b.process \in 0 .. Len(r.b.data)
    <3>1. Len(r.b.data) \in Nat /\ Len(srv.req.data) \in Nat
      BY <1>3, <1>4, RoomyLen DEF Filled
    <3> QED BY <1>3, <1>4, <3>1 DEF Filled, Placed, Roomy
  <2>2. EnvOK(r.e) /\ r.e.step # "DONE" /\ Data(r.b)
    BY <1>3, <1>4 DEF Filled, Roomy
  <2> QED BY <2>1, <2>2, ParseReturns
<1> HIDE DEF s
<1>6. EnvOK(s.e) /\ s.e.rsp = srv.rsp /\ Roomy(s.b) /\ Placed(s.b)
  <2>1. Len(s.b.data) \in Nat
    BY <1>5, SeqLen DEF Returned, Data
  <2> QED BY <1>4, <1>5, <2>1 DEF Filled, Returned, Roomy, Placed
<1>7. Roomy(t)
  BY <1>6, TerminateRoomy
<1> HIDE DEF t
<1>8. EnvOK(u.e) /\ u.e.rsp = srv.rsp /\ Roomy(u.b)
  <2> HIDE DEF u
  <2> QED BY <1>6, <1>7, UncompressRoomy DEF u
<1> HIDE DEF u
<1>9. IsSeq(toSrv')
  BY <1>1, <1>4 DEF Filled
<1>10. CASE s.ret = "more"
  <2>1. srv' = [s.e EXCEPT !.req = s.b] /\ UNCHANGED <<spc, got>>
    BY <1>1, <1>10
  <2>2. EnvOK(srv') /\ srv'.req = s.b /\ srv'.rsp = s.e.rsp /\ srv'.step = s.e.step
    BY <1>6, <2>1, RequestKept
  <2>3. EnvRoomy(srv') /\ Waiting(srv', srv'.req) /\ srv'.rsp.process = 0
    BY <1>3, <1>5, <1>6, <1>10, <2>2 DEF EnvRoomy, Waiting, Returned
  <2> QED BY <1>2, <1>9, <2>1, <2>3 DEF HttpInv
<1>11. CASE s.ret = "done"
  <2>1. srv' = [u.e EXCEPT !.req = u.b] /\ spc' = "process"
    BY <1>1, <1>11
  <2>2. IsSeq(got')
    <3>1. PICK x : got' = Append(got, x)
      BY <1>1, <1>11
    <3> QED BY <1>3, <3>1, Appended
  <2>3. EnvOK(srv') /\ srv'.req = u.b /\ srv'.rsp = u.e.rsp
    BY <1>8, <2>1, RequestKept
  <2>4. EnvRoomy(srv') /\ srv'.rsp.process = 0
    BY <1>3, <1>8, <2>3 DEF EnvRoomy
  <2> QED BY <1>2, <1>9, <2>1, <2>2, <2>4 DEF HttpInv
<1>12. CASE s.ret \in {"invalid", "lost"}
  <2>1. spc' = "refused" /\ UNCHANGED <<srv, got>>
    BY <1>1, <1>12
  <2> QED BY <1>2, <1>9, <2>1 DEF HttpInv
<1> QED BY <1>1, <1>10, <1>11, <1>12

LEMMA HttpStep == HttpInv /\ [Next]_vars => HttpInv'
<1> SUFFICES ASSUME HttpInv, [Next]_vars PROVE HttpInv'
  OBVIOUS
<1>1. CASE Request
  BY <1>1, RequestKeeps
<1>2. CASE SendHttpRequest
  BY <1>2, SendRequestKeeps
<1>3. CASE ReceiveHttpResponse
  BY <1>3, ReceiveResponseKeeps
<1>4. CASE Disconnect
  BY <1>4 DEF Disconnect, HttpInv
<1>5. CASE TimeOut
  BY <1>5 DEF TimeOut, HttpInv
<1>6. CASE ReceiveHttpRequestNonblock
  BY <1>6, ReceiveRequestKeeps
<1>7. CASE Process
  BY <1>7, ProcessKeeps
<1>8. CASE SendHttpResponseNonblock
  BY <1>8, SendResponseKeeps
<1>9. CASE Close
  BY <1>9 DEF Close, HttpInv
<1>10. CASE UNCHANGED vars
  BY <1>10 DEF vars, HttpInv
<1> QED BY <1>1, <1>2, <1>3, <1>4, <1>5, <1>6, <1>7, <1>8, <1>9, <1>10 DEF Next, Client, Server

LEMMA HttpInvAlways == Spec => []HttpInv
  BY HttpInit, HttpStep, PTL DEF Spec

(* TypeOK holds of either end in every state, and of whoever sends or       *)
(* parses that its place is in what the buffer holds.                      *)
THEOREM HttpTypeCorrect == Spec => []TypeOK
<1>1. HttpInv => TypeOK
  BY DEF HttpInv, TypeOK, EnvRoomy, Roomy, Placed, Waiting
<1> QED BY <1>1, HttpInvAlways, PTL

(* InBuffer: whatever the messages, their segments and the sizes of the     *)
(* buffers, no buffer is ever written past its end: not by a read from the *)
(* socket, a line that is formatted into it, the inflated body, or the     *)
(* chunks that are moved together.                                         *)
THEOREM HttpInBuffer == Spec => []InBuffer
<1>1. HttpInv => InBuffer
  BY DEF HttpInv, InBuffer, EnvRoomy, Roomy
<1> QED BY <1>1, HttpInvAlways, PTL

(* Where the parts of a message stand in it.                               *)
Has(w, o, s) == Len(w) >= o + Len(s) /\ \A k \in 1 .. Len(s) : w[o + k] = s[k]

LEMMA AtJoin ==
  ASSUME NEW q, NEW r, IsSeq(q), IsSeq(r)
  PROVE  /\ \A k \in 1 .. Len(q) : (q \o r)[k] = q[k]
         /\ \A k \in 1 .. Len(r) : (q \o r)[Len(q) + k] = r[k]
<1>1. PICK S : q \in Seq(S)
  BY DEF IsSeq
<1>2. PICK T : r \in Seq(T)
  BY DEF IsSeq
<1>3. q \in Seq(S \cup T) /\ r \in Seq(S \cup T)
  BY <1>1, <1>2, SeqMonotonic
<1> QED BY <1>3, ConcatProperties

LEMMA HasParts ==
  ASSUME NEW w, NEW o \in Nat, IsSeq(w), NEW q, NEW r, IsSeq(q), IsSeq(r), Has(w, o, q \o r)
  PROVE  Has(w, o, q) /\ Has(w, o + Len(q), r)
<1>1. Len(q) \in Nat /\ Len(r) \in Nat /\ Len(w) \in Nat /\ Len(q \o r) = Len(q) + Len(r)
  BY SeqLen, Joined
<1>2. /\ \A k \in 1 .. Len(q) : (q \o r)[k] = q[k]
      /\ \A k \in 1 .. Len(r) : (q \o r)[Len(q) + k] = r[k]
  BY AtJoin
<1>3. \A k \in 1 .. Len(q) : w[o + k] = q[k]
  <2> TAKE k \in 1 .. Len(q)
  <2>1. k \in 1 .. Len(q \o r)
    BY <1>1
  <2> QED BY <1>2, <2>1 DEF Has
<1>4. \A k \in 1 .. Len(r) : w[(o + Len(q)) + k] = r[k]
  <2> TAKE k \in 1 .. Len(r)
  <2>1. Len(q) + k \in 1 .. Len(q \o r) /\ (o + Len(q)) + k = o + (Len(q) + k)
    BY <1>1
  <2>2. w[o + (Len(q) + k)] = (q \o r)[Len(q) + k]
    BY <2>1 DEF Has
  <2> QED BY <1>2, <2>1, <2>2
<1> QED BY <1>1, <1>3, <1>4 DEF Has

LEMMA HasPair ==
  ASSUME NEW w, IsSeq(w), NEW q, NEW r, IsSeq(q), IsSeq(r), Has(w, 0, q \o r), NEW n, n = Len(q)
  PROVE  Has(w, 0, q) /\ Has(w, n, r)
<1>1. Has(w, 0, q) /\ Has(w, 0 + Len(q), r)
  BY HasParts
<1>2. 0 + Len(q) = n
  BY SeqLen
<1> QED BY <1>1, <1>2

LEMMA HasWhole == ASSUME NEW w, IsSeq(w) PROVE Has(w, 0, w)
  BY SeqLen DEF Has

LEMMA HasField ==
  ASSUME NEW w, NEW o \in Nat, IsSeq(w), NEW name, NEW v, NEW eol, eol \in {CrLf, Lf},
         Has(w, o, Field(name, <<v>>, eol))
  PROVE  /\ w[o + 1] = name /\ w[o + 2] = ":" /\ w[o + 3] = "sp" /\ w[o + 4] = v
         /\ Len(Field(name, <<v>>, eol)) = 4 + Len(eol)
         /\ Len(eol) = (IF eol = CrLf THEN 2 ELSE 1)
         /\ w[o + 4 + Len(eol)] = "lf" /\ (eol = CrLf => w[o + 5] = "cr")
<1> DEFINE s == <<name, ":", "sp">>
<1>1. IsSeq(s) /\ IsSeq(<<v>>) /\ IsSeq(eol) /\ IsSeq(s \o <<v>>)
  BY Tuples, Joined DEF CrLf, Lf
<1>2. Len(s) = 3 /\ Len(<<v>>) = 1 /\ Len(eol) = (IF eol = CrLf THEN 2 ELSE 1)
  BY DEF CrLf, Lf
<1>3. Field(name, <<v>>, eol) = (s \o <<v>>) \o eol
  BY DEF Field
<1>4. s[1] = name /\ s[2] = ":" /\ s[3] = "sp"
  OBVIOUS
<1> HIDE DEF s
<1>5. Len(s \o <<v>>) = 4 /\ Len((s \o <<v>>) \o eol) = 4 + Len(eol)
  <2>1. Len(s \o <<v>>) = Len(s) + Len(<<v>>)
    BY <1>1, Joined
  <2>2. Len((s \o <<v>>) \o eol) = Len(s \o <<v>>) + Len(eol)
    BY <1>1, Joined
  <2> QED BY <1>2, <2>1, <2>2
<1>6. Has(w, o, s \o <<v>>) /\ Has(w, o + 4, eol)
  BY <1>1, <1>3, <1>5, HasParts
<1>7. Has(w, o, s) /\ Has(w, o + 3, <<v>>)
  BY <1>1, <1>2, <1>6, HasParts
<1>8. w[o + 1] = name /\ w[o + 2] = ":" /\ w[o + 3] = "sp"
  BY <1>2, <1>4, <1>7 DEF Has
<1>9. w[o + 4] = v
  <2>1. w[(o + 3) + 1] = v
    BY <1>2, <1>7 DEF Has
  <2> QED BY <2>1
<1>10. CASE eol = CrLf
  <2>1. w[(o + 4) + 1] = "cr" /\ w[(o + 4) + 2] = "lf" /\ Len(eol) = 2
    BY <1>2, <1>6, <1>10 DEF Has, CrLf
  <2>2. o + 4 + Len(eol) = (o + 4) + 2 /\ o + 5 = (o + 4) + 1
    BY <2>1
  <2>3. w[o + 4 + Len(eol)] = "lf" /\ w[o + 5] = "cr"
    BY <2>1, <2>2
  <2>4. Len(Field(name, <<v>>, eol)) = 4 + Len(eol)
    BY <1>3, <1>5
  <2> QED BY <1>8, <1>9, <1>10, <2>1, <2>3, <2>4
<1>11. CASE eol = Lf /\ eol # CrLf
  <2>1. w[(o + 4) + 1] = "lf" /\ Len(eol) = 1
    BY <1>2, <1>6, <1>11 DEF Has, Lf
  <2>2. o + 4 + Len(eol) = (o + 4) + 1
    BY <2>1
  <2>3. w[o + 4 + Len(eol)] = "lf"
    BY <2>1, <2>2
  <2>4. Len(Field(name, <<v>>, eol)) = 4 + Len(eol)
    BY <1>3, <1>5
  <2> QED BY <1>8, <1>9, <1>11, <2>1, <2>3, <2>4
<1> QED BY <1>10, <1>11

LEMMA DigitIs ==
  ASSUME NEW n \in Nat, n <= 4
  PROVE  \E d \in DOMAIN Digits : Digit(n) = <<d>> /\ Digits[d] = n /\ d \notin Separators
<1> DEFINE d == CHOOSE x \in {"d0", "d1", "d2", "d3", "d4"} : Digits[x] = n
<1>1. \E x \in {"d0", "d1", "d2", "d3", "d4"} : Digits[x] = n
  BY DEF Digits
<1>2. d \in {"d0", "d1", "d2", "d3", "d4"} /\ Digits[d] = n
  BY <1>1
<1>3. Digit(n) = <<d>>
  BY DEF Digit
<1> HIDE DEF d
<1>4. d \in DOMAIN Digits /\ d \notin Separators
  BY <1>2 DEF Digits, Separators
<1> QED BY <1>2, <1>3, <1>4

Says(w, o, name, v, k) ==
  /\ w[o + 1] = name /\ w[o + 2] = ":" /\ w[o + 3] = "sp" /\ w[o + 4] = v
  /\ w[o + 4 + k] = "lf" /\ (k = 2 => w[o + 5] = "cr")

LEMMA FieldSays ==
  ASSUME NEW w, NEW o \in Nat, IsSeq(w), NEW name, NEW v, NEW eol, eol \in {CrLf, Lf},
         Has(w, o, Field(name, <<v>>, eol))
  PROVE  Says(w, o, name, v, Len(eol)) /\ Len(Field(name, <<v>>, eol)) = 4 + Len(eol)
<1>1. Len(eol) = 2 => eol = CrLf
  BY DEF CrLf, Lf
<1> QED BY <1>1, HasField DEF Says

LEMMA LengthSays ==
  ASSUME NEW w, NEW o \in Nat, IsSeq(w), NEW v, NEW n \in Nat, n <= 4, n = Len(v),
         Has(w, o, Length(v))
  PROVE  /\ Len(Length(v)) = 6
         /\ \E d \in DOMAIN Digits : /\ Digits[d] = n /\ d \notin Separators
                                     /\ Says(w, o, "Content-Length", d, 2)
<1>1. PICK d \in DOMAIN Digits : Digit(n) = <<d>> /\ Digits[d] = n /\ d \notin Separators
  BY DigitIs
<1>2. Length(v) = Field("Content-Length", <<d>>, CrLf) /\ Len(CrLf) = 2
  BY <1>1 DEF Length, CrLf
<1>3. Has(w, o, Field("Content-Length", <<d>>, CrLf))
  BY <1>2
<1>4. Says(w, o, "Content-Length", d, Len(CrLf))
  BY <1>3, FieldSays
<1>5. Len(Field("Content-Length", <<d>>, CrLf)) = 4 + Len(CrLf)
  BY <1>3, FieldSays
<1> QED BY <1>1, <1>2, <1>4, <1>5

(* What a request, or an answer, is made of.                               *)
Proper(m) ==
  /\ {m.method, m.uri, m.keep} \cap Separators = {} /\ m.version \in Versions
  /\ m.form \in {"none", "length", "gzip", "chunked"} /\ m.body \in Seq(STRING)
  /\ m.form = "none" => m.body = <<>>
  /\ m.form = "length" => Len(m.body) <= 4
  /\ m.form = "gzip" => m.body = Zipped
  /\ m.method = "HEAD" => m.body = <<>> /\ m.form # "chunked"

LEMMA AskedProper ==
  ASSUME NEW c \in Conversations, NEW i \in 1 .. Len(c)
  PROVE  Proper(c[i])
  BY HttpAssumption, MessageAssumption DEF Proper

Ends(m) == IF m.form = "chunked" THEN Lf ELSE CrLf
Persists(m) == IF m.keep = Empty THEN <<>> ELSE Field("Connection", <<m.keep>>, Ends(m))

WireParts(m, w, k, a, b) ==
  /\ IsSeq(w) /\ k \in {1, 2} /\ a \in Nat /\ b \in Nat
  /\ Has(w, 0, <<m.method, "sp", m.uri, "sp", "sp", m.version>>)
  /\ Has(w, 6, Ends(m)) /\ Has(w, 6 + k, Persists(m))
  /\ Has(w, 6 + k + a, Content(m).head) /\ Has(w, 6 + k + a + b, Ends(m))
  /\ Has(w, 6 + k + a + b + k, Content(m).body)
  /\ Len(w) = 6 + k + a + b + k + Len(Content(m).body)
  /\ IsSeq(Content(m).head) /\ IsSeq(Content(m).body)

LEMMA WireHas ==
  ASSUME NEW m, Proper(m), NEW k, k = Len(Ends(m)), NEW a, a = Len(Persists(m)),
         NEW b, b = Len(Content(m).head), NEW w, w = Wire(m)
  PROVE  WireParts(m, w, k, a, b)
<1> DEFINE start == <<m.method, "sp", m.uri, "sp", "sp", m.version>>
           e == Ends(m)
           p == Persists(m)
           h == Content(m).head
           d == Content(m).body
<1>1. IsSeq(h) /\ IsSeq(d)
  BY Bodies DEF Proper
<1>2. IsSeq(start) /\ Len(start) = 6
  <2>1. IsSeq(start)
    BY Tuples
  <2> QED BY <2>1
<1>3. IsSeq(e) /\ k \in {1, 2} /\ k = Len(e)
  <2>1. IsSeq(<<"cr", "lf">>) /\ IsSeq(<<"lf">>)
    BY Tuples
  <2>2. Len(<<"cr", "lf">>) = 2 /\ Len(<<"lf">>) = 1
    OBVIOUS
  <2> QED BY <2>1, <2>2 DEF Ends, CrLf, Lf
<1>4. IsSeq(p) /\ a = Len(p)
  <2>1. IsSeq(Field("Connection", <<m.keep>>, Ends(m)))
    BY Tuples, Fields DEF Ends
  <2>2. IsSeq(<<>>)
    BY Tuples
  <2> QED BY <2>1, <2>2 DEF Persists
<1>5. w = ((((start \o e) \o p) \o h) \o e) \o d
  BY Zenon DEF Wire, Ends, Persists, Empty
<1> HIDE DEF start, e, p, h, d
<1>6. IsSeq(start \o e) /\ Len(start \o e) = 6 + k
  BY <1>2, <1>3, Joined
<1>7. IsSeq((start \o e) \o p) /\ Len((start \o e) \o p) = 6 + k + a
  BY <1>4, <1>6, Joined
<1>8. IsSeq(((start \o e) \o p) \o h) /\ Len(((start \o e) \o p) \o h) = 6 + k + a + b
  <2>1. b = Len(h)
    BY DEF h
  <2> QED BY <1>1, <1>7, <2>1, Joined
<1>9. IsSeq((((start \o e) \o p) \o h) \o e) /\ Len((((start \o e) \o p) \o h) \o e) = 6 + k + a + b + k
  <2> DEFINE u == ((start \o e) \o p) \o h
  <2>1. IsSeq(u) /\ Len(u) = 6 + k + a + b /\ IsSeq(e) /\ Len(e) = k
    BY <1>3, <1>8
  <2> HIDE DEF u
  <2>2. IsSeq(u \o e) /\ Len(u \o e) = Len(u) + Len(e)
    BY <2>1, Joined
  <2>3. IsSeq(u \o e) /\ Len(u \o e) = 6 + k + a + b + k
    BY <2>1, <2>2
  <2> QED BY <2>3 DEF u
<1>10. IsSeq(w) /\ Len(w) = 6 + k + a + b + k + Len(d) /\ Has(w, 0, w)
  BY <1>1, <1>5, <1>9, Joined, HasWhole
<1>11. a \in Nat /\ b \in Nat
  BY <1>1, <1>4, SeqLen DEF h
<1>12. Has(w, 0, (((start \o e) \o p) \o h) \o e) /\ Has(w, 6 + k + a + b + k, d)
  BY <1>1, <1>3, <1>5, <1>9, <1>10, HasPair
<1>13. Has(w, 0, ((start \o e) \o p) \o h) /\ Has(w, 6 + k + a + b, e)
  BY <1>3, <1>8, <1>10, <1>12, HasPair
<1>14. Has(w, 0, (start \o e) \o p) /\ Has(w, 6 + k + a, h)
  BY <1>1, <1>3, <1>7, <1>10, <1>13, HasPair
<1>15. Has(w, 0, start \o e) /\ Has(w, 6 + k, p)
  BY <1>3, <1>4, <1>6, <1>10, <1>14, HasPair
<1>16. Has(w, 0, start) /\ Has(w, 6, e)
  BY <1>2, <1>3, <1>10, <1>15, HasPair
<1> QED BY <1>1, <1>3, <1>10, <1>11, <1>12, <1>13, <1>14, <1>15, <1>16 DEF WireParts, start, e, p, h, d

LEMMA HasLonger ==
  ASSUME NEW q, NEW r, IsSeq(q), IsSeq(r)
  PROVE  /\ \A o \in Nat : \A s : IsSeq(s) /\ Has(q, o, s) => Has(q \o r, o, s)
         /\ Has(q \o r, Len(q), r)
<1>1. Len(q) \in Nat /\ Len(r) \in Nat /\ Len(q \o r) = Len(q) + Len(r)
  BY SeqLen, Joined
<1>2. /\ \A k \in 1 .. Len(q) : (q \o r)[k] = q[k]
      /\ \A k \in 1 .. Len(r) : (q \o r)[Len(q) + k] = r[k]
  BY AtJoin
<1>3. ASSUME NEW o \in Nat, NEW s, IsSeq(s), Has(q, o, s) PROVE Has(q \o r, o, s)
  <2>1. Len(s) \in Nat
    BY <1>3, SeqLen
  <2>2. ASSUME NEW k \in 1 .. Len(s) PROVE (q \o r)[o + k] = s[k]
    <3>1. o + k \in 1 .. Len(q)
      BY <1>1, <1>3, <2>1 DEF Has
    <3> QED BY <1>2, <1>3, <3>1 DEF Has
  <2> QED BY <1>1, <1>3, <2>1, <2>2 DEF Has
<1>4. Has(q \o r, Len(q), r)
  BY <1>1, <1>2 DEF Has
<1> QED BY <1>3, <1>4

LEMMA HasWithin ==
  ASSUME NEW w, IsSeq(w), NEW o \in Nat, NEW q, IsSeq(q), Has(w, o, q),
         NEW p \in Nat, NEW s, IsSeq(s), Has(q, p, s), NEW z, z = o + p
  PROVE  Has(w, z, s)
<1>1. Len(w) \in Nat /\ Len(q) \in Nat /\ Len(s) \in Nat
  BY SeqLen
<1>2. ASSUME NEW k \in 1 .. Len(s) PROVE w[z + k] = s[k]
  <2>1. p + k \in 1 .. Len(q) /\ z + k = o + (p + k)
    BY <1>1 DEF Has
  <2>2. w[o + (p + k)] = q[p + k]
    BY <2>1 DEF Has
  <2>3. q[p + k] = s[k]
    BY DEF Has
  <2> QED BY <2>1, <2>2, <2>3
<1> QED BY <1>1, <1>2 DEF Has

Flatten(seqs, n, f) ==
  /\ FlattenSeq(seqs) = f[n] /\ f[1] = seqs[1]
  /\ \A i \in 2 .. n : f[i] = f[i - 1] \o seqs[i]
LEMMA FlatRun ==
  ASSUME NEW n \in Nat, n # 0, NEW seqs, IsSeq(seqs), Len(seqs) = n
  PROVE  \E f : Flatten(seqs, n, f)
<1> DEFINE f == CHOOSE g : Flat(seqs, n, g)
<1>1. FlattenSeq(seqs) = f[n]
  BY DEF FlattenSeq, Flat
<1>2. Flat(seqs, n, f)
  BY FlatExists
<1> HIDE DEF f
<1>3. f[1] = seqs[1]
  BY <1>2 DEF Flat
<1>4. ASSUME NEW i \in 2 .. n PROVE f[i] = f[i - 1] \o seqs[i]
  <2>1. i \in 1 .. n /\ i # 1
    OBVIOUS
  <2> QED BY <1>2, <2>1 DEF Flat
<1> QED BY <1>1, <1>3, <1>4 DEF Flatten

(* Chunks of five and four tokens.                                         *)
From(i) == IF i = 1 THEN 0 ELSE 4 * i - 3
LEMMA FlatAt ==
  ASSUME NEW n \in Nat, NEW seqs, IsSeq(seqs), Len(seqs) = n,
         \A i \in 1 .. n : IsSeq(seqs[i]) /\ Len(seqs[i]) = (IF i = 1 THEN 5 ELSE 4)
  PROVE  /\ IsSeq(FlattenSeq(seqs)) /\ Len(FlattenSeq(seqs)) = From(n + 1)
         /\ \A i \in 1 .. n : Has(FlattenSeq(seqs), From(i), seqs[i])
<1>1. CASE n = 0
  <2>1. FlattenSeq(seqs) = <<>>
    BY <1>1 DEF FlattenSeq
  <2> QED BY <1>1, <2>1, Tuples DEF From
<1>2. CASE n # 0
  <2>0. PICK f : Flatten(seqs, n, f)
    BY <1>2, FlatRun
  <2>1. /\ FlattenSeq(seqs) = f[n] /\ f[1] = seqs[1]
        /\ \A i \in 2 .. n : f[i] = f[i - 1] \o seqs[i]
    BY <2>0 DEF Flatten
  <2> DEFINE Ok(k) == /\ IsSeq(f[k]) /\ Len(f[k]) = From(k + 1)
                      /\ \A i \in 1 .. k : Has(f[k], From(i), seqs[i])
             T == {k \in 1 .. n : ~Ok(k)}
  <2>2. Ok(1)
    <3>1. 1 \in 1 .. n
      BY <1>2
    <3>2. IsSeq(f[1]) /\ Len(f[1]) = 5 /\ Has(f[1], 0, f[1])
      BY <2>1, <3>1, HasWhole
    <3> QED BY <2>1, <3>2 DEF From
  <2>3. ASSUME T # {} PROVE FALSE
    <3>1. PICK m \in T : \A k \in T : m <= k
      <4>1. T \subseteq Nat
        OBVIOUS
      <4> HIDE DEF T
      <4> QED BY <2>3, <4>1, Least
    <3>2. m # 1 /\ m \in 2 .. n /\ m - 1 \in 1 .. n /\ m \in 1 .. n
      BY <2>2, <3>1
    <3>3. Ok(m - 1)
      BY <3>1, <3>2
    <3> DEFINE q == f[m - 1]
               r == seqs[m]
    <3>4. f[m] = q \o r /\ IsSeq(r) /\ Len(r) = 4
      BY <2>1, <3>2
    <3>5. IsSeq(q) /\ Len(q) = From(m) /\ \A i \in 1 .. m - 1 : Has(q, From(i), seqs[i])
      BY <3>2, <3>3
    <3> HIDE DEF q, r
    <3>6. IsSeq(f[m]) /\ Len(f[m]) = From(m + 1)
      <4>1. IsSeq(q \o r) /\ Len(q \o r) = Len(q) + Len(r)
        BY <3>4, <3>5, Joined
      <4> QED BY <3>2, <3>4, <3>5, <4>1 DEF From
    <3>7. ASSUME NEW i \in 1 .. m - 1 PROVE Has(f[m], From(i), seqs[i])
      <4>1. From(i) \in Nat /\ i \in 1 .. n
        BY <3>2 DEF From
      <4>2. IsSeq(seqs[i]) /\ Has(q, From(i), seqs[i])
        BY <3>5, <4>1
      <4> QED BY <3>4, <3>5, <4>1, <4>2, HasLonger
    <3>8. Has(f[m], From(m), seqs[m])
      <4>1. Has(q \o r, Len(q), r)
        BY <3>4, <3>5, HasLonger
      <4> QED BY <3>4, <3>5, <4>1 DEF r
    <3>9. \A i \in 1 .. m : Has(f[m], From(i), seqs[i])
      <4> TAKE i \in 1 .. m
      <4>1. i \in 1 .. m - 1 \/ i = m
        BY <3>2
      <4> QED BY <3>7, <3>8, <4>1
    <3>10. Ok(m)
      BY <3>6, <3>9
    <3> QED BY <3>1, <3>10
  <2>4. Ok(n)
    BY <1>2, <2>3
  <2> QED BY <2>1, <2>4
<1> QED BY <1>1, <1>2

ChunkParts(m, w, o, n) ==
  /\ n \in Nat /\ Len(Content(m).body) = From(n + 1) + 3
  /\ \A i \in 1 .. n :
       /\ w[o + From(i) + 1] = "d1" /\ w[o + From(i) + 2] = "lf" /\ w[o + From(i) + 3] = m.body[i]
       /\ IF i = 1 THEN w[o + From(i) + 4] = "cr" /\ w[o + From(i) + 5] = "lf"
                   ELSE w[o + From(i) + 4] = "lf"
  /\ w[o + From(n + 1) + 1] = "d0" /\ w[o + From(n + 1) + 2] = "lf" /\ w[o + From(n + 1) + 3] = "lf"

LEMMA ChunkedHas ==
  ASSUME NEW m, Proper(m), m.form = "chunked", NEW w, IsSeq(w), NEW o \in Nat,
         Has(w, o, Content(m).body), NEW n, n = Len(m.body)
  PROVE  ChunkParts(m, w, o, n)
<1> DEFINE chunk(i) == <<"d1", "lf", m.body[i]>> \o IF i = 1 THEN CrLf ELSE Lf
           chunks == [i \in 1 .. Len(m.body) |-> chunk(i)]
           tail == <<"d0", "lf", "lf">>
<1>1. Content(m).body = FlattenSeq(chunks) \o tail
  BY DEF Content
<1>2. n \in Nat
  BY DEF Proper
<1>3. ASSUME NEW i
      PROVE  /\ IsSeq(chunk(i)) /\ Len(chunk(i)) = (IF i = 1 THEN 5 ELSE 4)
             /\ chunk(i)[1] = "d1" /\ chunk(i)[2] = "lf" /\ chunk(i)[3] = m.body[i]
             /\ IF i = 1 THEN chunk(i)[4] = "cr" /\ chunk(i)[5] = "lf" ELSE chunk(i)[4] = "lf"
  <2> DEFINE q == <<"d1", "lf", m.body[i]>>
             r == IF i = 1 THEN CrLf ELSE Lf
  <2>1. IsSeq(q) /\ IsSeq(r)
    BY Tuples DEF CrLf, Lf
  <2>2. Len(q) = 3 /\ q[1] = "d1" /\ q[2] = "lf" /\ q[3] = m.body[i]
    OBVIOUS
  <2>3. IF i = 1 THEN Len(r) = 2 /\ r[1] = "cr" /\ r[2] = "lf" ELSE Len(r) = 1 /\ r[1] = "lf"
    BY DEF CrLf, Lf
  <2>4. chunk(i) = q \o r
    OBVIOUS
  <2> HIDE DEF q, r, chunk
  <2>5. IsSeq(q \o r) /\ Len(q \o r) = Len(q) + Len(r)
    BY <2>1, Joined
  <2> DEFINE c == q \o r
  <2>6. IsSeq(c) /\ Has(c, 0, c)
    BY <2>5, HasWhole
  <2>7. Has(c, 0, q) /\ Has(c, 3, r)
    BY <2>1, <2>2, <2>6, HasPair
  <2>8. c[0 + 1] = "d1" /\ c[0 + 2] = "lf" /\ c[0 + 3] = m.body[i]
    <3> HIDE DEF c
    <3> QED BY <2>2, <2>7 DEF Has
  <2>9. IF i = 1 THEN c[3 + 1] = "cr" /\ c[3 + 2] = "lf" ELSE c[3 + 1] = "lf"
    <3> HIDE DEF c
    <3>1. CASE i = 1
      <4>1. Len(r) = 2 /\ r[1] = "cr" /\ r[2] = "lf"
        BY <2>3, <3>1
      <4>2. c[3 + 1] = "cr" /\ c[3 + 2] = "lf"
        BY <4>1, <2>7 DEF Has
      <4> QED BY <3>1, <4>2
    <3>2. CASE i # 1
      <4>1. Len(r) = 1 /\ r[1] = "lf"
        BY <2>3, <3>2
      <4>2. c[3 + 1] = "lf"
        BY <4>1, <2>7 DEF Has
      <4> QED BY <3>2, <4>2
    <3> QED BY <3>1, <3>2
  <2>10. Len(c) = IF i = 1 THEN 5 ELSE 4
    <3>1. Len(c) = 3 + Len(r)
      BY <2>2, <2>5
    <3>2. Len(r) = IF i = 1 THEN 2 ELSE 1
      BY <2>3
    <3> HIDE DEF c
    <3> QED BY <3>1, <3>2
  <2>11. chunk(i) = c
    BY <2>4
  <2> HIDE DEF c
  <2> QED BY <2>6, <2>8, <2>9, <2>10, <2>11
<1>4. \A i \in 1 .. n : chunks[i] = chunk(i)
  OBVIOUS
<1>5. IsSeq(chunks) /\ Len(chunks) = n
  <2> DEFINE S == {chunk(i) : i \in 1 .. Len(m.body)}
  <2>1. chunks \in [1 .. Len(m.body) -> S]
    OBVIOUS
  <2> HIDE DEF chunk, S
  <2>2. chunks \in Seq(S) /\ Len(chunks) = Len(m.body)
    <3> HIDE DEF chunks
    <3> QED BY <1>2, <2>1
  <2> QED BY <2>2 DEF IsSeq
<1> HIDE DEF chunks, chunk
<1>6. \A i \in 1 .. n : IsSeq(chunks[i]) /\ Len(chunks[i]) = (IF i = 1 THEN 5 ELSE 4)
  <2> TAKE i \in 1 .. n
  <2>1. chunks[i] = chunk(i) /\ IsSeq(chunk(i)) /\ Len(chunk(i)) = (IF i = 1 THEN 5 ELSE 4)
    BY <1>3, <1>4
  <2> QED BY <2>1
<1> DEFINE flat == FlattenSeq(chunks)
<1>7. /\ IsSeq(flat) /\ Len(flat) = From(n + 1)
      /\ \A i \in 1 .. n : Has(flat, From(i), chunks[i])
  BY <1>2, <1>5, <1>6, FlatAt
<1>8. IsSeq(tail) /\ Len(tail) = 3 /\ tail[1] = "d0" /\ tail[2] = "lf" /\ tail[3] = "lf"
  BY Tuples
<1> HIDE DEF flat, tail
<1>9. Has(w, o, flat) /\ Has(w, o + From(n + 1), tail) /\ Len(flat \o tail) = From(n + 1) + 3
  <2>1. Has(w, o, flat \o tail)
    BY <1>1 DEF flat
  <2>2. Has(w, o, flat) /\ Has(w, o + Len(flat), tail)
    BY <1>7, <1>8, <2>1, HasParts
  <2>3. Len(flat \o tail) = Len(flat) + Len(tail)
    BY <1>7, <1>8, Joined
  <2> QED BY <1>7, <1>8, <2>2, <2>3
<1>10. ASSUME NEW i \in 1 .. n
       PROVE  /\ w[o + From(i) + 1] = "d1" /\ w[o + From(i) + 2] = "lf" /\ w[o + From(i) + 3] = m.body[i]
              /\ IF i = 1 THEN w[o + From(i) + 4] = "cr" /\ w[o + From(i) + 5] = "lf"
                          ELSE w[o + From(i) + 4] = "lf"
  <2>1. From(i) \in Nat
    BY <1>2 DEF From
  <2>2. Has(flat, From(i), chunks[i]) /\ IsSeq(chunks[i])
    BY <1>6, <1>7
  <2>3. Has(w, o + From(i), chunks[i])
    BY <1>7, <1>9, <2>1, <2>2, HasWithin
  <2>4. chunks[i] = chunk(i)
    BY <1>4
  <2>5. Has(w, o + From(i), chunk(i))
    BY <2>3, <2>4
  <2>6. w[(o + From(i)) + 1] = chunk(i)[1] /\ w[(o + From(i)) + 2] = chunk(i)[2]
        /\ w[(o + From(i)) + 3] = chunk(i)[3] /\ w[(o + From(i)) + 4] = chunk(i)[4]
        /\ (i = 1 => w[(o + From(i)) + 5] = chunk(i)[5])
    <3>1. Len(chunk(i)) \in Nat /\ Len(chunk(i)) >= 4 /\ (i = 1 => Len(chunk(i)) >= 5)
      BY <1>3
    <3>2. \A j \in 1 .. Len(chunk(i)) : w[(o + From(i)) + j] = chunk(i)[j]
      BY Zenon, <2>5 DEF Has
    <3> HIDE DEF From
    <3> QED BY <3>1, <3>2
  <2> QED BY <1>3, <2>6
<1>11. w[o + From(n + 1) + 1] = "d0" /\ w[o + From(n + 1) + 2] = "lf" /\ w[o + From(n + 1) + 3] = "lf"
  BY <1>8, <1>9 DEF Has
<1>12. Len(Content(m).body) = From(n + 1) + 3
  BY <1>1, <1>9 DEF flat
<1> QED BY <1>2, <1>10, <1>11, <1>12 DEF ChunkParts

LEMMA LineSays ==
  ASSUME NEW x, NEW j, NEW o, x.h[j] = o, x.h[j + 1] = o + 4 + x.eol,
         NEW name, NEW v, Says(x.w, o, name, v, x.eol),
         name \notin Separators, name # "Trailer", v \notin Separators,
         name = "Connection" <=> j + 1 = x.co, name = "Content-Encoding" <=> j + 1 = x.ce,
         name = "Content-Length" <=> j + 1 = x.cl,
         (name = "Transfer-Encoding" /\ v = "chunked") <=> j + 1 = x.te,
         j + 1 = x.co => v = x.keep, j + 1 = x.ce => v = "gzip",
         j + 1 = x.cl => v \in DOMAIN Digits /\ Digits[v] = Len(x.body)
  PROVE  Line(x, j)
  BY DEF Line, Says

LEMMA RequestLaid == ASSUME NEW m, Proper(m) PROVE Laid(Text(m)) /\ IsSeq(Text(m).w)
<1> DEFINE x == Text(m)
           w == Wire(m)
           k == IF m.form = "chunked" THEN 1 ELSE 2
           co == IF m.keep = Empty THEN 0 ELSE 1
           hs == IF m.form = "none" THEN 0 ELSE IF m.form = "gzip" THEN 2 ELSE 1
           n == co + hs
           base == IF m.form = "chunked" THEN 8 + 5 * n ELSE 10 + 6 * n
           body == IF m.form = "gzip" THEN <<"zip">> ELSE m.body
<1>1. /\ x.role = "server" /\ x.w = w /\ x.eol = k /\ x.n = n
      /\ \A j \in 0 .. n : x.h[j] = IF m.form = "chunked" THEN 7 + 5 * j ELSE 8 + 6 * j
      /\ x.base = base /\ x.co = co /\ x.ce = (IF m.form = "gzip" THEN co + 1 ELSE 0)
      /\ x.cl = (IF m.form \in {"length", "gzip"} THEN n ELSE 0)
      /\ x.te = (IF m.form = "chunked" THEN n ELSE 0)
      /\ x.keep = m.keep /\ x.method = m.method /\ x.uri = m.uri /\ x.version = m.version
      /\ x.code = Empty /\ x.body = body
  BY DEF Text
<1>2. \A i \in 1 .. Len(m.body) + 1 : x.c[i] = IF i = 1 THEN base ELSE base + 4 * i - 3
  BY DEF Text
<1>3. /\ m.form \in {"none", "length", "gzip", "chunked"} /\ Len(m.body) \in Nat
      /\ m.method \notin Separators /\ m.uri \notin Separators /\ m.keep \notin Separators
      /\ m.version \in Versions
  BY DEF Proper
<1> HIDE DEF x, w
<1>4. k \in {1, 2} /\ (k = 1 <=> m.form = "chunked") /\ co \in {0, 1} /\ (co = 0 <=> m.keep = Empty)
  OBVIOUS
<1>5. /\ hs = (IF m.form = "none" THEN 0 ELSE IF m.form = "gzip" THEN 2 ELSE 1) /\ n = co + hs
      /\ base = (IF k = 1 THEN 8 + 5 * n ELSE 10 + 6 * n)
  BY <1>4
<1> HIDE DEF k, co, hs, n, base
<1>6. k = Len(Ends(m)) /\ (k = 2 <=> Ends(m) = CrLf) /\ Ends(m) \in {CrLf, Lf} /\ Ends(m)[k] = "lf"
      /\ (k = 2 => Ends(m)[1] = "cr")
  BY <1>4 DEF Ends, CrLf, Lf
<1> DEFINE al == Len(Persists(m))
           b == Len(Content(m).head)
<1>7. /\ IsSeq(w) /\ al \in Nat /\ b \in Nat
      /\ Has(w, 0, <<m.method, "sp", m.uri, "sp", "sp", m.version>>)
      /\ Has(w, 6, Ends(m)) /\ Has(w, 6 + k, Persists(m))
      /\ Has(w, 6 + k + al, Content(m).head) /\ Has(w, 6 + k + al + b, Ends(m))
      /\ Has(w, 6 + k + al + b + k, Content(m).body)
      /\ Len(w) = 6 + k + al + b + k + Len(Content(m).body)
  <2>1. al = Len(Persists(m)) /\ b = Len(Content(m).head) /\ w = Wire(m)
    BY DEF w
  <2> HIDE DEF al, b
  <2>2. WireParts(m, w, k, al, b)
    BY <1>6, <2>1, WireHas
  <2> QED BY <2>2 DEF WireParts
<1>8. /\ al = (IF co = 0 THEN 0 ELSE 4 + k)
      /\ co = 1 => Says(w, 6 + k, "Connection", m.keep, k)
  <2>1. CASE m.keep = Empty
    BY <1>4, <2>1 DEF Persists
  <2>2. CASE m.keep # Empty
    <3>1. Persists(m) = Field("Connection", <<m.keep>>, Ends(m))
      BY <2>2 DEF Persists
    <3>2. Says(w, 6 + k, "Connection", m.keep, Len(Ends(m)))
          /\ Len(Field("Connection", <<m.keep>>, Ends(m))) = 4 + Len(Ends(m))
      <4>1. 6 + k \in Nat
        BY <1>4
      <4> QED BY <1>6, <1>7, <3>1, <4>1, FieldSays
    <3>3. co = 1
      BY <1>4, <2>2
    <3> QED BY <1>4, <1>6, <3>1, <3>2, <3>3
  <2> QED BY <2>1, <2>2
<1> HIDE DEF al, b
<1>9. /\ b = (IF hs = 0 THEN 0 ELSE IF hs = 1 THEN 4 + k ELSE 12)
      /\ m.form = "length" =>
           \E d \in DOMAIN Digits : /\ Digits[d] = Len(m.body) /\ d \notin Separators
                                     /\ Says(w, 6 + k + al, "Content-Length", d, k)
      /\ m.form = "gzip" =>
           /\ Says(w, 6 + k + al, "Content-Encoding", "gzip", k)
           /\ \E d \in DOMAIN Digits : /\ Digits[d] = 1 /\ d \notin Separators
                                        /\ Says(w, 6 + k + al + 6, "Content-Length", d, k)
      /\ m.form = "chunked" => Says(w, 6 + k + al, "Transfer-Encoding", "chunked", k)
  <2>0. 6 + k + al \in Nat /\ 6 + k + al + 6 \in Nat
    <3>1. k \in Nat /\ al \in Nat
      BY <1>4, <1>7
    <3> QED BY <3>1
  <2> DEFINE o == 6 + k + al
  <2>1. CASE m.form = "none"
    <3>1. b = 0
      BY <2>1 DEF Content, b
    <3>2. hs = 0
      BY <1>5, <2>1
    <3> QED BY <1>4, <2>1, <3>1, <3>2
  <2>2. CASE m.form = "length"
    <3>1. Content(m).head = Length(m.body) /\ k = 2 /\ hs = 1
      BY <1>4, <1>5, <2>2 DEF Content
    <3>2. /\ Len(Length(m.body)) = 6
          /\ \E d \in DOMAIN Digits : /\ Digits[d] = Len(m.body) /\ d \notin Separators
                                       /\ Says(w, o, "Content-Length", d, 2)
      <4>1. Len(m.body) \in Nat /\ Len(m.body) <= 4
        BY <1>3, <2>2 DEF Proper
      <4>2. o \in Nat /\ Has(w, o, Length(m.body))
        BY <1>7, <2>0, <3>1
      <4> HIDE DEF o
      <4> QED BY <1>7, <4>1, <4>2, LengthSays
    <3>3. b = (IF hs = 0 THEN 0 ELSE IF hs = 1 THEN 4 + k ELSE 12)
      <4>1. b = 6
        BY <3>1, <3>2 DEF b
      <4> QED BY <3>1, <4>1
    <3> QED BY <2>2, <3>1, <3>2, <3>3
  <2>3. CASE m.form = "gzip"
    <3> DEFINE f == Field("Content-Encoding", <<"gzip">>, CrLf)
               l == Length(<<"zip">>)
    <3>1. Content(m).head = f \o l /\ k = 2 /\ hs = 2
      BY <1>4, <1>5, <2>3 DEF Content
    <3>2. IsSeq(f) /\ IsSeq(l)
      BY Tuples, Fields, Lengths
    <3>3. Len(f) = 6 /\ Says(w, o, "Content-Encoding", "gzip", 2) /\ Has(w, o + 6, l)
      <4>1. o \in Nat /\ Has(w, o, f \o l) /\ Len(CrLf) = 2
        BY <1>7, <2>0, <3>1 DEF CrLf
      <4> HIDE DEF o, l
      <4>2. Has(w, o, f) /\ Has(w, o + Len(f), l)
        <5> HIDE DEF f
        <5> QED BY <1>7, <3>2, <4>1, HasParts
      <4>3. Says(w, o, "Content-Encoding", "gzip", Len(CrLf))
            /\ Len(Field("Content-Encoding", <<"gzip">>, CrLf)) = 4 + Len(CrLf)
        BY <1>7, <4>1, <4>2, FieldSays
      <4>4. Len(f) = 6
        BY <4>1, <4>3
      <4> HIDE DEF f
      <4> QED BY <4>1, <4>2, <4>3, <4>4
    <3>4. /\ Len(l) = 6
          /\ \E d \in DOMAIN Digits : /\ Digits[d] = 1 /\ d \notin Separators
                                       /\ Says(w, o + 6, "Content-Length", d, 2)
      <4>1. 1 \in Nat /\ 1 <= 4 /\ 1 = Len(<<"zip">>)
        OBVIOUS
      <4>2. o + 6 \in Nat
        BY <2>0
      <4>3. Has(w, o + 6, Length(<<"zip">>))
        BY <3>3
      <4> DEFINE p == o + 6
                 v == <<"zip">>
      <4>4. p \in Nat /\ Has(w, p, Length(v)) /\ 1 = Len(v)
        BY <4>1, <4>2, <4>3
      <4> HIDE DEF p, v
      <4>5. /\ Len(Length(v)) = 6
            /\ \E d \in DOMAIN Digits : /\ Digits[d] = 1 /\ d \notin Separators
                                         /\ Says(w, p, "Content-Length", d, 2)
        BY <1>7, <4>1, <4>4, LengthSays
      <4> QED BY <4>5 DEF p, v
    <3>5. b = (IF hs = 0 THEN 0 ELSE IF hs = 1 THEN 4 + k ELSE 12)
      <4>1. b = 12
        <5>1. Len(f \o l) = Len(f) + Len(l)
          <6> HIDE DEF f, l
          <6> QED BY <3>2, Joined
        <5> HIDE DEF f, l
        <5> QED BY <3>1, <3>3, <3>4, <5>1 DEF b
      <4> QED BY <3>1, <4>1
    <3> QED BY <2>3, <3>1, <3>3, <3>4, <3>5
  <2>4. CASE m.form = "chunked"
    <3>1. Content(m).head = Field("Transfer-Encoding", <<"chunked">>, Lf) /\ k = 1 /\ hs = 1
      BY <1>4, <1>5, <2>4 DEF Content
    <3>2. Says(w, o, "Transfer-Encoding", "chunked", Len(Lf)) /\ b = 4 + Len(Lf) /\ Len(Lf) = 1
      <4>1. o \in Nat /\ Has(w, o, Field("Transfer-Encoding", <<"chunked">>, Lf)) /\ Len(Lf) = 1
        BY <1>7, <2>0, <3>1 DEF Lf
      <4> HIDE DEF o
      <4>2. Says(w, o, "Transfer-Encoding", "chunked", Len(Lf))
            /\ Len(Field("Transfer-Encoding", <<"chunked">>, Lf)) = 4 + Len(Lf)
        <5>1. IsSeq(w) /\ Lf \in {CrLf, Lf}
          BY <1>7
        <5> QED BY <4>1, <5>1, FieldSays
      <4> QED BY <3>1, <4>1, <4>2 DEF b
    <3>3. b = (IF hs = 0 THEN 0 ELSE IF hs = 1 THEN 4 + k ELSE 12)
      <4>1. b = 5
        <5> QED BY <3>2
      <4> QED BY <3>1, <4>1
    <3> QED BY <2>4, <3>1, <3>2, <3>3
  <2> QED BY <1>3, <2>1, <2>2, <2>3, <2>4
<1>10. /\ x.h[0] = 6 + k /\ 6 + k + al = x.h[co] /\ 6 + k + al + b = x.h[n] /\ base = x.h[n] + k
       /\ \A j \in 0 .. n : x.h[j] \in Nat /\ x.h[j] >= 7
       /\ \A j \in 0 .. n - 1 : x.h[j + 1] = x.h[j] + 4 + k
       /\ m.form = "gzip" => 6 + k + al + 6 = x.h[co + 1]
  <2>1. n \in 0 .. 3 /\ co \in 0 .. n /\ n \in 0 .. n /\ 0 \in 0 .. n /\ (m.form = "gzip" => co + 1 \in 0 .. n)
    BY <1>4, <1>5
  <2>2. CASE k = 1
    <3>1. m.form = "chunked" /\ \A j \in 0 .. n : x.h[j] = 7 + 5 * j
      BY <1>1, <1>4, <2>2
    <3>2. al = 5 * co /\ b = 5 * hs
      BY <1>4, <1>5, <1>8, <1>9, <2>2, <3>1
    <3>3. x.h[0] = 7 /\ x.h[co] = 7 + 5 * co /\ x.h[n] = 7 + 5 * n
      BY <2>1, <3>1
    <3>4. \A j \in 0 .. n - 1 : x.h[j + 1] = x.h[j] + 5
      <4> TAKE j \in 0 .. n - 1
      <4>1. j \in 0 .. n /\ j + 1 \in 0 .. n
        BY <2>1
      <4> QED BY <3>1, <4>1
    <3>5. \A j \in 0 .. n : x.h[j] \in Nat /\ x.h[j] >= 7
      BY <2>1, <3>1
    <3>7. x.h[0] = 6 + k /\ 6 + k + al = x.h[co] /\ 6 + k + al + b = x.h[n] /\ base = x.h[n] + k
      <4>1. k = 1 /\ n = co + hs /\ base = 8 + 5 * n /\ co \in Nat /\ hs \in Nat
        BY <1>4, <1>5, <2>2
      <4>2. 6 + k + al = 7 + 5 * co /\ 6 + k + al + b = 7 + 5 * co + 5 * hs /\ 5 * n = 5 * co + 5 * hs
        BY <3>2, <4>1
      <4> QED BY <3>3, <4>1, <4>2
    <3>8. ~(m.form = "gzip")
      BY <3>1
    <3>9. \A j \in 0 .. n - 1 : x.h[j + 1] = x.h[j] + 4 + k
      BY <2>1, <2>2, <3>4, <3>5
    <3> HIDE DEF al, b
    <3> QED BY <3>5, <3>7, <3>8, <3>9
  <2>3. CASE k = 2
    <3>1. m.form # "chunked" /\ \A j \in 0 .. n : x.h[j] = 8 + 6 * j
      BY <1>1, <1>4, <2>3
    <3>2. al = 6 * co /\ b = 6 * hs
      BY <1>4, <1>5, <1>8, <1>9, <2>3, <3>1
    <3>3. x.h[0] = 8 /\ x.h[co] = 8 + 6 * co /\ x.h[n] = 8 + 6 * n
      BY <2>1, <3>1
    <3>4. \A j \in 0 .. n - 1 : x.h[j + 1] = x.h[j] + 6
      <4> TAKE j \in 0 .. n - 1
      <4>1. j \in 0 .. n /\ j + 1 \in 0 .. n
        BY <2>1
      <4> QED BY <3>1, <4>1
    <3>5. \A j \in 0 .. n : x.h[j] \in Nat /\ x.h[j] >= 7
      BY <2>1, <3>1
    <3>6. m.form = "gzip" => x.h[co + 1] = 14 + 6 * co
      BY <1>4, <2>1, <3>1
    <3>7. x.h[0] = 6 + k /\ 6 + k + al = x.h[co] /\ 6 + k + al + b = x.h[n] /\ base = x.h[n] + k
      <4>1. k = 2 /\ n = co + hs /\ base = 10 + 6 * n /\ co \in Nat /\ hs \in Nat
        BY <1>4, <1>5, <2>3
      <4>2. 6 + k + al = 8 + 6 * co /\ 6 + k + al + b = 8 + 6 * co + 6 * hs /\ 6 * n = 6 * co + 6 * hs
        BY <3>2, <4>1
      <4> QED BY <3>2, <3>3, <4>1, <4>2
    <3>8. m.form = "gzip" => 6 + k + al + 6 = x.h[co + 1]
      BY <1>4, <2>3, <3>2, <3>6
    <3>9. \A j \in 0 .. n - 1 : x.h[j + 1] = x.h[j] + 4 + k
      BY <2>1, <2>3, <3>4, <3>5
    <3> HIDE DEF al, b
    <3> QED BY <3>5, <3>7, <3>8, <3>9
  <2> QED BY <1>4, <2>2, <2>3
<1>11. ASSUME NEW j \in 0 .. n - 1 PROVE Line(x, j)
  <2>1. x.h[j + 1] = x.h[j] + 4 + x.eol /\ x.w = w /\ x.eol = k
    BY <1>1, <1>10
  <2>2. CASE j + 1 = co
    <3>1. co = 1 /\ j = 0 /\ Says(w, x.h[j], "Connection", m.keep, k)
      BY <1>4, <1>8, <1>10, <2>2
    <3>2. j + 1 = x.co /\ j + 1 # x.ce /\ j + 1 # x.cl /\ j + 1 # x.te /\ m.keep = x.keep
      BY <1>1, <1>4, <1>5, <3>1
    <3>3. "Connection" \notin Separators
      BY DEF Separators
    <3> QED BY <1>3, <2>1, <3>1, <3>2, <3>3, LineSays
  <2>3. CASE j = co
    <3>0. hs \in {1, 2} /\ m.form # "none"
      BY <1>3, <1>4, <1>5, <2>3
    <3>1. CASE m.form = "length"
      <4>1. PICK d \in DOMAIN Digits : /\ Digits[d] = Len(m.body) /\ d \notin Separators
                                      /\ Says(w, x.h[j], "Content-Length", d, k)
        BY <1>9, <1>10, <2>3, <3>1
      <4>2. j + 1 # x.co /\ j + 1 # x.ce /\ j + 1 = x.cl /\ j + 1 # x.te /\ x.body = m.body
        BY <1>1, <1>4, <1>5, <2>3, <3>1
      <4>3. "Content-Length" \notin Separators
        BY DEF Separators
      <4> QED BY <2>1, <4>1, <4>2, <4>3, LineSays
    <3>2. CASE m.form = "gzip"
      <4>1. Says(w, x.h[j], "Content-Encoding", "gzip", k)
        BY <1>9, <1>10, <2>3, <3>2
      <4>2. j + 1 # x.co /\ j + 1 = x.ce /\ j + 1 # x.cl /\ j + 1 # x.te
        BY <1>1, <1>4, <1>5, <2>3, <3>2
      <4>3. "Content-Encoding" \notin Separators /\ "gzip" \notin Separators
        BY DEF Separators
      <4> QED BY <2>1, <4>1, <4>2, <4>3, LineSays
    <3>3. CASE m.form = "chunked"
      <4>1. Says(w, x.h[j], "Transfer-Encoding", "chunked", k)
        BY <1>9, <1>10, <2>3, <3>3
      <4>2. j + 1 # x.co /\ j + 1 # x.ce /\ j + 1 # x.cl /\ j + 1 = x.te
        BY <1>1, <1>4, <1>5, <2>3, <3>3
      <4>3. "Transfer-Encoding" \notin Separators /\ "chunked" \notin Separators
        BY DEF Separators
      <4> QED BY <2>1, <4>1, <4>2, <4>3, LineSays
    <3> QED BY <1>3, <3>0, <3>1, <3>2, <3>3
  <2>4. CASE j = co + 1
    <3>1. hs = 2 /\ m.form = "gzip"
      BY <1>4, <1>5, <2>4
    <3>2. PICK d \in DOMAIN Digits : /\ Digits[d] = 1 /\ d \notin Separators
                                    /\ Says(w, x.h[j], "Content-Length", d, k)
      BY <1>9, <1>10, <2>4, <3>1
    <3>3. j + 1 # x.co /\ j + 1 # x.ce /\ j + 1 = x.cl /\ j + 1 # x.te
      BY <1>1, <1>4, <1>5, <2>4, <3>1
    <3>4. Len(x.body) = 1
      BY <1>1, <3>1
    <3>5. "Content-Length" \notin Separators
      BY DEF Separators
    <3> QED BY <2>1, <3>2, <3>3, <3>4, <3>5, LineSays
  <2> QED BY <1>4, <1>5, <2>2, <2>3, <2>4
<1>12. Begins(x)
  <2>1. w[0 + 1] = m.method /\ w[0 + 2] = "sp" /\ w[0 + 3] = m.uri /\ w[0 + 4] = "sp"
        /\ w[0 + 5] = "sp" /\ w[0 + 6] = m.version
    BY <1>7 DEF Has
  <2>2. w[6 + k] = "lf" /\ (k = 2 => w[6 + 1] = "cr")
    <3>1. k \in 1 .. Len(Ends(m)) /\ 1 \in 1 .. Len(Ends(m))
      BY <1>4, <1>6
    <3>2. w[6 + k] = Ends(m)[k] /\ w[6 + 1] = Ends(m)[1]
      BY <1>7, <3>1 DEF Has
    <3> QED BY <1>6, <3>2
  <2>3. x.role = "server" /\ x.role # "client" /\ x.eol = k /\ x.h[0] = 6 + k /\ x.w = w
    BY <1>1, <1>10
  <2> QED BY <1>1, <1>3, <2>1, <2>2, <2>3 DEF Begins
<1>13. w[base] = "lf" /\ (k = 2 => w[base - 1] = "cr")
  <2>1. 6 + k + al + b \in Nat /\ base = 6 + k + al + b + k
    BY <1>4, <1>7, <1>10
  <2>2. w[(6 + k + al + b) + k] = "lf" /\ (k = 2 => w[(6 + k + al + b) + 1] = "cr")
    <3>1. k \in 1 .. Len(Ends(m)) /\ 1 \in 1 .. Len(Ends(m))
      BY <1>4, <1>6
    <3>2. w[(6 + k + al + b) + k] = Ends(m)[k] /\ w[(6 + k + al + b) + 1] = Ends(m)[1]
      BY <1>7, <3>1 DEF Has
    <3> QED BY <1>6, <3>2
  <2>3. k = 2 => base - 1 = (6 + k + al + b) + 1
    BY <2>1
  <2> QED BY <2>1, <2>2, <2>3
<1>14. Follows(x)
  <2> DEFINE d == Content(m).body
  <2>1. 6 + k + al + b + k = base /\ base \in Nat
    <3>1. 6 + k + al + b = x.h[n] /\ base = x.h[n] + k
      BY <1>10
    <3>2. 6 + k + al + b \in Nat
      BY <1>4, <1>7
    <3> QED BY <1>4, <3>1, <3>2
  <2>2. Has(w, base, d) /\ Len(w) = base + Len(d)
    BY <1>7, <2>1
  <2>3. CASE m.form # "chunked"
    <3>1. x.te = 0 /\ x.base = base /\ x.w = w
      BY <1>1, <2>3
    <3>2. d = x.body
      <4>1. m.form = "none" => d = <<>> /\ m.body = <<>>
        BY DEF Content, Proper
      <4>2. m.form = "length" => d = m.body
        BY DEF Content
      <4>3. m.form = "gzip" => d = <<"zip">>
        BY DEF Content
      <4> HIDE DEF d
      <4> QED BY <1>1, <1>3, <2>3, <4>1, <4>2, <4>3
    <3> HIDE DEF d
    <3> QED BY <2>2, <3>1, <3>2 DEF Follows, Has
  <2>4. CASE m.form = "chunked"
    <3> DEFINE z == Len(m.body)
    <3>1. x.te # 0 /\ x.base = base /\ x.w = w /\ x.body = m.body
      BY <1>1, <1>4, <1>5, <2>4
    <3>2. /\ z \in Nat /\ Len(d) = From(z + 1) + 3
          /\ \A i \in 1 .. z :
               /\ w[base + From(i) + 1] = "d1" /\ w[base + From(i) + 2] = "lf"
               /\ w[base + From(i) + 3] = m.body[i]
               /\ IF i = 1 THEN w[base + From(i) + 4] = "cr" /\ w[base + From(i) + 5] = "lf"
                           ELSE w[base + From(i) + 4] = "lf"
          /\ w[base + From(z + 1) + 1] = "d0" /\ w[base + From(z + 1) + 2] = "lf"
          /\ w[base + From(z + 1) + 3] = "lf"
      <4>1. Has(w, base, Content(m).body)
        BY <2>2
      <4>2. z = Len(m.body)
        OBVIOUS
      <4> HIDE DEF z
      <4>3. ChunkParts(m, w, base, z)
        BY <1>7, <2>1, <2>4, <4>1, <4>2, ChunkedHas
      <4> QED BY <4>3 DEF ChunkParts
    <3>3. \A i \in 1 .. z + 1 : x.c[i] = base + From(i)
      <4> TAKE i \in 1 .. z + 1
      <4>1. x.c[i] = IF i = 1 THEN base ELSE base + 4 * i - 3
        BY <1>2
      <4> HIDE DEF z
      <4> QED BY <2>1, <3>2, <4>1 DEF From
    <3> HIDE DEF z, d
    <3>4. \A i \in 1 .. z + 1 : x.c[i] \in Nat /\ x.c[i] >= base + i - 1
      BY <2>1, <3>2, <3>3 DEF From
    <3>5. ASSUME NEW i \in 1 .. z PROVE Chunk(x, i)
      <4>1. x.c[i] = base + From(i) /\ x.c[i + 1] = base + From(i + 1)
        BY <3>2, <3>3
      <4>2. From(i + 1) = From(i) + (IF i = 1 THEN 5 ELSE 4) /\ From(i) \in Nat
        BY <3>2 DEF From
      <4>3. x.c[i + 1] = x.c[i] + (IF i = 1 THEN 5 ELSE 4)
        BY <2>1, <4>1, <4>2
      <4>4. /\ w[base + From(i) + 1] = "d1" /\ w[base + From(i) + 2] = "lf"
            /\ w[base + From(i) + 3] = m.body[i]
            /\ IF i = 1 THEN w[base + From(i) + 4] = "cr" /\ w[base + From(i) + 5] = "lf"
                        ELSE w[base + From(i) + 4] = "lf"
        BY <3>2
      <4> QED BY <3>1, <4>1, <4>3, <4>4 DEF Chunk
    <3>6. x.c[1] = base /\ x.c[z + 1] = base + From(z + 1)
      BY <2>1, <3>2, <3>3 DEF From
    <3>7. Len(w) = x.c[z + 1] + 3
      <4>1. From(z + 1) \in Nat
        BY <3>2 DEF From
      <4> QED BY <2>1, <2>2, <3>2, <3>6, <4>1
    <3>8. z = Len(x.body)
      BY <3>1 DEF z
    <3> QED BY <3>1, <3>2, <3>4, <3>5, <3>6, <3>7, <3>8 DEF Follows
  <2> QED BY <2>3, <2>4
<1>15. /\ x.cl = 0 \/ x.te = 0
       /\ Len(x.body) > 0 => x.cl # 0 \/ x.te # 0
       /\ {x.co, x.ce, x.cl, x.te} \subseteq 0 .. x.n
       /\ x.body \in Seq({x.body[i] : i \in 1 .. Len(x.body)})
  <2>1. /\ x.cl = 0 \/ x.te = 0
        /\ Len(x.body) > 0 => x.cl # 0 \/ x.te # 0
        /\ {x.co, x.ce, x.cl, x.te} \subseteq 0 .. x.n
    BY <1>1, <1>3, <1>4, <1>5 DEF Proper
  <2>2. m.body \in Seq({m.body[i] : i \in 1 .. Len(m.body)})
    BY DEF Proper
  <2>3. ASSUME x.body = <<"zip">> PROVE x.body \in Seq({x.body[i] : i \in 1 .. Len(x.body)})
    BY <2>3
  <2>4. x.body = m.body \/ x.body = <<"zip">>
    BY <1>1
  <2> QED BY <2>1, <2>2, <2>3, <2>4
<1>16. x.method = "HEAD" => Len(x.body) = 0 /\ x.te = 0
  <2> SUFFICES ASSUME m.method = "HEAD" PROVE Len(x.body) = 0 /\ x.te = 0
    BY <1>1
  <2>1. m.body = <<>> /\ m.form # "chunked" /\ (m.form = "gzip" => m.body = Zipped)
    BY DEF Proper
  <2>2. m.form # "gzip"
    BY <2>1 DEF Zipped
  <2> QED BY <1>1, <2>1, <2>2
<1>17. x.role \in {"server", "client"} /\ x.eol \in {1, 2} /\ x.n \in Nat
       /\ x.n = n /\ x.base = x.h[x.n] + x.eol /\ x.w[x.base] = "lf" /\ (x.eol = 2 => x.w[x.base - 1] = "cr")
  BY <1>1, <1>4, <1>5, <1>10, <1>13
<1>18. Laid(x)
  BY <1>10, <1>11, <1>12, <1>14, <1>15, <1>16, <1>17 DEF Laid
<1>19. IsSeq(x.w)
  BY <1>1, <1>7
<1> QED BY <1>18, <1>19 DEF x

Answered(a) == a.code \notin Separators /\ a.body \in Seq(STRING) /\ Len(a.body) <= 4

LEMMA AnswersAre == ASSUME NEW i \in 1 .. Len(Answers) PROVE Answered(Answers[i])
  BY HttpAssumption, MessageAssumption DEF Answered

Persisting(e) ==
  IF CheckHttpKeepAlive(e) THEN Field("Connection", <<"keep-alive">>, CrLf)
  ELSE IF e.version = "HTTP/1.1" THEN Field("Connection", <<"close">>, CrLf) ELSE <<>>

ReplyParts(e, a, w, p) ==
  /\ IsSeq(w) /\ p \in Nat
  /\ Has(w, 0, <<e.version, "sp", a.code, "sp", "reason">>)
  /\ Has(w, 5, CrLf) /\ Has(w, 7, Persisting(e))
  /\ Has(w, 7 + p, Field("Content-Type", <<"json">>, CrLf)) /\ Has(w, 7 + p + 6, Length(a.body))
  /\ Has(w, 7 + p + 12, CrLf) /\ Has(w, 7 + p + 14, a.body)
  /\ Len(w) = 7 + p + 14 + Len(a.body)

LEMMA ReplyHas ==
  ASSUME NEW e, NEW a, Answered(a), NEW w, w = Reply(e, a), NEW p, p = Len(Persisting(e))
  PROVE  ReplyParts(e, a, w, p)
<1> DEFINE s == <<e.version, "sp", a.code, "sp", "reason">>
           k == Persisting(e)
           t == Field("Content-Type", <<"json">>, CrLf)
           l == Length(a.body)
           d == a.body
<1>1. IsSeq(s) /\ Len(s) = 5
  <2>1. IsSeq(s)
    BY Tuples
  <2> QED BY <2>1
<1>2. IsSeq(CrLf) /\ Len(CrLf) = 2
  <2>1. IsSeq(<<"cr", "lf">>)
    BY Tuples
  <2> QED BY <2>1 DEF CrLf
<1>3. IsSeq(k) /\ p = Len(k) /\ p \in Nat
  <2>1. IsSeq(Field("Connection", <<"keep-alive">>, CrLf)) /\ IsSeq(Field("Connection", <<"close">>, CrLf))
    BY Tuples, Fields
  <2>2. IsSeq(<<>>)
    BY Tuples
  <2>3. IsSeq(k)
    BY <2>1, <2>2 DEF Persisting
  <2> QED BY <2>3, SeqLen
<1>4. IsSeq(t) /\ Len(t) = 6
  <2>1. IsSeq(t)
    BY Tuples, Fields
  <2>2. Len(t) = 4 + Len(CrLf)
    BY <2>1, HasWhole, HasField
  <2> QED BY <1>2, <2>1, <2>2
<1>5. IsSeq(l) /\ IsSeq(d) /\ Len(l) = 6 /\ Len(d) \in Nat
  <2>1. IsSeq(l) /\ IsSeq(d) /\ Len(d) \in Nat
    BY Lengths DEF Answered, IsSeq
  <2>2. Len(a.body) \in Nat /\ Len(a.body) <= 4 /\ Has(Length(a.body), 0, Length(a.body))
    BY <2>1, HasWhole DEF Answered
  <2>3. Len(Length(a.body)) = 6
    BY <2>1, <2>2, LengthSays
  <2> QED BY <2>1, <2>3
<1>6. w = ((s \o CrLf) \o k) \o (((t \o l) \o CrLf) \o d)
  BY DEF Reply, StartLine, Persisting
<1> HIDE DEF s, k, t, l, d
<1>7. IsSeq(s \o CrLf) /\ Len(s \o CrLf) = 7
  <2>1. IsSeq(s \o CrLf) /\ Len(s \o CrLf) = Len(s) + Len(CrLf)
    BY <1>1, <1>2, Joined
  <2> QED BY <1>1, <1>2, <2>1
<1>8. IsSeq((s \o CrLf) \o k) /\ Len((s \o CrLf) \o k) = 7 + p
  BY <1>3, <1>7, Joined
<1>9. IsSeq(t \o l) /\ Len(t \o l) = 12
  <2>1. IsSeq(t \o l) /\ Len(t \o l) = Len(t) + Len(l)
    BY <1>4, <1>5, Joined
  <2> QED BY <1>4, <1>5, <2>1
<1>10. IsSeq((t \o l) \o CrLf) /\ Len((t \o l) \o CrLf) = 14
  <2>1. IsSeq((t \o l) \o CrLf) /\ Len((t \o l) \o CrLf) = Len(t \o l) + Len(CrLf)
    BY <1>2, <1>9, Joined
  <2> QED BY <1>2, <1>9, <2>1
<1> DEFINE r == ((t \o l) \o CrLf) \o d
<1>11. IsSeq(r) /\ Len(r) = 14 + Len(d)
  BY <1>5, <1>10, Joined
<1>12. IsSeq(w) /\ Len(w) = 7 + p + 14 + Len(d) /\ Has(w, 0, w)
  <2>1. IsSeq(w) /\ Len(w) = (7 + p) + (14 + Len(d))
    <3>1. IsSeq((s \o CrLf) \o k) /\ Len((s \o CrLf) \o k) = 7 + p /\ IsSeq(r) /\ Len(r) = 14 + Len(d)
      BY <1>8, <1>11
    <3> DEFINE q == (s \o CrLf) \o k
    <3>2. w = q \o r
      BY <1>6
    <3> HIDE DEF q, r
    <3>3. IsSeq(q \o r) /\ Len(q \o r) = Len(q) + Len(r)
      BY <3>1, Joined DEF q
    <3> QED BY <3>1, <3>2, <3>3 DEF q
  <2> QED BY <1>3, <1>5, <2>1, HasWhole
<1>13. Has(w, 0, (s \o CrLf) \o k) /\ Has(w, 7 + p, r)
  BY <1>6, <1>8, <1>11, <1>12, HasPair
<1>14. Has(w, 0, s \o CrLf) /\ Has(w, 7, k)
  BY <1>3, <1>7, <1>12, <1>13, HasPair
<1>15. Has(w, 0, s) /\ Has(w, 5, CrLf)
  BY <1>1, <1>2, <1>12, <1>14, HasPair
<1>16. 7 + p \in Nat
  BY <1>3
<1>17. Has(w, 7 + p, (t \o l) \o CrLf) /\ Has(w, (7 + p) + 14, d)
  <2> DEFINE u == (t \o l) \o CrLf
             o == 7 + p
  <2>1. IsSeq(u) /\ Len(u) = 14 /\ Has(w, o, u \o d) /\ o \in Nat
    BY <1>10, <1>13, <1>16
  <2> HIDE DEF u, o
  <2>2. Has(w, o, u) /\ Has(w, o + Len(u), d)
    BY <1>5, <1>12, <2>1, HasParts
  <2>3. Has(w, o, u) /\ Has(w, o + 14, d)
    BY <2>1, <2>2
  <2> QED BY <2>3 DEF u, o
<1>18. Has(w, 7 + p, t \o l) /\ Has(w, (7 + p) + 12, CrLf)
  <2> DEFINE u == t \o l
             o == 7 + p
  <2>1. IsSeq(u) /\ Len(u) = 12 /\ Has(w, o, u \o CrLf) /\ o \in Nat
    BY <1>9, <1>16, <1>17
  <2> HIDE DEF u, o
  <2>2. Has(w, o, u) /\ Has(w, o + Len(u), CrLf)
    BY <1>2, <1>12, <2>1, HasParts
  <2>3. Has(w, o, u) /\ Has(w, o + 12, CrLf)
    BY <2>1, <2>2
  <2> QED BY <2>3 DEF u, o
<1>19. Has(w, 7 + p, t) /\ Has(w, (7 + p) + 6, l)
  <2> DEFINE o == 7 + p
  <2>1. Has(w, o, t \o l) /\ o \in Nat
    BY <1>16, <1>18
  <2> HIDE DEF o
  <2>2. Has(w, o, t) /\ Has(w, o + Len(t), l)
    BY <1>4, <1>5, <1>12, <2>1, HasParts
  <2>3. Has(w, o, t) /\ Has(w, o + 6, l)
    BY <1>4, <2>2
  <2> QED BY <2>3 DEF o
<1> QED BY <1>3, <1>12, <1>14, <1>15, <1>17, <1>18, <1>19 DEF ReplyParts, s, k, t, l, d

LEMMA AnswerLaid ==
  ASSUME NEW e, e.version \in Versions, NEW a, Answered(a)
  PROVE  Laid(AnswerText(e, a)) /\ IsSeq(AnswerText(e, a).w)
<1> DEFINE x == AnswerText(e, a)
           w == Reply(e, a)
           ka == CheckHttpKeepAlive(e)
           co == IF ka \/ e.version = "HTTP/1.1" THEN 1 ELSE 0
           n == co + 2
           base == 9 + n * 6
           keep == IF ka THEN "keep-alive" ELSE "close"
           p == Len(Persisting(e))
<1>1. /\ x.role = "client" /\ x.w = w /\ x.eol = 2 /\ x.n = n
      /\ \A j \in 0 .. n : x.h[j] = 7 + j * 6
      /\ x.base = base /\ x.co = co /\ x.ce = 0 /\ x.cl = n /\ x.te = 0
      /\ x.keep = keep /\ x.method = Empty /\ x.uri = Empty /\ x.version = e.version
      /\ x.code = a.code /\ x.body = a.body
  BY DEF AnswerText
<1>2. ReplyParts(e, a, w, p)
  BY ReplyHas
<1>3. co \in {0, 1} /\ n = co + 2 /\ base = 9 + n * 6 /\ n \in {2, 3}
  OBVIOUS
<1> HIDE DEF x, w
<1>4. p = co * 6 /\ (co = 1 => Says(w, 7, "Connection", keep, 2))
  <2>0. Has(w, 7, Persisting(e)) /\ IsSeq(w) /\ Len(CrLf) = 2 /\ 7 \in Nat
    BY <1>2 DEF ReplyParts, CrLf
  <2>1. CASE ka \/ e.version = "HTTP/1.1"
    <3>1. Persisting(e) = Field("Connection", <<keep>>, CrLf)
      BY <2>1 DEF Persisting
    <3> HIDE DEF keep
    <3>2. Says(w, 7, "Connection", keep, Len(CrLf)) /\ Len(Field("Connection", <<keep>>, CrLf)) = 4 + Len(CrLf)
      BY <2>0, <3>1, FieldSays
    <3>3. co = 1
      BY <2>1
    <3> HIDE DEF co
    <3>4. p = 6
      BY <2>0, <3>1, <3>2
    <3> QED BY <2>0, <3>2, <3>3, <3>4
  <2>2. CASE ~ka /\ e.version # "HTTP/1.1"
    <3>1. Persisting(e) = <<>> /\ co = 0
      BY <2>2 DEF Persisting
    <3> QED BY <3>1
  <2> QED BY <2>1, <2>2
<1> HIDE DEF ka, co, n, base, keep, p
<1>5. /\ Says(w, 7 + p, "Content-Type", "json", 2)
      /\ \E d \in DOMAIN Digits : /\ Digits[d] = Len(a.body) /\ d \notin Separators
                                  /\ Says(w, 7 + p + 6, "Content-Length", d, 2)
  <2> DEFINE o == 7 + p
             q == 7 + p + 6
             l == Len(a.body)
  <2>1. o \in Nat /\ q \in Nat /\ IsSeq(w) /\ Has(w, o, Field("Content-Type", <<"json">>, CrLf))
        /\ Has(w, q, Length(a.body)) /\ Len(CrLf) = 2 /\ l \in Nat /\ l <= 4
    BY <1>2 DEF ReplyParts, CrLf, Answered
  <2> HIDE DEF o, q
  <2>2. Says(w, o, "Content-Type", "json", 2)
    BY <2>1, FieldSays
  <2>3. \E d \in DOMAIN Digits : Digits[d] = l /\ d \notin Separators /\ Says(w, q, "Content-Length", d, 2)
    BY <2>1, LengthSays
  <2> QED BY <2>2, <2>3 DEF o, q
<1>6. /\ x.h[0] = 7 /\ 7 + p = x.h[co] /\ 7 + p + 6 = x.h[co + 1] /\ 7 + p + 12 = x.h[n] /\ base = x.h[n] + 2
      /\ \A j \in 0 .. n : x.h[j] \in Nat /\ x.h[j] >= 7
      /\ \A j \in 0 .. n - 1 : x.h[j + 1] = x.h[j] + 4 + 2
  <2>1. CASE co = 0
    <3>1. n = 2 /\ p = 0 /\ base = 21
      BY <1>3, <1>4, <2>1
    <3>2. x.h[0] = 7 /\ x.h[1] = 13 /\ x.h[2] = 19
      BY <1>1, <3>1
    <3> QED BY <2>1, <3>1, <3>2
  <2>2. CASE co = 1
    <3>1. n = 3 /\ p = 6 /\ base = 27
      BY <1>3, <1>4, <2>2
    <3>2. x.h[0] = 7 /\ x.h[1] = 13 /\ x.h[2] = 19 /\ x.h[3] = 25
      BY <1>1, <3>1
    <3> QED BY <2>2, <3>1, <3>2
  <2> QED BY <1>3, <2>1, <2>2
<1>7. ASSUME NEW j \in 0 .. n - 1 PROVE Line(x, j)
  <2>1. x.h[j + 1] = x.h[j] + 4 + x.eol /\ x.w = w /\ x.eol = 2
    BY <1>1, <1>6
  <2>2. CASE j + 1 = co
    <3>1. co = 1 /\ j = 0 /\ Says(w, x.h[j], "Connection", keep, 2)
      BY <1>3, <1>4, <1>6, <2>2
    <3>2. j + 1 = x.co /\ j + 1 # x.ce /\ j + 1 # x.cl /\ j + 1 # x.te /\ keep = x.keep
      BY <1>1, <1>3, <3>1
    <3>3. "Connection" \notin Separators /\ keep \notin Separators
      BY DEF Separators, keep
    <3> QED BY <2>1, <3>1, <3>2, <3>3, LineSays
  <2>3. CASE j = co
    <3>1. Says(w, x.h[j], "Content-Type", "json", 2)
      BY <1>5, <1>6, <2>3
    <3>2. j + 1 # x.co /\ j + 1 # x.ce /\ j + 1 # x.cl /\ j + 1 # x.te
      BY <1>1, <1>3, <2>3
    <3>3. "Content-Type" \notin Separators /\ "json" \notin Separators
      BY DEF Separators
    <3> QED BY <2>1, <3>1, <3>2, <3>3, LineSays
  <2>4. CASE j = co + 1
    <3>1. PICK d \in DOMAIN Digits : /\ Digits[d] = Len(a.body) /\ d \notin Separators
                                     /\ Says(w, x.h[j], "Content-Length", d, 2)
      BY <1>5, <1>6, <2>4
    <3>2. j + 1 # x.co /\ j + 1 # x.ce /\ j + 1 = x.cl /\ j + 1 # x.te /\ x.body = a.body
      BY <1>1, <1>3, <2>4
    <3>3. "Content-Length" \notin Separators
      BY DEF Separators
    <3> QED BY <2>1, <3>1, <3>2, <3>3, LineSays
  <2> QED BY <1>3, <2>2, <2>3, <2>4
<1>8. Begins(x)
  <2>1. w[0 + 1] = e.version /\ w[0 + 2] = "sp" /\ w[0 + 3] = a.code /\ w[0 + 4] = "sp" /\ w[0 + 5] = "reason"
    <3>1. Has(w, 0, <<e.version, "sp", a.code, "sp", "reason">>)
      BY <1>2 DEF ReplyParts
    <3> QED BY <3>1 DEF Has
  <2>2. w[5 + 1] = "cr" /\ w[5 + 2] = "lf"
    <3>1. Has(w, 5, <<"cr", "lf">>)
      BY <1>2 DEF ReplyParts, CrLf
    <3> QED BY <3>1 DEF Has
  <2>3. x.role = "client" /\ x.role # "server" /\ x.eol = 2 /\ x.h[0] = 7 /\ x.w = w /\ x.te = 0
    BY <1>1, <1>6
  <2> QED BY <1>1, <2>1, <2>2, <2>3 DEF Begins, Answered
<1>9. w[base] = "lf" /\ w[base - 1] = "cr"
  <2>1. w[(7 + p + 12) + 1] = "cr" /\ w[(7 + p + 12) + 2] = "lf" /\ p \in Nat
    <3>1. Has(w, 7 + p + 12, <<"cr", "lf">>) /\ p \in Nat
      BY <1>2 DEF ReplyParts, CrLf
    <3> QED BY <3>1 DEF Has
  <2>2. base = (7 + p + 12) + 2 /\ base - 1 = (7 + p + 12) + 1
    BY <1>6, <2>1
  <2> QED BY <2>1, <2>2
<1>10. Follows(x)
  <2>1. 7 + p + 14 = base
    BY <1>3, <1>4
  <2>2. Has(w, base, a.body) /\ Len(w) = base + Len(a.body)
    BY <1>2, <2>1 DEF ReplyParts
  <2> QED BY <1>1, <2>2 DEF Follows, Has
<1>11. /\ x.cl = 0 \/ x.te = 0
       /\ Len(x.body) > 0 => x.cl # 0 \/ x.te # 0
       /\ {x.co, x.ce, x.cl, x.te} \subseteq 0 .. x.n
       /\ x.body \in Seq({x.body[i] : i \in 1 .. Len(x.body)})
  <2>1. x.co = co /\ x.ce = 0 /\ x.cl = n /\ x.te = 0 /\ x.n = n /\ x.body = a.body
    BY <1>1
  <2>2. n \in Nat /\ n # 0 /\ co \in 0 .. n /\ 0 \in 0 .. n /\ n \in 0 .. n
    BY <1>3
  <2>3. x.body \in Seq({x.body[i] : i \in 1 .. Len(x.body)})
    <3> DEFINE q == a.body
    <3>1. q \in Seq(STRING)
      BY DEF Answered
    <3> HIDE DEF q
    <3>2. q \in Seq({q[i] : i \in 1 .. Len(q)})
      BY <3>1
    <3> QED BY <2>1, <3>2 DEF q
  <2> QED BY <2>1, <2>2, <2>3
<1>12. x.method = "HEAD" => Len(x.body) = 0 /\ x.te = 0
  <2>1. x.method # "HEAD"
    <3>1. x.method = Empty
      BY <1>1
    <3>2. Empty # "HEAD"
      BY Zenon DEF Empty
    <3> QED BY <3>1, <3>2
  <2> QED BY <2>1
<1>13. x.role \in {"server", "client"} /\ x.eol \in {1, 2} /\ x.n \in Nat
       /\ x.n = n /\ x.base = x.h[x.n] + x.eol /\ x.w[x.base] = "lf" /\ (x.eol = 2 => x.w[x.base - 1] = "cr")
  BY <1>1, <1>3, <1>6, <1>9
<1>14. Laid(x)
  BY <1>6, <1>7, <1>8, <1>10, <1>11, <1>12, <1>13 DEF Laid
<1>15. IsSeq(x.w)
  BY <1>1, <1>2 DEF ReplyParts
<1> QED BY <1>14, <1>15 DEF x

LEMMA ScanTo ==
  ASSUME NEW s, Fill(s) \in Nat, s.p \in 0 .. Fill(s), NEW stops, NEW r \in Nat, r >= s.p,
         \A k \in s.p .. r - 1 : k < Fill(s) => At(s, k) \notin stops,
         r < Fill(s) => At(s, r) \in stops
  PROVE  Scan(s, stops) = IF r < Fill(s) THEN r ELSE Fill(s)
<1> DEFINE S == {q \in s.p .. Fill(s) : q = Fill(s) \/ At(s, q) \in stops}
           m == IF r < Fill(s) THEN r ELSE Fill(s)
<1>1. S \subseteq Nat /\ m \in S
  OBVIOUS
<1>2. ASSUME NEW q \in S PROVE m <= q
  OBVIOUS
<1>3. Min(S) \in S /\ Min(S) \in Nat /\ m \in Nat /\ Min(S) <= m
  <2> HIDE DEF S, m
  <2> QED BY <1>1, LeastOf
<1>4. Min(S) = m
  <2> HIDE DEF S, m
  <2> QED BY <1>2, <1>3
<1> QED BY <1>4 DEF Scan

LEMMA BlanksTo ==
  ASSUME NEW s, Fill(s) \in Nat, s.p \in 0 .. Fill(s), NEW r \in Nat, r >= s.p,
         \A k \in s.p .. r - 1 : k < Fill(s) => At(s, k) = "sp",
         r < Fill(s) => At(s, r) # "sp"
  PROVE  Blanks(s) = IF r < Fill(s) THEN r ELSE Fill(s)
<1> DEFINE S == {q \in s.p .. Fill(s) : q = Fill(s) \/ At(s, q) # "sp"}
           m == IF r < Fill(s) THEN r ELSE Fill(s)
<1>1. S \subseteq Nat /\ m \in S
  OBVIOUS
<1>2. ASSUME NEW q \in S PROVE m <= q
  OBVIOUS
<1>3. Min(S) \in S /\ Min(S) \in Nat /\ m \in Nat /\ Min(S) <= m
  <2> HIDE DEF S, m
  <2> QED BY <1>1, LeastOf
<1>4. Min(S) = m
  <2> HIDE DEF S, m
  <2> QED BY <1>2, <1>3
<1> QED BY <1>4 DEF Blanks

(* What a turn makes of a parser that stands in message x: it goes on to    *)
(* stand in it unless what has arrived ends between the cr and the lf that *)
(* end the headers.                                                        *)
Reads(x, s) ==
  /\ s.ret = "run" => Stand(x, s.e, s.b.data, s.p)
  /\ s.ret = "more" => Stand(x, s.e, s.b.data, s.b.process) \/ (Tear(s.e, s.b) /\ Cleft(x, Len(s.b.data)))
  /\ s.ret = "done" => Finished(x, s.e, s.b)
  /\ s.ret = "invalid" => x.role = "server" /\ x.method \notin Methods

LEMMA MoreReads ==
  ASSUME NEW o, NEW i, NEW s, Going(o, i, s), NEW q, NEW x, Stand(x, s.e, s.b.data, q)
  PROVE  Reads(x, More(s, q))
<1> DEFINE t == More(s, q)
<1>1. t.e = s.e /\ t.b.data = s.b.data /\ t.b.process = q /\ t.ret = "more"
  BY DEF More, Going, Same, Data
<1> HIDE DEF t
<1>2. Reads(x, t)
  BY <1>1 DEF Reads
<1> QED BY <1>2 DEF t

LEMMA WordReads ==
  ASSUME NEW o, NEW i, NEW s, Going(o, i, s), NEW q, NEW refused, NEW e, NEW x,
         q = Fill(s) => Stand(x, s.e, s.b.data, q),
         q # Fill(s) => /\ refused => x.role = "server" /\ x.method \notin Methods
                        /\ ~refused => Stand(x, e, s.b.data, q + 1)
  PROVE  Reads(x, Word(s, q, refused, e))
<1>1. CASE q = Fill(s)
  <2>1. Reads(x, More(s, q))
    BY <1>1, MoreReads
  <2> QED BY <1>1, <2>1 DEF Word
<1>2. CASE q # Fill(s) /\ refused
  <2>1. Word(s, q, refused, e) = Invalid(s) /\ Invalid(s).ret = "invalid"
    BY <1>2 DEF Word, Invalid, Going, Same
  <2> HIDE DEF Invalid
  <2> QED BY <1>2, <2>1 DEF Reads
<1>3. CASE q # Fill(s) /\ ~refused
  <2> DEFINE t == [s EXCEPT !.p = q + 1, !.e = e]
  <2>1. Word(s, q, refused, e) = t
    BY <1>3 DEF Word
  <2>2. t.e = e /\ t.p = q + 1 /\ t.b = s.b /\ t.ret = "run"
    BY DEF Going, Same
  <2> HIDE DEF t
  <2>3. Reads(x, t)
    BY <1>3, <2>2 DEF Reads
  <2> QED BY <2>1, <2>3
<1> QED BY <1>1, <1>2, <1>3

(* A turn that begins where message x says.                                *)
On(x, o, i, s) == Laid(x) /\ Going(o, i, s) /\ Stand(x, s.e, s.b.data, s.p)

LEMMA OnPlace ==
  ASSUME NEW x, NEW o, NEW i, NEW s, On(x, o, i, s)
  PROVE  /\ Fill(s) \in Nat /\ Fill(s) = Len(s.b.data) /\ s.p \in 0 .. Fill(s) /\ s.p \in Nat
         /\ DOMAIN s.e = EnvFields /\ s.e.offset \in Nat /\ Laid(x) /\ Going(o, i, s)
         /\ Common(x, s.e, s.b.data) /\ IsSeq(s.b.data)
  BY Place DEF On, EnvOK, Fill, Stand, InChunks

LEMMA BeforeReads ==
  ASSUME NEW x, NEW o, NEW i, NEW s, On(x, o, i, s), NEW next, NEW r \in Nat, r >= s.p,
         \A k \in s.p .. r - 1 : k < Fill(s) => At(s, k) = "sp",
         r < Fill(s) => At(s, r) \notin Separators,
         \A q \in s.p .. r : q = Fill(s) => Stand(x, s.e, s.b.data, q),
         r < Fill(s) => Stand(x, [s.e EXCEPT !.offset = r, !.step = next], s.b.data, r + 1)
  PROVE  Reads(x, Before(s, next))
<1> DEFINE q == Blanks(s)
<1>1. /\ Fill(s) \in Nat /\ s.p \in 0 .. Fill(s) /\ s.p \in Nat /\ Going(o, i, s)
  BY OnPlace
<1>2. r < Fill(s) => At(s, r) # "sp" /\ At(s, r) # "lf"
  BY DEF Separators
<1>3. q = IF r < Fill(s) THEN r ELSE Fill(s)
  BY <1>1, <1>2, BlanksTo
<1>4. Before(s, next) = Word(s, q, At(s, q) = "lf", [s.e EXCEPT !.offset = q, !.step = next])
  BY DEF Before
<1> HIDE DEF q
<1>5. q = Fill(s) => q \in s.p .. r
  BY <1>1, <1>3
<1>6. q # Fill(s) => q = r /\ r < Fill(s)
  BY <1>1, <1>3
<1> DEFINE e == [s.e EXCEPT !.offset = q, !.step = next]
           refused == At(s, q) = "lf"
<1>7. q = Fill(s) => Stand(x, s.e, s.b.data, q)
  BY <1>5
<1>8. q # Fill(s) => ~refused /\ Stand(x, e, s.b.data, q + 1)
  BY <1>2, <1>6
<1> HIDE DEF e, refused
<1>9. Reads(x, Word(s, q, refused, e))
  BY <1>1, <1>7, <1>8, WordReads
<1> QED BY <1>4, <1>9 DEF e, refused

LEMMA AtIs ==
  ASSUME NEW x, NEW o, NEW i, NEW s, On(x, o, i, s), Exact(x, s.b.data), NEW k \in Nat, k < Fill(s)
  PROVE  At(s, k) = x.w[k + 1]
<1>1. k + 1 \in 1 .. Len(s.b.data)
  BY OnPlace
<1> QED BY <1>1 DEF At, Exact

LEMMA ReadOne ==
  ASSUME NEW x, NEW o, NEW i, NEW s, On(x, o, i, s), NEW q \in Nat, q <= Fill(s), s.e.offset + 1 = q
  PROVE  Read(s, q) = <<s.b.data[q]>>
<1>1. q >= 1 /\ q <= Len(s.b.data) /\ IsSeq(s.b.data)
  BY OnPlace
<1>2. SubSeq(s.b.data, q, q) = <<s.b.data[q]>>
  <2>1. PICK S : s.b.data \in Seq(S)
    BY <1>1 DEF IsSeq
  <2> DEFINE d == s.b.data
  <2>2. d \in Seq(S) /\ q \in 1 .. Len(d)
    BY <1>1, <2>1
  <2> HIDE DEF d
  <2>3. SubSeq(d, q, q) = <<d[q]>>
    <3>1. SubSeq(d, q, q) \in Seq(S) /\ Len(SubSeq(d, q, q)) = 1 /\ SubSeq(d, q, q)[1] = d[q]
      BY <2>2, SubSeqProperties
    <3>2. <<d[q]>> \in Seq(S) /\ Len(<<d[q]>>) = 1 /\ <<d[q]>>[1] = d[q]
      BY <2>2
    <3> DEFINE u == SubSeq(d, q, q)
               v == <<d[q]>>
    <3>3. u \in Seq(S) /\ v \in Seq(S) /\ Len(u) = Len(v) /\ \A j \in 1 .. Len(u) : u[j] = v[j]
      BY <3>1, <3>2
    <3> HIDE DEF u, v
    <3>4. u = v
      BY <3>3, SeqEqual
    <3> QED BY <3>4 DEF u, v
  <2> QED BY <2>3 DEF d
<1> QED BY <1>2 DEF Read

LEMMA StartOn ==
  ASSUME NEW x, NEW o, NEW i, NEW s, On(x, o, i, s), s.e.step \in Startings
  PROVE  Exact(x, s.b.data) /\ InStart(x, s.e, s.p)
  BY DEF On, Stand, InChunks, Startings, Headings

LEMMA METHOD0Reads ==
  ASSUME NEW x, NEW o, NEW i, NEW s, On(x, o, i, s), s.e.step = "METHOD0"
  PROVE  Reads(x, METHOD0(s))
<1> DEFINE r == 0
           e == [s.e EXCEPT !.offset = r, !.step = "METHOD"]
<1>1. Exact(x, s.b.data) /\ InStart(x, s.e, s.p) /\ Common(x, s.e, s.b.data) /\ Laid(x)
  BY StartOn, OnPlace DEF Startings
<1>2. s.p = r /\ x.role = "server" /\ Begins(x) /\ r \in Nat /\ r >= s.p
  BY <1>1 DEF InStart, Laid
<1>3. r < Fill(s) => At(s, r) \notin Separators
  BY <1>1, <1>2, AtIs DEF Begins
<1>4. Stand(x, e, s.b.data, r + 1)
  <2>1. DOMAIN s.e = EnvFields
    BY OnPlace
  <2> QED BY <1>1, <1>2, <2>1 DEF Stand, Common, InStart, Blank, EnvFields, Startings
<1>5. \A q \in s.p .. r : q = Fill(s) => Stand(x, s.e, s.b.data, q)
  BY <1>2 DEF On
<1>6. \A k \in s.p .. r - 1 : k < Fill(s) => At(s, k) = "sp"
  BY <1>2
<1> HIDE DEF r
<1>7. Reads(x, Before(s, "METHOD"))
  BY <1>2, <1>3, <1>4, <1>5, <1>6, BeforeReads
<1> QED BY <1>7 DEF METHOD0

LEMMA METHODReads ==
  ASSUME NEW x, NEW o, NEW i, NEW s, On(x, o, i, s), s.e.step = "METHOD"
  PROVE  Reads(x, METHOD(s))
<1> DEFINE q == Scan(s, {"sp", "lf"})
           v == Read(s, q)
           refused == At(s, q) = "lf" \/ Len(v) # 1 \/ v[1] \notin Methods
           e == [s.e EXCEPT !.method = v[1], !.step = "URI0"]
<1>1. Exact(x, s.b.data) /\ InStart(x, s.e, s.p) /\ Common(x, s.e, s.b.data) /\ Laid(x)
  BY StartOn, OnPlace DEF Startings
<1>2. s.p = 1 /\ s.e.offset = 0 /\ x.role = "server" /\ Begins(x)
  BY <1>1 DEF InStart, Laid, Common
<1>3. Fill(s) \in Nat /\ s.p \in 0 .. Fill(s) /\ Going(o, i, s) /\ DOMAIN s.e = EnvFields /\ 1 \in Nat
  BY OnPlace
<1>4. 1 < Fill(s) => At(s, 1) = "sp"
  BY <1>1, <1>2, AtIs DEF Begins
<1>5. q = 1
  <2> DEFINE p == 1
             stops == {"sp", "lf"}
  <2>1. p \in Nat /\ p >= s.p /\ p <= Fill(s) /\ (p < Fill(s) => At(s, p) \in stops)
        /\ \A k \in s.p .. p - 1 : k < Fill(s) => At(s, k) \notin stops
    BY <1>2, <1>3, <1>4
  <2> HIDE DEF p, stops
  <2>2. Scan(s, stops) = IF p < Fill(s) THEN p ELSE Fill(s)
    BY <1>3, <2>1, ScanTo
  <2>3. Scan(s, stops) = p
    BY <1>3, <2>1, <2>2
  <2> QED BY <2>3 DEF p, stops
<1>6. v = <<x.method>>
  <2> HIDE DEF q
  <2>1. v = <<s.b.data[q]>>
    BY <1>2, <1>3, <1>5, ReadOne
  <2>2. q \in 1 .. Len(s.b.data)
    BY <1>2, <1>3, <1>5, OnPlace
  <2>3. s.b.data[q] = x.w[q]
    BY <1>1, <2>2 DEF Exact
  <2> QED BY <1>2, <1>5, <2>1, <2>3 DEF Begins
<1> HIDE DEF v, q
<1>7. q = Fill(s) => Stand(x, s.e, s.b.data, q)
  BY <1>2, <1>5 DEF On
<1>8. q # Fill(s) /\ refused => x.role = "server" /\ x.method \notin Methods
  BY <1>2, <1>3, <1>4, <1>5, <1>6 DEF BadVersion, Begins
<1>9. q # Fill(s) /\ ~refused => Stand(x, e, s.b.data, q + 1)
  BY <1>1, <1>2, <1>3, <1>5, <1>6
     DEF Stand, Common, InStart, Blank, EnvFields, Startings, Versioned, Begins
<1> HIDE DEF refused, e
<1>10. Reads(x, Word(s, q, refused, e))
  BY <1>3, <1>7, <1>8, <1>9, WordReads
<1> QED BY <1>10 DEF METHOD, refused, e, v, q

LEMMA URI0Reads ==
  ASSUME NEW x, NEW o, NEW i, NEW s, On(x, o, i, s), s.e.step = "URI0"
  PROVE  Reads(x, URI0(s))
<1> DEFINE r == 2
           e == [s.e EXCEPT !.offset = r, !.step = "URI"]
<1>1. Exact(x, s.b.data) /\ InStart(x, s.e, s.p) /\ Common(x, s.e, s.b.data) /\ Laid(x)
  BY StartOn, OnPlace DEF Startings
<1>2. s.p \in {2} /\ x.role = "server" /\ Begins(x) /\ r \in Nat /\ r >= s.p
  BY <1>1 DEF InStart, Laid, Common
<1>3. r < Fill(s) => At(s, r) \notin Separators
  BY <1>1, <1>2, AtIs DEF Begins, Versions, Separators
<1>4. Stand(x, e, s.b.data, r + 1)
  <2>1. DOMAIN s.e = EnvFields
    BY OnPlace
  <2> QED BY <1>1, <1>2, <2>1 DEF Stand, Common, InStart, Blank, EnvFields, Startings, Laid
<1>5. \A q \in s.p .. r : q = Fill(s) => Stand(x, s.e, s.b.data, q)
  BY <1>1, <1>2 DEF On, Stand, InStart, Startings
<1>6. \A k \in s.p .. r - 1 : k < Fill(s) => At(s, k) = "sp"
  BY <1>1, <1>2, AtIs DEF Begins
<1> HIDE DEF r
<1>7. Reads(x, Before(s, "URI"))
  BY <1>2, <1>3, <1>4, <1>5, <1>6, BeforeReads
<1> QED BY <1>7 DEF URI0

LEMMA URIReads ==
  ASSUME NEW x, NEW o, NEW i, NEW s, On(x, o, i, s), s.e.step = "URI"
  PROVE  Reads(x, URI(s))
<1> DEFINE q == Scan(s, {"sp", "lf"})
           v == Read(s, q)
           refused == At(s, q) = "lf"
           e == [s.e EXCEPT !.uri = v[1], !.step = "VERSION0"]
<1>1. Exact(x, s.b.data) /\ InStart(x, s.e, s.p) /\ Common(x, s.e, s.b.data) /\ Laid(x)
  BY StartOn, OnPlace DEF Startings
<1>2. s.p = 3 /\ s.e.offset = 2 /\ x.role = "server" /\ Begins(x)
  BY <1>1 DEF InStart, Laid, Common
<1>3. Fill(s) \in Nat /\ s.p \in 0 .. Fill(s) /\ Going(o, i, s) /\ DOMAIN s.e = EnvFields /\ 3 \in Nat
  BY OnPlace
<1>4. 3 < Fill(s) => At(s, 3) = "sp"
  BY <1>1, <1>2, AtIs DEF Begins
<1>5. q = 3
  <2> DEFINE p == 3
             stops == {"sp", "lf"}
  <2>1. p \in Nat /\ p >= s.p /\ p <= Fill(s) /\ (p < Fill(s) => At(s, p) \in stops)
        /\ \A k \in s.p .. p - 1 : k < Fill(s) => At(s, k) \notin stops
    BY <1>2, <1>3, <1>4
  <2> HIDE DEF p, stops
  <2>2. Scan(s, stops) = IF p < Fill(s) THEN p ELSE Fill(s)
    BY <1>3, <2>1, ScanTo
  <2>3. Scan(s, stops) = p
    BY <1>3, <2>1, <2>2
  <2> QED BY <2>3 DEF p, stops
<1>6. v = <<x.uri>>
  <2> HIDE DEF q
  <2>1. v = <<s.b.data[q]>>
    BY <1>2, <1>3, <1>5, ReadOne
  <2>2. q \in 1 .. Len(s.b.data)
    BY <1>2, <1>3, <1>5, OnPlace
  <2>3. s.b.data[q] = x.w[q]
    BY <1>1, <2>2 DEF Exact
  <2> QED BY <1>2, <1>5, <2>1, <2>3 DEF Begins
<1> HIDE DEF v, q
<1>7. q = Fill(s) => Stand(x, s.e, s.b.data, q)
  BY <1>2, <1>5 DEF On
<1>8. q # Fill(s) /\ refused => FALSE
  BY <1>2, <1>3, <1>4, <1>5, <1>6 DEF BadVersion, Begins
<1>9. q # Fill(s) /\ ~refused => Stand(x, e, s.b.data, q + 1)
  BY <1>1, <1>2, <1>3, <1>5, <1>6
     DEF Stand, Common, InStart, Blank, EnvFields, Startings, Versioned, Begins
<1> HIDE DEF refused, e
<1>10. Reads(x, Word(s, q, refused, e))
  BY <1>3, <1>7, <1>8, <1>9, WordReads
<1> QED BY <1>10 DEF URI, refused, e, v, q

LEMMA VERSION0Reads ==
  ASSUME NEW x, NEW o, NEW i, NEW s, On(x, o, i, s), s.e.step = "VERSION0"
  PROVE  Reads(x, VERSION0(s))
<1> DEFINE r == 5
           e == [s.e EXCEPT !.offset = r, !.step = "VERSION"]
<1>1. Exact(x, s.b.data) /\ InStart(x, s.e, s.p) /\ Common(x, s.e, s.b.data) /\ Laid(x)
  BY StartOn, OnPlace DEF Startings
<1>2. s.p \in {4, 5} /\ x.role = "server" /\ Begins(x) /\ r \in Nat /\ r >= s.p
  BY <1>1 DEF InStart, Laid, Common
<1>3. r < Fill(s) => At(s, r) \notin Separators
  BY <1>1, <1>2, AtIs DEF Begins, Versions, Separators
<1>4. Stand(x, e, s.b.data, r + 1)
  <2>1. DOMAIN s.e = EnvFields
    BY OnPlace
  <2> QED BY <1>1, <1>2, <2>1 DEF Stand, Common, InStart, Blank, EnvFields, Startings, Laid
<1>5. \A q \in s.p .. r : q = Fill(s) => Stand(x, s.e, s.b.data, q)
  BY <1>1, <1>2 DEF On, Stand, InStart, Startings
<1>6. \A k \in s.p .. r - 1 : k < Fill(s) => At(s, k) = "sp"
  BY <1>1, <1>2, AtIs DEF Begins
<1> HIDE DEF r
<1>7. Reads(x, Before(s, "VERSION"))
  BY <1>2, <1>3, <1>4, <1>5, <1>6, BeforeReads
<1> QED BY <1>7 DEF VERSION0

LEMMA RSPVERSION0Reads ==
  ASSUME NEW x, NEW o, NEW i, NEW s, On(x, o, i, s), s.e.step = "RSPVERSION0"
  PROVE  Reads(x, RSPVERSION0(s))
<1> DEFINE r == 0
           e == [s.e EXCEPT !.offset = r, !.step = "RSPVERSION"]
<1>1. Exact(x, s.b.data) /\ InStart(x, s.e, s.p) /\ Common(x, s.e, s.b.data) /\ Laid(x)
  BY StartOn, OnPlace DEF Startings
<1>2. s.p \in {0} /\ x.role = "client" /\ Begins(x) /\ r \in Nat /\ r >= s.p
  BY <1>1 DEF InStart, Laid, Common
<1>3. r < Fill(s) => At(s, r) \notin Separators
  BY <1>1, <1>2, AtIs DEF Begins, Versions, Separators
<1>4. Stand(x, e, s.b.data, r + 1)
  <2>1. DOMAIN s.e = EnvFields
    BY OnPlace
  <2> QED BY <1>1, <1>2, <2>1 DEF Stand, Common, InStart, Blank, EnvFields, Startings, Laid
<1>5. \A q \in s.p .. r : q = Fill(s) => Stand(x, s.e, s.b.data, q)
  BY <1>1, <1>2 DEF On, Stand, InStart, Startings
<1>6. \A k \in s.p .. r - 1 : k < Fill(s) => At(s, k) = "sp"
  BY <1>1, <1>2, AtIs DEF Begins
<1> HIDE DEF r
<1>7. Reads(x, Before(s, "RSPVERSION"))
  BY <1>2, <1>3, <1>4, <1>5, <1>6, BeforeReads
<1> QED BY <1>7 DEF RSPVERSION0

LEMMA RSPVERSIONReads ==
  ASSUME NEW x, NEW o, NEW i, NEW s, On(x, o, i, s), s.e.step = "RSPVERSION"
  PROVE  Reads(x, RSPVERSION(s))
<1> DEFINE q == Scan(s, {"sp", "lf"})
           v == Read(s, q)
           refused == At(s, q) = "lf" \/ BadVersion(v)
           e == [Versioned(s.e, v) EXCEPT !.step = "STATUSCODE0"]
<1>1. Exact(x, s.b.data) /\ InStart(x, s.e, s.p) /\ Common(x, s.e, s.b.data) /\ Laid(x)
  BY StartOn, OnPlace DEF Startings
<1>2. s.p = 1 /\ s.e.offset = 0 /\ x.role = "client" /\ Begins(x)
  BY <1>1 DEF InStart, Laid, Common
<1>3. Fill(s) \in Nat /\ s.p \in 0 .. Fill(s) /\ Going(o, i, s) /\ DOMAIN s.e = EnvFields /\ 1 \in Nat
  BY OnPlace
<1>4. 1 < Fill(s) => At(s, 1) = "sp"
  BY <1>1, <1>2, AtIs DEF Begins
<1>5. q = 1
  <2> DEFINE p == 1
             stops == {"sp", "lf"}
  <2>1. p \in Nat /\ p >= s.p /\ p <= Fill(s) /\ (p < Fill(s) => At(s, p) \in stops)
        /\ \A k \in s.p .. p - 1 : k < Fill(s) => At(s, k) \notin stops
    BY <1>2, <1>3, <1>4
  <2> HIDE DEF p, stops
  <2>2. Scan(s, stops) = IF p < Fill(s) THEN p ELSE Fill(s)
    BY <1>3, <2>1, ScanTo
  <2>3. Scan(s, stops) = p
    BY <1>3, <2>1, <2>2
  <2> QED BY <2>3 DEF p, stops
<1>6. v = <<x.version>>
  <2> HIDE DEF q
  <2>1. v = <<s.b.data[q]>>
    BY <1>2, <1>3, <1>5, ReadOne
  <2>2. q \in 1 .. Len(s.b.data)
    BY <1>2, <1>3, <1>5, OnPlace
  <2>3. s.b.data[q] = x.w[q]
    BY <1>1, <2>2 DEF Exact
  <2> QED BY <1>2, <1>5, <2>1, <2>3 DEF Begins
<1> HIDE DEF v, q
<1>7. q = Fill(s) => Stand(x, s.e, s.b.data, q)
  BY <1>2, <1>5 DEF On
<1>8. q # Fill(s) /\ refused => FALSE
  BY <1>2, <1>3, <1>4, <1>5, <1>6 DEF BadVersion, Begins
<1>9. q # Fill(s) /\ ~refused => Stand(x, e, s.b.data, q + 1)
  BY <1>1, <1>2, <1>3, <1>5, <1>6
     DEF Stand, Common, InStart, Blank, EnvFields, Startings, Versioned, Begins
<1> HIDE DEF refused, e
<1>10. Reads(x, Word(s, q, refused, e))
  BY <1>3, <1>7, <1>8, <1>9, WordReads
<1> QED BY <1>10 DEF RSPVERSION, refused, e, v, q

LEMMA STATUSCODE0Reads ==
  ASSUME NEW x, NEW o, NEW i, NEW s, On(x, o, i, s), s.e.step = "STATUSCODE0"
  PROVE  Reads(x, STATUSCODE0(s))
<1> DEFINE r == 2
           e == [s.e EXCEPT !.offset = r, !.step = "STATUSCODE"]
<1>1. Exact(x, s.b.data) /\ InStart(x, s.e, s.p) /\ Common(x, s.e, s.b.data) /\ Laid(x)
  BY StartOn, OnPlace DEF Startings
<1>2. s.p \in {2} /\ x.role = "client" /\ Begins(x) /\ r \in Nat /\ r >= s.p
  BY <1>1 DEF InStart, Laid, Common
<1>3. r < Fill(s) => At(s, r) \notin Separators
  BY <1>1, <1>2, AtIs DEF Begins, Versions, Separators
<1>4. Stand(x, e, s.b.data, r + 1)
  <2>1. DOMAIN s.e = EnvFields
    BY OnPlace
  <2> QED BY <1>1, <1>2, <2>1 DEF Stand, Common, InStart, Blank, EnvFields, Startings, Laid
<1>5. \A q \in s.p .. r : q = Fill(s) => Stand(x, s.e, s.b.data, q)
  BY <1>1, <1>2 DEF On, Stand, InStart, Startings
<1>6. \A k \in s.p .. r - 1 : k < Fill(s) => At(s, k) = "sp"
  BY <1>1, <1>2, AtIs DEF Begins
<1> HIDE DEF r
<1>7. Reads(x, Before(s, "STATUSCODE"))
  BY <1>2, <1>3, <1>4, <1>5, <1>6, BeforeReads
<1> QED BY <1>7 DEF STATUSCODE0

LEMMA STATUSCODEReads ==
  ASSUME NEW x, NEW o, NEW i, NEW s, On(x, o, i, s), s.e.step = "STATUSCODE"
  PROVE  Reads(x, STATUSCODE(s))
<1> DEFINE q == Scan(s, {"sp", "lf"})
           v == Read(s, q)
           refused == At(s, q) = "lf"
           e == [s.e EXCEPT !.statuscode = v[1], !.step = "REASONPHRASE0"]
<1>1. Exact(x, s.b.data) /\ InStart(x, s.e, s.p) /\ Common(x, s.e, s.b.data) /\ Laid(x)
  BY StartOn, OnPlace DEF Startings
<1>2. s.p = 3 /\ s.e.offset = 2 /\ x.role = "client" /\ Begins(x)
  BY <1>1 DEF InStart, Laid, Common
<1>3. Fill(s) \in Nat /\ s.p \in 0 .. Fill(s) /\ Going(o, i, s) /\ DOMAIN s.e = EnvFields /\ 3 \in Nat
  BY OnPlace
<1>4. 3 < Fill(s) => At(s, 3) = "sp"
  BY <1>1, <1>2, AtIs DEF Begins
<1>5. q = 3
  <2> DEFINE p == 3
             stops == {"sp", "lf"}
  <2>1. p \in Nat /\ p >= s.p /\ p <= Fill(s) /\ (p < Fill(s) => At(s, p) \in stops)
        /\ \A k \in s.p .. p - 1 : k < Fill(s) => At(s, k) \notin stops
    BY <1>2, <1>3, <1>4
  <2> HIDE DEF p, stops
  <2>2. Scan(s, stops) = IF p < Fill(s) THEN p ELSE Fill(s)
    BY <1>3, <2>1, ScanTo
  <2>3. Scan(s, stops) = p
    BY <1>3, <2>1, <2>2
  <2> QED BY <2>3 DEF p, stops
<1>6. v = <<x.code>>
  <2> HIDE DEF q
  <2>1. v = <<s.b.data[q]>>
    BY <1>2, <1>3, <1>5, ReadOne
  <2>2. q \in 1 .. Len(s.b.data)
    BY <1>2, <1>3, <1>5, OnPlace
  <2>3. s.b.data[q] = x.w[q]
    BY <1>1, <2>2 DEF Exact
  <2> QED BY <1>2, <1>5, <2>1, <2>3 DEF Begins
<1> HIDE DEF v, q
<1>7. q = Fill(s) => Stand(x, s.e, s.b.data, q)
  BY <1>2, <1>5 DEF On
<1>8. q # Fill(s) /\ refused => FALSE
  BY <1>2, <1>3, <1>4, <1>5, <1>6 DEF BadVersion, Begins
<1>9. q # Fill(s) /\ ~refused => Stand(x, e, s.b.data, q + 1)
  BY <1>1, <1>2, <1>3, <1>5, <1>6
     DEF Stand, Common, InStart, Blank, EnvFields, Startings, Versioned, Begins
<1> HIDE DEF refused, e
<1>10. Reads(x, Word(s, q, refused, e))
  BY <1>3, <1>7, <1>8, <1>9, WordReads
<1> QED BY <1>10 DEF STATUSCODE, refused, e, v, q

LEMMA REASONPHRASE0Reads ==
  ASSUME NEW x, NEW o, NEW i, NEW s, On(x, o, i, s), s.e.step = "REASONPHRASE0"
  PROVE  Reads(x, REASONPHRASE0(s))
<1> DEFINE r == 4
           e == [s.e EXCEPT !.offset = r, !.step = "REASONPHRASE"]
<1>1. Exact(x, s.b.data) /\ InStart(x, s.e, s.p) /\ Common(x, s.e, s.b.data) /\ Laid(x)
  BY StartOn, OnPlace DEF Startings
<1>2. s.p \in {4} /\ x.role = "client" /\ Begins(x) /\ r \in Nat /\ r >= s.p
  BY <1>1 DEF InStart, Laid, Common
<1>3. r < Fill(s) => At(s, r) \notin Separators
  BY <1>1, <1>2, AtIs DEF Begins, Versions, Separators
<1>4. Stand(x, e, s.b.data, r + 1)
  <2>1. DOMAIN s.e = EnvFields
    BY OnPlace
  <2> QED BY <1>1, <1>2, <2>1 DEF Stand, Common, InStart, Blank, EnvFields, Startings, Laid
<1>5. \A q \in s.p .. r : q = Fill(s) => Stand(x, s.e, s.b.data, q)
  BY <1>1, <1>2 DEF On, Stand, InStart, Startings
<1>6. \A k \in s.p .. r - 1 : k < Fill(s) => At(s, k) = "sp"
  BY <1>1, <1>2, AtIs DEF Begins
<1> HIDE DEF r
<1>7. Reads(x, Before(s, "REASONPHRASE"))
  BY <1>2, <1>3, <1>4, <1>5, <1>6, BeforeReads
<1> QED BY <1>7 DEF REASONPHRASE0

LEMMA HeadersBegin ==
  ASSUME NEW x, Laid(x), NEW e, NEW d, Common(x, e, d), Exact(x, d), Blank(e), Began(x, e),
         e.step = "NAME0", NEW p, p = x.h[0]
  PROVE  Stand(x, e, d, p)
<1>1. 0 \in 0 .. x.n /\ x.co \notin 1 .. 0 /\ x.ce \notin 1 .. 0 /\ x.cl \notin 1 .. 0 /\ x.te \notin 1 .. 0
  BY DEF Laid
<1>2. Known(x, e, 0)
  <2>1. e.chunked = (x.te \in 1 .. 0)
    <3>1. (x.te \in 1 .. 0) = FALSE
      BY <1>1
    <3>2. e.chunked = FALSE
      BY DEF Blank
    <3> QED BY <3>1, <3>2
  <2>2. /\ e.keepalive = (IF x.co \in 1 .. 0 THEN Connection(<<x.keep>>) ELSE 0)
        /\ e.encoding = (IF x.ce \in 1 .. 0 THEN <<"gzip">> ELSE <<>>)
        /\ e.content_length = (IF x.cl \in 1 .. 0 THEN Len(x.body) ELSE 0)
    BY <1>1, Zenon DEF Blank
  <2> QED BY <2>1, <2>2, Zenon DEF Known, Heard, Blank
<1>3. InHeader(x, e, p)
  BY <1>1, <1>2 DEF InHeader
<1> QED BY <1>3 DEF Stand, Headings

LEMMA VERSIONReads ==
  ASSUME NEW x, NEW o, NEW i, NEW s, On(x, o, i, s), s.e.step = "VERSION"
  PROVE  Reads(x, VERSION(s))
<1> DEFINE q == Scan(s, {"lf"})
           m == IF At(s, q - 1) = "cr" THEN q - 1 ELSE q
           v == Read(s, m)
           refused == BadVersion(v)
           e == [Versioned(s.e, v) EXCEPT !.step = "NAME0"]
           r == 5 + x.eol
<1>1. Exact(x, s.b.data) /\ InStart(x, s.e, s.p) /\ Common(x, s.e, s.b.data) /\ Laid(x)
  BY StartOn, OnPlace DEF Startings
<1>2. s.p \in 6 .. r /\ s.e.offset = 5 /\ x.role = "server" /\ Begins(x) /\ x.eol \in {1, 2}
  BY <1>1 DEF InStart, Laid, Common
<1>3. Fill(s) \in Nat /\ s.p \in 0 .. Fill(s) /\ Going(o, i, s) /\ DOMAIN s.e = EnvFields /\ r \in Nat
      /\ Fill(s) = Len(s.b.data)
  BY <1>2, OnPlace
<1>4. r < Fill(s) => At(s, r) = "lf" /\ (x.eol = 2 => At(s, 6) = "cr") /\ At(s, 5) = x.version
  <2>1. \A k \in Nat : k < Fill(s) => At(s, k) = x.w[k + 1]
    BY <1>1, AtIs
  <2>2. r \in Nat /\ r >= 6 /\ x.w[6] = x.version /\ x.w[r + 1] = "lf" /\ (x.eol = 2 => x.w[7] = "cr")
    BY <1>2 DEF Begins
  <2> HIDE DEF r
  <2>3. r < Fill(s) => 5 \in Nat /\ 5 < Fill(s) /\ 6 \in Nat /\ (x.eol = 2 => 6 < Fill(s)) 
    BY <1>2, <1>3, <2>2 DEF r
  <2> QED BY <2>1, <2>2, <2>3
<1>5. q = IF r < Fill(s) THEN r ELSE Fill(s)
  <2> DEFINE stops == {"lf"}
  <2>1. r >= s.p /\ (r < Fill(s) => At(s, r) \in stops)
        /\ \A k \in s.p .. r - 1 : k < Fill(s) => At(s, k) \notin stops
    <3>1. \A k \in s.p .. r - 1 : k < Fill(s) => At(s, k) = "cr"
      BY <1>1, <1>2, <1>3, AtIs DEF Begins
    <3> QED BY <1>2, <1>3, <1>4, <3>1
  <2> HIDE DEF stops, r
  <2>2. Scan(s, stops) = IF r < Fill(s) THEN r ELSE Fill(s)
    BY <1>3, <2>1, ScanTo
  <2> QED BY <2>2 DEF stops
<1> HIDE DEF q
<1>6. r < Fill(s) => q = r /\ v = <<x.version>>
  <2> SUFFICES ASSUME r < Fill(s) PROVE q = r /\ v = <<x.version>>
    OBVIOUS
  <2>1. q = r
    BY <1>5
  <2>2. m = 6
    <3>1. x.version # "cr"
      BY <1>2 DEF Begins, Versions
    <3> QED BY <1>2, <1>4, <2>1, <3>1
  <2> HIDE DEF m
  <2>3. v = <<s.b.data[m]>>
    BY <1>2, <1>3, <2>2, ReadOne
  <2>4. m \in 1 .. Len(s.b.data)
    BY <1>2, <1>3, <2>2
  <2>5. s.b.data[m] = x.w[m]
    BY <1>1, <2>4 DEF Exact
  <2> QED BY <1>2, <2>1, <2>2, <2>3, <2>5 DEF Begins
<1> HIDE DEF v, m
<1>7. q = Fill(s) => Stand(x, s.e, s.b.data, q)
  <2> SUFFICES ASSUME q = Fill(s) PROVE Stand(x, s.e, s.b.data, q)
    OBVIOUS
  <2>1. q \in 6 .. r
    BY <1>2, <1>3, <1>5
  <2> QED BY <1>1, <1>2, <2>1 DEF Stand, Startings, InStart
<1>8. q # Fill(s) => ~refused
  BY <1>2, <1>3, <1>5, <1>6 DEF BadVersion, Begins
<1>9. q # Fill(s) => Stand(x, e, s.b.data, q + 1)
  <2> SUFFICES ASSUME q # Fill(s) PROVE Stand(x, e, s.b.data, q + 1)
    OBVIOUS
  <2>1. q = r /\ v = <<x.version>> /\ q + 1 = x.h[0]
    BY <1>2, <1>3, <1>5, <1>6 DEF Begins
  <2>2. Common(x, e, s.b.data) /\ Blank(e) /\ Began(x, e) /\ e.step = "NAME0"
    BY <1>1, <1>2, <1>3, <2>1 DEF Common, InStart, Blank, EnvFields, Versioned, Begins, Began
  <2> HIDE DEF e
  <2> QED BY <1>1, <2>1, <2>2, HeadersBegin
<1> HIDE DEF refused, e
<1>10. Reads(x, Word(s, q, refused, e))
  BY <1>3, <1>7, <1>8, <1>9, WordReads
<1> QED BY <1>10 DEF VERSION, refused, e, v, m, q

LEMMA REASONPHRASEReads ==
  ASSUME NEW x, NEW o, NEW i, NEW s, On(x, o, i, s), s.e.step = "REASONPHRASE"
  PROVE  Reads(x, REASONPHRASE(s))
<1> DEFINE q == Scan(s, {"lf"})
           e == [s.e EXCEPT !.step = "NAME0"]
           r == 6
<1>1. Exact(x, s.b.data) /\ InStart(x, s.e, s.p) /\ Common(x, s.e, s.b.data) /\ Laid(x)
  BY StartOn, OnPlace DEF Startings
<1>2. s.p \in {5, 6} /\ x.role = "client" /\ Begins(x) /\ x.eol \in {1, 2}
  BY <1>1 DEF InStart, Laid, Common
<1>3. Fill(s) \in Nat /\ s.p \in 0 .. Fill(s) /\ Going(o, i, s) /\ DOMAIN s.e = EnvFields /\ r \in Nat
      /\ Fill(s) = Len(s.b.data)
  BY <1>2, OnPlace
<1>4. r < Fill(s) => At(s, r) = "lf"
  BY <1>1, <1>2, <1>3, AtIs DEF Begins
<1>5. q = IF r < Fill(s) THEN r ELSE Fill(s)
  <2> DEFINE stops == {"lf"}
  <2>1. r >= s.p /\ (r < Fill(s) => At(s, r) \in stops)
        /\ \A k \in s.p .. r - 1 : k < Fill(s) => At(s, k) \notin stops
    <3>1. \A k \in s.p .. r - 1 : k < Fill(s) => At(s, k) = "cr"
      BY <1>1, <1>2, <1>3, AtIs DEF Begins
    <3> QED BY <1>2, <1>3, <1>4, <3>1
  <2> HIDE DEF stops, r
  <2>2. Scan(s, stops) = IF r < Fill(s) THEN r ELSE Fill(s)
    BY <1>3, <2>1, ScanTo
  <2> QED BY <2>2 DEF stops
<1> HIDE DEF q
<1>7. q = Fill(s) => Stand(x, s.e, s.b.data, q)
  <2> SUFFICES ASSUME q = Fill(s) PROVE Stand(x, s.e, s.b.data, q)
    OBVIOUS
  <2>1. q \in {5, 6}
    <3> HIDE DEF r
    <3>1. q = Fill(s) /\ ~(r < Fill(s))
      BY <1>3, <1>5
    <3>2. q >= 5 /\ q <= 6 /\ q \in Nat
      BY <1>2, <1>3, <3>1 DEF r
    <3> QED BY <3>2
  <2> QED BY <1>1, <1>2, <2>1 DEF Stand, Startings, InStart
<1>9. q # Fill(s) => Stand(x, e, s.b.data, q + 1)
  <2> SUFFICES ASSUME q # Fill(s) PROVE Stand(x, e, s.b.data, q + 1)
    OBVIOUS
  <2>1. q = 6 /\ q + 1 = x.h[0]
    BY <1>2, <1>3, <1>5 DEF Begins
  <2>2. Common(x, e, s.b.data) /\ Blank(e) /\ Began(x, e) /\ e.step = "NAME0"
    BY <1>1, <1>2, <1>3, <2>1 DEF Common, InStart, Blank, EnvFields, Begins, Began
  <2> HIDE DEF e
  <2> QED BY <1>1, <2>1, <2>2, HeadersBegin
<1> HIDE DEF e
<1>10. Reads(x, Word(s, q, FALSE, e))
  BY <1>3, <1>7, <1>9, WordReads
<1> QED BY <1>10 DEF REASONPHRASE, e, q

LEMMA HeadOn ==
  ASSUME NEW x, NEW o, NEW i, NEW s, On(x, o, i, s), s.e.step \in Headings
  PROVE  Exact(x, s.b.data) /\ InHeader(x, s.e, s.p)
  BY DEF On, Stand, InChunks, Startings, Headings

LEMMA EmptyBody == ASSUME NEW x, Laid(x), Len(x.body) = 0 PROVE x.body = <<>>
<1>1. x.body \in Seq({x.body[i] : i \in 1 .. Len(x.body)})
  BY DEF Laid
<1> QED BY <1>1, EmptySeq

(* The end of the headers.                                                 *)
LEMMA BareDone ==
  ASSUME NEW x, NEW o, NEW i, NEW s, On(x, o, i, s), Exact(x, s.b.data), Known(x, s.e, x.n),
         NEW q, q = x.base, q <= Fill(s), Len(x.body) = 0, x.te = 0, q > 0
  PROVE  Reads(x, Done(s, q))
<1> DEFINE t == Done(s, q)
<1>1. /\ Fill(s) \in Nat /\ Fill(s) = Len(s.b.data) /\ Going(o, i, s) /\ DOMAIN s.e = EnvFields
      /\ Common(x, s.e, s.b.data) /\ Laid(x)
  BY OnPlace
<1>2. /\ t.e = [s.e EXCEPT !.step = "DONE"] /\ t.b.data = s.b.data /\ t.b.process = q /\ t.ret = "done"
  <2>1. DOMAIN s = {"e", "b", "p", "ret"} /\ DOMAIN s.b = {"data", "process", "size"}
    BY <1>1 DEF Going, Same, Data
  <2> QED BY <2>1 DEF Done
<1>3. /\ t.e.role = x.role /\ t.e.moved = FALSE /\ t.e.step = "DONE" /\ t.e.reforming = FALSE
      /\ Began(x, t.e) /\ Heard(x, t.e, x.n) /\ t.e.body = 0
  BY <1>1, <1>2 DEF Common, EnvFields, Known, Began, Heard
<1>4. Len(x.w) = q
  BY <1>1 DEF Laid, Follows
<1>5. x.body = <<>>
  BY <1>1, EmptyBody
<1>6. Len(s.b.data) = q /\ s.b.data # <<>>
  <2>1. Len(s.b.data) <= Len(x.w)
    BY <1>1 DEF Common
  <2>2. Len(s.b.data) = q
    BY <1>1, <1>4, <2>1
  <2> QED BY <2>2
<1> HIDE DEF t
<1>7. t.e.reforming = (Len(t.b.data) > t.b.process)
  <2>1. (Len(t.b.data) > t.b.process) = FALSE
    BY <1>1, <1>2, <1>6
  <2> QED BY <1>3, <2>1
<1>8. Finished(x, t.e, t.b)
  BY <1>2, <1>3, <1>4, <1>5, <1>6, <1>7 DEF Finished
<1> QED BY <1>2, <1>8 DEF Reads, t

LEMMA BodyReads ==
  ASSUME NEW x, NEW o, NEW i, NEW s, On(x, o, i, s), Exact(x, s.b.data), Known(x, s.e, x.n),
         NEW q, q = x.base, q <= Fill(s), q > 0
  PROVE  Reads(x, GoParsingBody(s, q))
<1> DEFINE at == [s EXCEPT !.p = q, !.e.body = q]
<1>1. /\ Fill(s) \in Nat /\ Fill(s) = Len(s.b.data) /\ Going(o, i, s) /\ DOMAIN s.e = EnvFields
      /\ Common(x, s.e, s.b.data) /\ Laid(x)
  BY OnPlace
<1>2. x.te \in 0 .. x.n /\ x.cl \in 0 .. x.n /\ Len(x.body) \in Nat /\ x.n \in Nat
  BY <1>1 DEF Laid
<1>3. CASE s.e.method = "HEAD"
  <2>1. Len(x.body) = 0 /\ x.te = 0
    BY <1>1, <1>3 DEF Known, Began, Laid
  <2>2. Reads(x, Done(s, q))
    BY <2>1, BareDone
  <2> QED BY <1>3, <2>2 DEF GoParsingBody
<1>4. CASE s.e.method # "HEAD" /\ s.e.content_length > 0
  <2> DEFINE t == [at EXCEPT !.e.step = "BODY"]
  <2>1. t.e = [s.e EXCEPT !.body = q, !.step = "BODY"] /\ t.b = s.b /\ t.p = q /\ t.ret = "run"
    <3>1. DOMAIN s = {"e", "b", "p", "ret"} /\ s.ret = "run" /\ DOMAIN s.e = EnvFields
      BY <1>1 DEF Going, Same
    <3>2. [at EXCEPT !.e.step = "BODY"] = [s EXCEPT !.p = q, !.e = [s.e EXCEPT !.body = q, !.step = "BODY"]]
      BY <3>1 DEF EnvFields
    <3> QED BY <3>1, <3>2
  <2>2. GoParsingBody(s, q) = t
    BY <1>4 DEF GoParsingBody
  <2> HIDE DEF t
  <2>3. x.cl # 0 /\ s.e.content_length = Len(x.body) /\ x.te = 0
    BY <1>1, <1>2, <1>4 DEF Known, Laid
  <2>4. Common(x, t.e, t.b.data) /\ t.e.step = "BODY"
    BY <1>1, <2>1 DEF Common, EnvFields
  <2>5. InBody(x, t.e)
    BY <1>1, <2>1, <2>3 DEF InBody, EnvFields, Known, Began, Heard
  <2>6. Stand(x, t.e, t.b.data, t.p)
    BY <2>1, <2>4, <2>5 DEF Stand
  <2> QED BY <2>1, <2>2, <2>6 DEF Reads
<1>5. CASE s.e.method # "HEAD" /\ ~(s.e.content_length > 0) /\ s.e.chunked
  <2> DEFINE t == [at EXCEPT !.e.chunk_end = q, !.e.step = "CHUNKED_SIZE"]
  <2>1. /\ t.e = [s.e EXCEPT !.body = q, !.chunk_end = q, !.step = "CHUNKED_SIZE"]
        /\ t.b = s.b /\ t.p = q /\ t.ret = "run"
    <3>1. DOMAIN s = {"e", "b", "p", "ret"} /\ s.ret = "run" /\ DOMAIN s.e = EnvFields
      BY <1>1 DEF Going, Same
    <3>2. [at EXCEPT !.e.chunk_end = q, !.e.step = "CHUNKED_SIZE"]
            = [s EXCEPT !.p = q, !.e = [s.e EXCEPT !.body = q, !.chunk_end = q, !.step = "CHUNKED_SIZE"]]
      BY <3>1 DEF EnvFields
    <3> QED BY <3>1, <3>2
  <2>2. GoParsingBody(s, q) = t
    BY <1>5 DEF GoParsingBody
  <2> HIDE DEF t
  <2>3. x.te # 0 /\ x.cl = 0 /\ s.e.content_length = 0
    <3>1. s.e.chunked = (x.te \in 1 .. x.n)
      BY DEF Known, Heard
    <3>2. x.te \in 1 .. x.n
      BY <1>5, <3>1, Zenon
    <3>3. x.te # 0 /\ x.cl = 0
      BY <1>1, <1>2, <3>2 DEF Laid
    <3>4. s.e.content_length = 0
      BY <1>2, <3>3 DEF Known
    <3> QED BY <3>3, <3>4
  <2>4. Common(x, t.e, t.b.data) /\ t.e.step = "CHUNKED_SIZE"
    BY <1>1, <2>1 DEF Common, EnvFields
  <2>5. x.c[1] = x.base /\ q \in Nat
    <3>1. Follows(x) /\ x.h[x.n] \in Nat /\ x.base = x.h[x.n] + x.eol /\ x.eol \in {1, 2}
      BY <1>1, <1>2 DEF Laid
    <3> QED BY <2>3, <3>1 DEF Follows
  <2>6. Joint(x, t.e, t.b.data, 1) /\ t.e.chunk = 0
    <3>1. Began(x, t.e) /\ Heard(x, t.e, x.n) /\ t.e.body = x.base /\ t.e.chunk_end = q
          /\ t.e.content_length = 0 /\ t.e.chunk = 0
      BY <1>1, <2>1, <2>3 DEF EnvFields, Known, Began, Heard
    <3>2. \A k \in 1 .. Len(t.b.data) : t.b.data[k] = x.w[k]
      BY <2>1 DEF Exact
    <3>3. t.e.chunk_end = x.base + 1 - 1 /\ t.e.content_length = 1 - 1
      BY <2>5, <3>1
    <3> QED BY <2>3, <3>1, <3>2, <3>3 DEF Joint
  <2>7. 1 \in 1 .. Len(x.body) + 1
    BY <1>2
  <2>8. InChunks(x, t.e, t.b.data, t.p)
    BY <2>1, <2>4, <2>5, <2>6, <2>7 DEF InChunks
  <2>9. Stand(x, t.e, t.b.data, t.p)
    BY <2>4, <2>8 DEF Stand
  <2> QED BY <2>1, <2>2, <2>9 DEF Reads
<1>6. CASE s.e.method # "HEAD" /\ ~(s.e.content_length > 0) /\ ~s.e.chunked
  <2>1. x.te = 0
    <3>1. s.e.chunked = (x.te \in 1 .. x.n)
      BY DEF Known, Heard
    <3>2. x.te \notin 1 .. x.n
      BY <1>6, <3>1, Zenon
    <3> QED BY <1>2, <3>2
  <2>2. Len(x.body) = 0
    <3>1. x.cl # 0 => s.e.content_length = Len(x.body)
      BY <1>2 DEF Known
    <3> QED BY <1>1, <1>2, <1>6, <2>1, <3>1 DEF Laid
  <2>3. Reads(x, Done(s, q))
    BY <2>1, <2>2, BareDone
  <2> QED BY <1>6, <2>3 DEF GoParsingBody
<1> QED BY <1>3, <1>4, <1>5, <1>6

(* The headers.                                                            *)
LEMMA HeaderPlace ==
  ASSUME NEW x, Laid(x), NEW j \in 0 .. x.n
  PROVE  /\ x.n \in Nat /\ x.eol \in {1, 2} /\ x.h[j] \in Nat /\ x.h[j] >= 7
         /\ j # x.n => Line(x, j) /\ j \in 0 .. x.n - 1 /\ j + 1 \in 0 .. x.n
         /\ x.base = x.h[x.n] + x.eol /\ x.w[x.base] = "lf" /\ (x.eol = 2 => x.w[x.base - 1] = "cr")
         /\ x.base \in Nat /\ x.base > 0 /\ x.h[x.n] \in Nat
<1>1. x.n \in Nat /\ x.n \in 0 .. x.n /\ (j # x.n => j \in 0 .. x.n - 1 /\ j + 1 \in 0 .. x.n)
  BY DEF Laid
<1>2. /\ x.eol \in {1, 2} /\ x.h[j] \in Nat /\ x.h[j] >= 7 /\ x.h[x.n] \in Nat /\ x.h[x.n] >= 7
      /\ j # x.n => Line(x, j)
  BY <1>1 DEF Laid
<1>3. /\ x.base = x.h[x.n] + x.eol /\ x.w[x.base] = "lf" /\ (x.eol = 2 => x.w[x.base - 1] = "cr")
  BY DEF Laid
<1>4. x.base \in Nat /\ x.base > 0
  BY <1>2, <1>3
<1> QED BY <1>1, <1>2, <1>3, <1>4

LEMMA NAME0Reads ==
  ASSUME NEW x, NEW o, NEW i, NEW s, On(x, o, i, s), s.e.step = "NAME0"
  PROVE  Reads(x, NAME0(s))
<1> DEFINE q == Blanks(s)
<1>1. /\ Fill(s) \in Nat /\ s.p \in 0 .. Fill(s) /\ s.p \in Nat /\ Going(o, i, s) /\ DOMAIN s.e = EnvFields
      /\ Common(x, s.e, s.b.data) /\ Laid(x) /\ Fill(s) = Len(s.b.data)
  BY OnPlace
<1>2. Exact(x, s.b.data) /\ InHeader(x, s.e, s.p)
  BY HeadOn DEF Headings
<1>3. PICK j \in 0 .. x.n : s.p = x.h[j] /\ Known(x, s.e, j)
  BY <1>2 DEF InHeader
<1>4. s.p < Fill(s) => At(s, s.p) # "sp"
  <2>1. s.p < Fill(s) => At(s, s.p) = x.w[s.p + 1]
    BY <1>1, <1>2, AtIs
  <2>2. CASE j = x.n
    <3>1. x.w[x.h[j] + 1] \in {"lf", "cr"}
      <4>1. /\ x.base = x.h[j] + x.eol /\ x.eol \in {1, 2} /\ x.w[x.base] = "lf" /\ x.h[j] \in Nat
            /\ (x.eol = 2 => x.w[x.base - 1] = "cr")
        BY <1>1, <2>2, HeaderPlace
      <4>2. x.eol = 2 => x.base - 1 = x.h[j] + 1
        BY <4>1
      <4> QED BY <4>1, <4>2
    <3> QED BY <1>3, <2>1, <3>1
  <2>3. CASE j # x.n
    <3>1. x.w[x.h[j] + 1] \notin Separators
      BY <1>1, <2>3, HeaderPlace DEF Line
    <3> QED BY <1>3, <2>1, <3>1 DEF Separators
  <2> QED BY <2>2, <2>3
<1>5. q = s.p
  <2> DEFINE r == s.p
  <2>1. \A k \in s.p .. r - 1 : k < Fill(s) => At(s, k) = "sp"
    BY <1>1
  <2>2. r \in Nat /\ r >= s.p /\ r <= Fill(s) /\ (r < Fill(s) => At(s, r) # "sp")
    BY <1>1, <1>4
  <2> HIDE DEF r
  <2>3. Blanks(s) = IF r < Fill(s) THEN r ELSE Fill(s)
    BY <1>1, <2>1, <2>2, BlanksTo
  <2>4. Blanks(s) = r
    BY <1>1, <2>2, <2>3
  <2> QED BY <2>4 DEF r
<1> HIDE DEF q
<1>6. CASE q = Fill(s)
  <2>1. Stand(x, s.e, s.b.data, q)
    BY <1>5 DEF On
  <2>2. Reads(x, More(s, q))
    BY <1>1, <2>1, MoreReads
  <2> QED BY <1>6, <2>2 DEF NAME0, q
<1>7. CASE q # Fill(s) /\ j = x.n
  <2>1. /\ q < Fill(s) /\ At(s, q) = x.w[q + 1] /\ q \in Nat
        /\ q + 1 < Fill(s) => At(s, q + 1) = x.w[(q + 1) + 1]
    <3>1. q < Fill(s) /\ q \in Nat /\ q + 1 \in Nat
      BY <1>1, <1>5, <1>7
    <3> QED BY <1>2, <3>1, AtIs
  <2>2. x.base = q + x.eol /\ x.eol \in {1, 2} /\ x.w[q + x.eol] = "lf" /\ (x.eol = 2 => x.w[q + 1] = "cr")
    <3>1. /\ x.base = x.h[x.n] + x.eol /\ x.eol \in {1, 2} /\ x.w[x.base] = "lf"
          /\ (x.eol = 2 => x.w[x.base - 1] = "cr")
      BY <1>1, <1>3, HeaderPlace
    <3>2. x.h[x.n] = q
      BY <1>3, <1>5, <1>7
    <3>3. x.eol = 2 => x.base - 1 = q + 1
      BY <2>1, <3>1, <3>2
    <3> QED BY <3>1, <3>2, <3>3
  <2>3. Known(x, s.e, x.n)
    BY <1>3, <1>7
  <2>4. ASSUME NEW z, z = x.base, z <= Fill(s) PROVE Reads(x, GoParsingBody(s, z))
    <3>1. z > 0
      BY <2>1, <2>2, <2>4
    <3> QED BY <1>2, <2>3, <2>4, <3>1, BodyReads
  <2>5. CASE x.eol = 1
    <3> DEFINE z == q + 1
    <3>1. z = x.base /\ z <= Fill(s) /\ At(s, q) = "lf"
      BY <1>1, <2>1, <2>2, <2>5
    <3>2. NAME0(s) = GoParsingBody(s, z)
      BY <1>7, <3>1 DEF NAME0, q
    <3> HIDE DEF z
    <3> QED BY <2>4, <3>1, <3>2
  <2>6. CASE x.eol = 2 /\ q + 1 = Fill(s)
    <3> DEFINE t == [s EXCEPT !.ret = "more"]
    <3>1. At(s, q) = "cr"
      BY <2>1, <2>2, <2>6
    <3>2. NAME0(s) = t
      BY <1>7, <2>6, <3>1 DEF NAME0, q
    <3>3. t.e = s.e /\ t.b = s.b /\ t.ret = "more"
      BY <1>1 DEF Going, Same
    <3> HIDE DEF t
    <3>4. Tear(t.e, t.b)
      <4>1. s.b.data[Len(s.b.data)] = "cr" /\ Len(s.b.data) > 0
        BY <1>1, <2>1, <2>6, <3>1 DEF At
      <4>2. s.b.data # <<>>
        BY <4>1
      <4> QED BY <3>3, <4>1, <4>2 DEF Tear
    <3>5. Cleft(x, Len(t.b.data))
      BY <1>1, <2>1, <2>2, <2>6, <3>3 DEF Cleft
    <3> QED BY <3>2, <3>3, <3>4, <3>5 DEF Reads
  <2>7. CASE x.eol = 2 /\ q + 1 # Fill(s)
    <3> DEFINE z == q + 2
    <3>1. z = x.base /\ z <= Fill(s) /\ At(s, q) = "cr" /\ At(s, q + 1) = "lf"
      BY <1>1, <2>1, <2>2, <2>7
    <3>2. NAME0(s) = GoParsingBody(s, z)
      BY <1>7, <2>7, <3>1 DEF NAME0, q
    <3> HIDE DEF z
    <3> QED BY <2>4, <3>1, <3>2
  <2> QED BY <2>2, <2>5, <2>6, <2>7
<1>8. CASE q # Fill(s) /\ j # x.n
  <2> DEFINE t == [s EXCEPT !.p = q + 1, !.e.offset = q, !.e.step = "NAME"]
  <2>1. Line(x, j) /\ j \in 0 .. x.n - 1
    BY <1>1, <1>8, HeaderPlace
  <2>2. At(s, q) = x.w[q + 1]
    <3>1. q < Fill(s) /\ q \in Nat
      BY <1>1, <1>5, <1>8
    <3> QED BY <1>2, <3>1, AtIs
  <2>3. At(s, q) # "cr" /\ At(s, q) # "lf"
    BY <1>3, <1>5, <2>1, <2>2 DEF Line, Separators
  <2>4. NAME0(s) = t
    BY <1>8, <2>3 DEF NAME0, q
  <2>5. t.e = [s.e EXCEPT !.offset = q, !.step = "NAME"] /\ t.b = s.b /\ t.p = q + 1 /\ t.ret = "run"
    <3>1. DOMAIN s = {"e", "b", "p", "ret"} /\ s.ret = "run" /\ DOMAIN s.e = EnvFields
      BY <1>1 DEF Going, Same
    <3>2. t = [s EXCEPT !.p = q + 1, !.e = [s.e EXCEPT !.offset = q, !.step = "NAME"]]
      BY <3>1 DEF EnvFields
    <3> QED BY <3>1, <3>2
  <2> HIDE DEF t
  <2>6. Common(x, t.e, t.b.data) /\ Known(x, t.e, j) /\ t.e.step = "NAME" /\ t.e.offset = q
    BY <1>1, <1>3, <2>5 DEF Common, EnvFields, Known, Began, Heard
  <2>7. InHeader(x, t.e, t.p)
    BY <1>3, <1>5, <2>1, <2>5, <2>6 DEF InHeader
  <2>8. Stand(x, t.e, t.b.data, t.p)
    BY <1>2, <2>5, <2>6, <2>7 DEF Stand, Headings
  <2> QED BY <2>4, <2>5, <2>8 DEF Reads
<1> QED BY <1>6, <1>7, <1>8

LEMMA LineOn ==
  ASSUME NEW x, NEW o, NEW i, NEW s, On(x, o, i, s), s.e.step \in Headings \ {"NAME0"}
  PROVE  /\ Fill(s) \in Nat /\ s.p \in 0 .. Fill(s) /\ s.p \in Nat /\ Going(o, i, s) /\ DOMAIN s.e = EnvFields
         /\ Common(x, s.e, s.b.data) /\ Laid(x) /\ Fill(s) = Len(s.b.data) /\ Exact(x, s.b.data)
         /\ EnvOK(s.e) /\ Same(o, s) /\ IsSeq(s.b.data)
         /\ \E j \in 0 .. x.n - 1 :
              /\ Line(x, j) /\ x.h[j] \in Nat /\ x.eol \in {1, 2} /\ Known(x, s.e, j) /\ j \in Nat
              /\ j + 1 \in 0 .. x.n
              /\ s.e.step = "NAME" => s.p = x.h[j] + 1 /\ s.e.offset = x.h[j]
              /\ s.e.step = "VALUE0" => s.p \in {x.h[j] + 2, x.h[j] + 3} /\ s.e.name = <<x.w[x.h[j] + 1]>>
              /\ s.e.step = "VALUE" => /\ s.p \in x.h[j] + 4 .. x.h[j] + 3 + x.eol /\ s.e.offset = x.h[j] + 3
                                       /\ s.e.name = <<x.w[x.h[j] + 1]>>
<1>1. /\ Fill(s) \in Nat /\ s.p \in 0 .. Fill(s) /\ s.p \in Nat /\ Going(o, i, s) /\ DOMAIN s.e = EnvFields
      /\ Common(x, s.e, s.b.data) /\ Laid(x) /\ Fill(s) = Len(s.b.data) /\ IsSeq(s.b.data)
  BY OnPlace
<1>2. Exact(x, s.b.data) /\ InHeader(x, s.e, s.p) /\ s.e.step # "NAME0"
  BY HeadOn
<1>3. EnvOK(s.e) /\ Same(o, s)
  BY <1>1, Place
<1>4. PICK j \in 0 .. x.n - 1 :
              /\ Known(x, s.e, j)
              /\ s.e.step = "NAME" => s.p = x.h[j] + 1 /\ s.e.offset = x.h[j]
              /\ s.e.step = "VALUE0" => s.p \in {x.h[j] + 2, x.h[j] + 3} /\ s.e.name = <<x.w[x.h[j] + 1]>>
              /\ s.e.step = "VALUE" => /\ s.p \in x.h[j] + 4 .. x.h[j] + 3 + x.eol /\ s.e.offset = x.h[j] + 3
                                       /\ s.e.name = <<x.w[x.h[j] + 1]>>
  BY <1>2 DEF InHeader
<1>5. x.n \in Nat
  BY <1>1 DEF Laid
<1>6. j \in 0 .. x.n /\ j # x.n /\ j \in Nat /\ j + 1 \in 0 .. x.n
  BY <1>5
<1>7. Line(x, j) /\ x.h[j] \in Nat /\ x.eol \in {1, 2}
  BY <1>1, <1>6, HeaderPlace
<1> QED BY <1>1, <1>2, <1>3, <1>4, <1>6, <1>7

LEMMA LineStand ==
  ASSUME NEW x, NEW e, NEW d, Common(x, e, d), Exact(x, d), NEW j \in 0 .. x.n - 1, Known(x, e, j),
         e.step \in Headings \ {"NAME0"}, NEW p,
         e.step = "NAME" => p = x.h[j] + 1 /\ e.offset = x.h[j],
         e.step = "VALUE0" => p \in {x.h[j] + 2, x.h[j] + 3} /\ e.name = <<x.w[x.h[j] + 1]>>,
         e.step = "VALUE" => /\ p \in x.h[j] + 4 .. x.h[j] + 3 + x.eol /\ e.offset = x.h[j] + 3
                             /\ e.name = <<x.w[x.h[j] + 1]>>
  PROVE  Stand(x, e, d, p)
<1>1. InHeader(x, e, p)
  BY DEF InHeader
<1> QED BY <1>1 DEF Stand

LEMMA NAMEReads ==
  ASSUME NEW x, NEW o, NEW i, NEW s, On(x, o, i, s), s.e.step = "NAME"
  PROVE  Reads(x, NAME(s))
<1> DEFINE stops == {"sp", ":", "lf"}
           ends == {":", "lf"}
           q == Scan(s, stops)
           t == [s EXCEPT !.p = q]
           colon == Scan(t, ends)
           named == [s EXCEPT !.e.name = Read(s, q)]
           e == [named.e EXCEPT !.step = "VALUE0"]
<1>0. s.e.step \in Headings \ {"NAME0"}
  BY DEF Headings
<1>1. /\ Fill(s) \in Nat /\ s.p \in 0 .. Fill(s) /\ s.p \in Nat /\ Going(o, i, s) /\ DOMAIN s.e = EnvFields
      /\ Common(x, s.e, s.b.data) /\ Laid(x) /\ Fill(s) = Len(s.b.data) /\ Exact(x, s.b.data)
      /\ EnvOK(s.e) /\ Same(o, s)
  BY <1>0, LineOn
<1>2. PICK j \in 0 .. x.n - 1 :
        /\ Line(x, j) /\ x.h[j] \in Nat /\ x.eol \in {1, 2} /\ Known(x, s.e, j) /\ j \in Nat
        /\ s.p = x.h[j] + 1 /\ s.e.offset = x.h[j]
  BY <1>0, LineOn
<1>3. s.p < Fill(s) => At(s, s.p) = ":"
  <2>1. s.p < Fill(s) => At(s, s.p) = x.w[s.p + 1]
    BY <1>1, AtIs
  <2>2. s.p + 1 = x.h[j] + 2
    BY <1>2
  <2> QED BY <1>2, <2>1, <2>2 DEF Line
<1>4. q = s.p
  <2> DEFINE r == s.p
  <2>1. \A k \in s.p .. r - 1 : k < Fill(s) => At(s, k) \notin stops
    BY <1>1
  <2>2. r \in Nat /\ r >= s.p /\ r <= Fill(s) /\ (r < Fill(s) => At(s, r) \in stops)
    BY <1>1, <1>3
  <2> HIDE DEF r, stops
  <2>3. Scan(s, stops) = IF r < Fill(s) THEN r ELSE Fill(s)
    BY <1>1, <2>1, <2>2, ScanTo
  <2>4. Scan(s, stops) = r
    BY <1>1, <2>2, <2>3
  <2> QED BY <2>4 DEF r
<1>5. t.p = q /\ t.b = s.b /\ Fill(t) = Fill(s)
  BY <1>1 DEF Same, Fill
<1> HIDE DEF q, stops
<1>6. q < Fill(s) => colon = q
  <2> SUFFICES ASSUME q < Fill(s) PROVE colon = q
    OBVIOUS
  <2>1. \A k \in t.p .. q - 1 : k < Fill(t) => At(t, k) \notin ends
    BY <1>1, <1>4, <1>5
  <2>2. q \in Nat /\ q >= t.p /\ q < Fill(t) /\ At(t, q) \in ends /\ Fill(t) \in Nat /\ t.p \in 0 .. Fill(t)
    BY <1>1, <1>3, <1>4, <1>5 DEF At
  <2> HIDE DEF t, ends
  <2>3. Scan(t, ends) = IF q < Fill(t) THEN q ELSE Fill(t)
    BY <2>1, <2>2, ScanTo
  <2> QED BY <2>2, <2>3
<1> HIDE DEF t, ends, colon
<1>7. CASE q = Fill(s)
  <2>1. Stand(x, s.e, s.b.data, q)
    BY <1>4 DEF On
  <2>2. Reads(x, More(s, q))
    BY <1>1, <2>1, MoreReads
  <2> QED BY <1>7, <2>2 DEF NAME, q, stops
<1>8. CASE q # Fill(s)
  <2>1. q < Fill(s) /\ colon = q /\ q \in Nat /\ At(s, q) = ":"
    BY <1>1, <1>3, <1>4, <1>6, <1>8
  <2>2. Read(s, q) = <<x.w[x.h[j] + 1]>>
    <3>1. q <= Fill(s) /\ s.e.offset + 1 = q /\ q \in 1 .. Len(s.b.data) /\ q = x.h[j] + 1
      BY <1>1, <1>2, <1>4, <2>1
    <3>2. Read(s, q) = <<s.b.data[q]>>
      BY <2>1, <3>1, ReadOne
    <3> QED BY <1>1, <3>1, <3>2 DEF Exact
  <2>3. named.e = [s.e EXCEPT !.name = Read(s, q)] /\ named.b = s.b /\ named.p = s.p /\ named.ret = s.ret
        /\ DOMAIN named = {"e", "b", "p", "ret"}
    BY <1>1 DEF Same
  <2>4. NAME(s) = Word(named, q, At(s, q) = "lf", e)
    BY <1>8, <2>1 DEF NAME, q, stops, colon, t, ends
  <2>5. EnvOK(named.e) /\ named.e.req = s.e.req /\ named.e.rsp = s.e.rsp /\ named.e.step = s.e.step
        /\ named.e.chunk_body = s.e.chunk_body
    BY <1>1, <2>3 DEF EnvOK, EnvFields
  <2>6. Going(o, i, named)
    <3> HIDE DEF named
    <3> QED BY <1>1, <2>3, <2>5 DEF Going, Same, Goes
  <2>7. Fill(named) = Fill(s)
    BY <2>3 DEF Fill
  <2>8. e = [[s.e EXCEPT !.name = Read(s, q)] EXCEPT !.step = "VALUE0"]
    BY <2>3
  <2> HIDE DEF named, e
  <2>9. Common(x, e, s.b.data) /\ Known(x, e, j) /\ e.step = "VALUE0" /\ e.name = <<x.w[x.h[j] + 1]>>
    BY <1>1, <1>2, <2>2, <2>8 DEF Common, EnvFields, Known, Began, Heard
  <2>10. Stand(x, e, s.b.data, q + 1)
    <3>1. e.step \in Headings \ {"NAME0"} /\ e.step # "NAME" /\ e.step # "VALUE"
      BY <2>9 DEF Headings
    <3>2. q + 1 \in {x.h[j] + 2, x.h[j] + 3}
      BY <1>2, <1>4
    <3> QED BY <1>1, <2>9, <3>1, <3>2, LineStand
  <2>12. Reads(x, Word(named, q, At(s, q) = "lf", e))
    <3> DEFINE refused == At(s, q) = "lf"
    <3>1. /\ ~refused /\ q # Fill(named) /\ Stand(x, e, named.b.data, q + 1)
      BY <2>1, <2>3, <2>7, <2>10
    <3> HIDE DEF refused
    <3>2. Reads(x, Word(named, q, refused, e))
      BY <2>6, <3>1, WordReads
    <3> QED BY <3>2 DEF refused
  <2> QED BY <2>4, <2>12
<1> QED BY <1>7, <1>8

LEMMA VALUE0Reads ==
  ASSUME NEW x, NEW o, NEW i, NEW s, On(x, o, i, s), s.e.step = "VALUE0"
  PROVE  Reads(x, VALUE0(s))
<1>0. s.e.step \in Headings \ {"NAME0"}
  BY DEF Headings
<1>1. /\ Fill(s) \in Nat /\ s.p \in 0 .. Fill(s) /\ s.p \in Nat /\ Going(o, i, s) /\ DOMAIN s.e = EnvFields
      /\ Common(x, s.e, s.b.data) /\ Laid(x) /\ Fill(s) = Len(s.b.data) /\ Exact(x, s.b.data)
  BY <1>0, LineOn
<1>2. PICK j \in 0 .. x.n - 1 :
        /\ Line(x, j) /\ x.h[j] \in Nat /\ x.eol \in {1, 2} /\ Known(x, s.e, j) /\ j \in Nat
        /\ s.p \in {x.h[j] + 2, x.h[j] + 3} /\ s.e.name = <<x.w[x.h[j] + 1]>>
  BY <1>0, LineOn
<1> DEFINE r == x.h[j] + 3
           e == [s.e EXCEPT !.offset = r, !.step = "VALUE"]
<1>3. r \in Nat /\ r >= s.p
  BY <1>2
<1>4. \A k \in s.p .. r - 1 : k < Fill(s) => At(s, k) = "sp"
  <2> TAKE k \in s.p .. r - 1
  <2>1. k = x.h[j] + 2 /\ k \in Nat /\ k + 1 = x.h[j] + 3
    BY <1>2
  <2>2. k < Fill(s) => At(s, k) = x.w[k + 1]
    BY <1>1, <2>1, AtIs
  <2> QED BY <1>2, <2>1, <2>2 DEF Line
<1>5. r < Fill(s) => At(s, r) \notin Separators
  <2>1. r < Fill(s) => At(s, r) = x.w[r + 1]
    BY <1>1, <1>3, AtIs
  <2>2. r + 1 = x.h[j] + 4
    BY <1>2
  <2> QED BY <1>2, <2>1, <2>2 DEF Line
<1>6. \A q \in s.p .. r : q = Fill(s) => Stand(x, s.e, s.b.data, q)
  <2> TAKE q \in s.p .. r
  <2>1. q \in {x.h[j] + 2, x.h[j] + 3}
    BY <1>2
  <2> QED BY <1>0, <1>1, <1>2, <2>1, LineStand
<1>7. Stand(x, e, s.b.data, r + 1)
  <2>1. Common(x, e, s.b.data) /\ Known(x, e, j) /\ e.step = "VALUE" /\ e.name = <<x.w[x.h[j] + 1]>>
        /\ e.offset = x.h[j] + 3
    BY <1>1, <1>2 DEF Common, EnvFields, Known, Began, Heard
  <2>2. r + 1 \in x.h[j] + 4 .. x.h[j] + 3 + x.eol
    BY <1>2
  <2> HIDE DEF e, r
  <2> QED BY <1>1, <2>1, <2>2, LineStand DEF Headings
<1> HIDE DEF r
<1>8. Reads(x, Before(s, "VALUE"))
  BY <1>3, <1>4, <1>5, <1>6, <1>7, BeforeReads
<1> QED BY <1>8 DEF VALUE0

(* A number of one digit, or of none more.                                 *)
LEMMA NumberOf ==
  ASSUME NEW n \in Nat, NEW v, Len(v) \in {0, 1}
  PROVE  Number(n, v) = IF Len(v) = 0 THEN n ELSE Counted(n, v[1])
<1> DEFINE f == CHOOSE g : Sums(n, v, Len(v), g)
<1>1. Number(n, v) = f[Len(v)]
  BY DEF Number, Sums
<1>2. Sums(n, v, Len(v), f)
  <2>1. Len(v) \in Nat
    OBVIOUS
  <2> QED BY <2>1, SumExists
<1> HIDE DEF f
<1>3. f[0] = n
  BY <1>2 DEF Sums
<1>4. ASSUME Len(v) = 1 PROVE f[1] = Counted(f[0], v[1])
  <2> DEFINE k == 1
  <2>1. k \in 0 .. Len(v) /\ k # 0
    BY <1>4
  <2> HIDE DEF k
  <2>2. f[k] = Counted(f[k - 1], v[k])
    BY <1>2, <2>1 DEF Sums
  <2>3. k - 1 = 0 /\ k = 1
    BY DEF k
  <2> QED BY <2>2, <2>3
<1> QED BY <1>1, <1>3, <1>4

LEMMA TrimOne ==
  ASSUME NEW v, IsSeq(v), Len(v) \in {1, 2}, v[1] \notin {"sp", "cr"}, Len(v) = 2 => v[2] = "cr"
  PROVE  TrimRight(v) = <<v[1]>>
<1> DEFINE S == {0} \cup {i \in 1 .. Len(v) : v[i] \notin {"sp", "cr"}}
<1>1. S = {0, 1}
  <2>1. ASSUME NEW i \in 1 .. Len(v), v[i] \notin {"sp", "cr"} PROVE i = 1
    BY <2>1
  <2>2. 1 \in 1 .. Len(v)
    OBVIOUS
  <2> QED BY <2>1, <2>2
<1>2. Max(S) = 1
  <2>1. \E x \in {0, 1} : \A y \in {0, 1} : x >= y
    OBVIOUS
  <2>2. Max({0, 1}) \in {0, 1} /\ \A y \in {0, 1} : Max({0, 1}) >= y
    BY <2>1 DEF Max
  <2>3. Max({0, 1}) = 1
    BY <2>2
  <2> QED BY <1>1, <2>3
<1>3. TrimRight(v) = SubSeq(v, 1, 1)
  BY <1>2 DEF TrimRight
<1>4. PICK T : v \in Seq(T)
  BY DEF IsSeq
<1> DEFINE u == SubSeq(v, 1, 1)
           w == <<v[1]>>
<1>5. u \in Seq(T) /\ Len(u) = 1 /\ u[1] = v[1]
  <2>1. \A i \in 1 .. 1 : v[i] \in T
    BY <1>4
  <2> QED BY <2>1, SubSeqProperties
<1>6. w \in Seq(T) /\ Len(w) = 1 /\ w[1] = v[1]
  BY <1>4
<1> HIDE DEF u, w
<1>7. \A i \in 1 .. Len(u) : u[i] = w[i]
  BY <1>5, <1>6
<1>8. u = w
  BY <1>5, <1>6, <1>7, SeqEqual
<1> QED BY <1>3, <1>8 DEF u, w

LEMMA PartAt ==
  ASSUME NEW d, IsSeq(d), NEW a \in Nat, NEW z \in Nat, a >= 1, z <= Len(d)
  PROVE  /\ IsSeq(SubSeq(d, a, z)) /\ Len(SubSeq(d, a, z)) = IF a <= z THEN z - a + 1 ELSE 0
         /\ \A i \in 1 .. z - a + 1 : SubSeq(d, a, z)[i] = d[a + i - 1]
<1>1. PICK T : d \in Seq(T)
  BY DEF IsSeq
<1>2. \A i \in a .. z : d[i] \in T
  BY <1>1
<1>3. SubSeq(d, a, z) \in Seq(T)
      /\ Len(SubSeq(d, a, z)) = (IF a <= z THEN z - a + 1 ELSE 0)
      /\ \A i \in 1 .. z - a + 1 : SubSeq(d, a, z)[i] = d[a + i - 1]
  BY <1>2, SubSeqProperties
<1> QED BY <1>3 DEF IsSeq

(* What header j + 1 says.                                                 *)
Heeded(x, e, f, j) ==
  /\ Known(x, f, j + 1) /\ f.step = "NAME0" /\ f.trailer = <<>> /\ f.name = e.name
  /\ f.role = e.role /\ f.moved = e.moved /\ f.reforming = e.reforming

LEMMA HeaderHeard ==
  ASSUME NEW x, Laid(x), NEW j \in 0 .. x.n - 1, Line(x, j), j \in Nat,
         NEW e, DOMAIN e = EnvFields, Known(x, e, j), e.trailer = <<>>, e.name = <<x.w[x.h[j] + 1]>>,
         NEW v, v = <<x.w[x.h[j] + 4]>>
  PROVE  Heeded(x, e, Header(e, v), j)
<1> DEFINE nm == x.w[x.h[j] + 1]
           va == x.w[x.h[j] + 4]
           f == Header(e, v)
<1>1. \A k \in {x.co, x.ce, x.cl, x.te} : k \in Nat /\ (k \in 1 .. j + 1 <=> k \in 1 .. j \/ k = j + 1)
  <2>1. {x.co, x.ce, x.cl, x.te} \subseteq 0 .. x.n /\ x.n \in Nat
    BY DEF Laid
  <2> TAKE k \in {x.co, x.ce, x.cl, x.te}
  <2>2. k \in Nat
    BY <2>1
  <2> QED BY <2>2
<1>2. /\ (e.name = <<"Content-Length">> <=> nm = "Content-Length")
      /\ (e.name = <<"Transfer-Encoding">> <=> nm = "Transfer-Encoding")
      /\ (e.name = <<"Trailer">> <=> nm = "Trailer")
      /\ (e.name = <<"Content-Encoding">> <=> nm = "Content-Encoding")
      /\ (e.name = <<"Connection">> <=> nm = "Connection")
      /\ (v = <<"chunked">> <=> va = "chunked")
  OBVIOUS
<1>3. /\ f.content_length = (IF e.name = <<"Content-Length">> THEN Decimal(v) ELSE e.content_length)
      /\ f.chunked = (e.chunked \/ (e.name = <<"Transfer-Encoding">> /\ v = <<"chunked">>))
      /\ f.trailer = (IF e.name = <<"Trailer">> THEN v ELSE e.trailer)
      /\ f.encoding = (IF e.name = <<"Content-Encoding">> /\ e.encoding = <<>> THEN v ELSE e.encoding)
      /\ f.keepalive = (IF e.name = <<"Connection">> THEN Connection(v) ELSE e.keepalive)
      /\ f.step = "NAME0" /\ f.name = e.name /\ f.role = e.role /\ f.moved = e.moved
      /\ f.reforming = e.reforming /\ f.body = e.body /\ f.chunk = e.chunk /\ f.chunk_end = e.chunk_end
      /\ f.version = e.version /\ f.method = e.method /\ f.uri = e.uri /\ f.statuscode = e.statuscode
  BY DEF Header, EnvFields
<1> HIDE DEF f
<1>4. /\ nm # "Trailer" /\ (nm = "Connection" <=> j + 1 = x.co) /\ (nm = "Content-Encoding" <=> j + 1 = x.ce)
      /\ (nm = "Content-Length" <=> j + 1 = x.cl)
      /\ ((nm = "Transfer-Encoding" /\ va = "chunked") <=> j + 1 = x.te)
      /\ (j + 1 = x.co => va = x.keep) /\ (j + 1 = x.ce => va = "gzip")
      /\ (j + 1 = x.cl => va \in DOMAIN Digits /\ Digits[va] = Len(x.body))
  BY DEF Line
<1> HIDE DEF nm, va
<1>5. f.trailer = <<>>
  BY <1>2, <1>3, <1>4
<1>6. f.chunked = (x.te \in 1 .. j + 1)
  <2>1. e.chunked = (x.te \in 1 .. j)
    BY DEF Known, Heard
  <2>2. f.chunked = (x.te \in 1 .. j \/ x.te = j + 1)
    BY <1>2, <1>3, <1>4, <2>1
  <2> QED BY <1>1, <2>2
<1>7. f.keepalive = IF x.co \in 1 .. j + 1 THEN Connection(<<x.keep>>) ELSE 0
  <2>1. e.keepalive = IF x.co \in 1 .. j THEN Connection(<<x.keep>>) ELSE 0
    BY DEF Known, Heard
  <2>2. CASE j + 1 = x.co
    <3>1. v = <<x.keep>>
      BY <1>4, <2>2 DEF va
    <3>2. f.keepalive = Connection(v)
      BY <1>2, <1>3, <1>4, <2>2
    <3> QED BY <1>1, <2>2, <3>1, <3>2
  <2>3. CASE j + 1 # x.co
    BY <1>1, <1>2, <1>3, <1>4, <2>1, <2>3
  <2> QED BY <2>2, <2>3
<1>8. f.encoding = IF x.ce \in 1 .. j + 1 THEN <<"gzip">> ELSE <<>>
  <2>1. e.encoding = IF x.ce \in 1 .. j THEN <<"gzip">> ELSE <<>>
    BY DEF Known, Heard
  <2>2. CASE j + 1 = x.ce
    <3>1. v = <<"gzip">>
      BY <1>4, <2>2 DEF va
    <3>2. x.ce \notin 1 .. j
      BY <2>2
    <3>3. e.encoding = <<>>
      BY <2>1, <3>2
    <3>4. f.encoding = v
      BY <1>2, <1>3, <1>4, <2>2, <3>3
    <3> QED BY <1>1, <2>2, <3>1, <3>4
  <2>3. CASE j + 1 # x.ce
    BY <1>1, <1>2, <1>3, <1>4, <2>1, <2>3
  <2> QED BY <2>2, <2>3
<1>9. f.content_length = IF x.cl \in 1 .. j + 1 THEN Len(x.body) ELSE 0
  <2>1. e.content_length = IF x.cl \in 1 .. j THEN Len(x.body) ELSE 0
    BY DEF Known
  <2>2. CASE j + 1 = x.cl
    <3>1. v = <<va>> /\ Len(v) = 1 /\ v[1] = va
      BY DEF va
    <3>2. Decimal(v) = Counted(0, va)
      <4> DEFINE z == 0
      <4>1. z \in Nat /\ Len(v) \in {0, 1} /\ Len(v) # 0
        BY <3>1
      <4> HIDE DEF z
      <4>2. Number(z, v) = Counted(z, v[1])
        BY <4>1, NumberOf
      <4> QED BY <3>1, <4>2 DEF Decimal, z
    <3>3. Counted(0, va) = Digits[va]
      <4>1. va \in DOMAIN Digits
        BY <1>4, <2>2
      <4>2. \A k \in DOMAIN Digits : Digits[k] \in Nat
        BY DEF Digits
      <4> QED BY <4>1, <4>2 DEF Counted
    <3>4. f.content_length = Decimal(v)
      BY <1>2, <1>3, <1>4, <2>2
    <3> QED BY <1>1, <1>4, <2>2, <3>2, <3>3, <3>4
  <2>3. CASE j + 1 # x.cl
    BY <1>1, <1>2, <1>3, <1>4, <2>1, <2>3
  <2> QED BY <2>2, <2>3
<1>10. Began(x, f) /\ f.body = 0 /\ f.chunk = 0 /\ f.chunk_end = 0
  BY <1>3 DEF Known, Began
<1>11. Known(x, f, j + 1)
  BY <1>6, <1>7, <1>8, <1>9, <1>10 DEF Known, Heard
<1> QED BY <1>3, <1>5, <1>11 DEF f, Heeded

LEMMA VALUEReads ==
  ASSUME NEW x, NEW o, NEW i, NEW s, On(x, o, i, s), s.e.step = "VALUE"
  PROVE  Reads(x, VALUE(s))
<1> DEFINE q == Scan(s, {"lf"})
           v == TrimRight(Read(s, q))
           e == Header(s.e, v)
<1>0. s.e.step \in Headings \ {"NAME0"}
  BY DEF Headings
<1>1. /\ Fill(s) \in Nat /\ s.p \in 0 .. Fill(s) /\ s.p \in Nat /\ Going(o, i, s) /\ DOMAIN s.e = EnvFields
      /\ Common(x, s.e, s.b.data) /\ Laid(x) /\ Fill(s) = Len(s.b.data) /\ Exact(x, s.b.data)
      /\ IsSeq(s.b.data)
  BY <1>0, LineOn
<1>2. PICK j \in 0 .. x.n - 1 :
        /\ Line(x, j) /\ x.h[j] \in Nat /\ x.eol \in {1, 2} /\ Known(x, s.e, j) /\ j \in Nat
        /\ j + 1 \in 0 .. x.n
        /\ s.p \in x.h[j] + 4 .. x.h[j] + 3 + x.eol /\ s.e.offset = x.h[j] + 3
        /\ s.e.name = <<x.w[x.h[j] + 1]>>
  BY <1>0, LineOn
<1> DEFINE h == x.h[j]
           l == x.eol
<1>2a. /\ h \in Nat /\ l \in {1, 2} /\ s.p \in h + 4 .. h + 3 + l /\ s.e.offset = h + 3
       /\ s.p \in Nat /\ Fill(s) \in Nat /\ Fill(s) = Len(s.b.data)
  BY <1>1, <1>2
<1>2b. /\ s.e.name = <<x.w[h + 1]>> /\ x.h[j + 1] = h + 4 + l
       /\ x.w[h + 4 + l] = "lf" /\ (l = 2 => x.w[h + 5] = "cr") /\ x.w[h + 4] \notin {"sp", "cr"}
  BY <1>2 DEF Line, Separators
<1> HIDE DEF h, l
<1> DEFINE r == h + 3 + l
<1>3. /\ r \in Nat /\ r >= s.p /\ (r < Fill(s) => At(s, r) = "lf")
      /\ \A k \in s.p .. r - 1 : k < Fill(s) => At(s, k) = "cr"
  <2>1. r \in Nat /\ r >= s.p /\ r + 1 = h + 4 + l
    BY <1>2a
  <2>2. r < Fill(s) => At(s, r) = x.w[r + 1]
    BY <1>1, <2>1, AtIs
  <2>3. ASSUME NEW k \in s.p .. r - 1, k < Fill(s) PROVE At(s, k) = "cr"
    <3>1. k = h + 4 /\ l = 2 /\ k \in Nat /\ k + 1 = h + 5
      BY <1>2a
    <3>2. At(s, k) = x.w[k + 1]
      BY <1>1, <2>3, <3>1, AtIs
    <3> QED BY <1>2b, <3>1, <3>2
  <2> QED BY <1>2b, <2>1, <2>2, <2>3
<1>4. q = IF r < Fill(s) THEN r ELSE Fill(s)
  <2> DEFINE stops == {"lf"}
  <2>1. (r < Fill(s) => At(s, r) \in stops) /\ \A k \in s.p .. r - 1 : k < Fill(s) => At(s, k) \notin stops
    BY <1>3
  <2>2. r \in Nat /\ r >= s.p
    BY <1>3
  <2> HIDE DEF r, stops
  <2>3. Scan(s, stops) = IF r < Fill(s) THEN r ELSE Fill(s)
    BY <1>1, <2>1, <2>2, ScanTo
  <2> QED BY <2>3 DEF stops
<1> HIDE DEF q
<1>5. CASE q = Fill(s)
  <2>1. Word(s, q, FALSE, e) = More(s, q)
    BY <1>5 DEF Word
  <2>2. VALUE(s) = More(s, q)
    <3>1. ~(q < Fill(s))
      BY <1>1, <1>5
    <3> QED BY <2>1, <3>1 DEF VALUE, q
  <2>3. q \in h + 4 .. h + 3 + l
    <3>1. q <= r /\ q >= s.p
      BY <1>1, <1>3, <1>4, <1>5
    <3> QED BY <1>1, <1>2a, <1>5, <3>1
  <2>4. Stand(x, s.e, s.b.data, q)
    BY <1>0, <1>1, <1>2, <2>3, LineStand DEF h, l
  <2>5. Reads(x, More(s, q))
    BY <1>1, <2>4, MoreReads
  <2> QED BY <2>2, <2>5
<1>6. CASE q # Fill(s)
  <2>1. q = r /\ q < Fill(s) /\ q \in Nat
    BY <1>1, <1>3, <1>4, <1>6
  <2>2. v = <<x.w[h + 4]>>
    <3> DEFINE a == s.e.offset + 1
               u == SubSeq(s.b.data, a, q)
    <3>1. a \in Nat /\ a >= 1 /\ q <= Len(s.b.data) /\ q - a + 1 = l /\ a <= q /\ a = h + 4
      BY <1>1, <1>2a, <2>1
    <3>2. /\ IsSeq(u) /\ Len(u) = l
          /\ \A k \in 1 .. l : u[k] = s.b.data[a + k - 1]
      <4>1. IsSeq(s.b.data)
        BY <1>1
      <4>2. /\ IsSeq(u) /\ Len(u) = (IF a <= q THEN q - a + 1 ELSE 0)
            /\ \A k \in 1 .. q - a + 1 : u[k] = s.b.data[a + k - 1]
        <5> DEFINE d == s.b.data
        <5>1. IsSeq(d) /\ a \in Nat /\ q \in Nat /\ a >= 1 /\ q <= Len(d)
          BY <2>1, <3>1, <4>1
        <5> HIDE DEF a, d, q
        <5> QED BY <5>1, PartAt DEF d
      <4> HIDE DEF a, u
      <4> QED BY <3>1, <4>2
    <3> HIDE DEF u
    <3>3. u[1] = x.w[h + 4] /\ (l = 2 => u[2] = "cr")
      <4>1. u[1] = s.b.data[a + 1 - 1] /\ (l = 2 => u[2] = s.b.data[a + 2 - 1])
        BY <1>2a, <3>2
      <4>2. a + 1 - 1 = h + 4 /\ a + 2 - 1 = h + 5 /\ h + 4 \in 1 .. Len(s.b.data)
            /\ (l = 2 => h + 5 \in 1 .. Len(s.b.data))
        BY <1>2a, <2>1, <3>1
      <4>3. s.b.data[h + 4] = x.w[h + 4]
            /\ (l = 2 => s.b.data[h + 5] = x.w[h + 5])
        BY <1>1, <4>2 DEF Exact
      <4>4. l = 2 => x.w[h + 5] = "cr"
        BY <1>2b
      <4> QED BY <4>1, <4>2, <4>3, <4>4
    <3>4. x.w[h + 4] \notin {"sp", "cr"}
      BY <1>2b
    <3>5. TrimRight(u) = <<u[1]>>
      BY <1>2a, <3>2, <3>3, <3>4, TrimOne
    <3> QED BY <3>3, <3>5 DEF Read, u
  <2> HIDE DEF v
  <2>3. s.e.trailer = <<>> /\ s.e.role = x.role /\ s.e.moved = FALSE /\ s.e.reforming = FALSE
        /\ Len(s.b.data) <= Len(x.w)
    BY <1>1 DEF Common
  <2>4. /\ Known(x, e, j + 1) /\ e.step = "NAME0" /\ e.trailer = <<>>
        /\ e.name = s.e.name /\ e.role = s.e.role /\ e.moved = s.e.moved
        /\ e.reforming = s.e.reforming
    <3>1. v = <<x.w[x.h[j] + 4]>>
      BY <2>2 DEF h
    <3>2. Heeded(x, s.e, e, j)
      BY <1>1, <1>2, <2>3, <3>1, HeaderHeard
    <3> QED BY <3>2 DEF Heeded
  <2> HIDE DEF e
  <2>5. e.name # e.trailer
    BY <1>2b, <2>4
  <2>6. VALUE(s) = Word(s, q, FALSE, e)
    BY <2>5 DEF VALUE, q, v, e
  <2>7. Common(x, e, s.b.data)
    BY <2>3, <2>4 DEF Common
  <2>8. q + 1 = x.h[j + 1]
    BY <1>2a, <1>2b, <2>1
  <2>9. InHeader(x, e, q + 1)
    BY <1>2, <2>4, <2>8 DEF InHeader
  <2>10. Stand(x, e, s.b.data, q + 1)
    BY <1>1, <2>4, <2>7, <2>9 DEF Stand, Headings
  <2>11. Reads(x, Word(s, q, FALSE, e))
    BY <1>1, <1>6, <2>10, WordReads
  <2> QED BY <2>6, <2>11
<1> QED BY <1>5, <1>6

LEMMA BodyOn ==
  ASSUME NEW x, NEW o, NEW i, NEW s, On(x, o, i, s), s.e.step = "BODY"
  PROVE  Exact(x, s.b.data) /\ InBody(x, s.e)
  BY DEF On, Stand, InChunks, Startings, Headings

LEMMA BODYReads ==
  ASSUME NEW x, NEW o, NEW i, NEW s, On(x, o, i, s), s.e.step = "BODY"
  PROVE  Reads(x, BODY(s))
<1> DEFINE end == s.e.body + s.e.content_length
<1>1. /\ Fill(s) \in Nat /\ Fill(s) = Len(s.b.data) /\ Going(o, i, s) /\ DOMAIN s.e = EnvFields
      /\ Common(x, s.e, s.b.data) /\ Laid(x)
  BY OnPlace
<1>2. Exact(x, s.b.data) /\ InBody(x, s.e)
  BY BodyOn
<1>3. x.n \in 0 .. x.n
  BY <1>1 DEF Laid
<1>4. x.base \in Nat /\ x.base > 0
  BY <1>1, <1>3, HeaderPlace
<1>5. Len(x.body) \in Nat /\ Len(x.w) = x.base + Len(x.body)
      /\ \A k \in 1 .. Len(x.body) : x.w[x.base + k] = x.body[k]
  BY <1>1, <1>2 DEF Laid, Follows, InBody
<1>6. end = Len(x.w) /\ end \in Nat /\ end > 0 /\ Fill(s) <= end
  BY <1>1, <1>2, <1>4, <1>5 DEF InBody, Common
<1>7. CASE Fill(s) >= end
  <2> DEFINE t == DoneReforming(s, end)
  <2>1. BODY(s) = t
    BY <1>7 DEF BODY
  <2> HIDE DEF end
  <2>2. Fill(s) = end
    BY <1>1, <1>6, <1>7
  <2>3. /\ t.e = [[s.e EXCEPT !.step = "DONE"] EXCEPT !.reforming = @ \/ Fill(s) > end]
        /\ t.b.data = s.b.data /\ t.b.process = end /\ t.ret = "done"
    <3>1. DOMAIN s = {"e", "b", "p", "ret"} /\ DOMAIN s.b = {"data", "process", "size"}
      BY <1>1 DEF Going, Same, Data
    <3> QED BY <3>1 DEF Done, DoneReforming
  <2> HIDE DEF t
  <2>4. /\ t.e.role = x.role /\ t.e.moved = FALSE /\ t.e.step = "DONE"
        /\ Began(x, t.e) /\ Heard(x, t.e, x.n) /\ t.e.body = x.base /\ t.e.content_length = Len(x.body)
        /\ t.e.reforming = (FALSE \/ Fill(s) > end) /\ x.te = 0
    BY <1>1, <1>2, <2>3 DEF Common, EnvFields, InBody, Began, Heard
  <2>5. \A k \in 1 .. Len(x.body) : s.b.data[x.base + k] = x.body[k]
    <3> TAKE k \in 1 .. Len(x.body)
    <3>1. x.base + k \in 1 .. Len(s.b.data)
      BY <1>1, <1>4, <1>5, <1>6, <2>2
    <3> QED BY <1>2, <1>5, <3>1 DEF Exact
  <2>6. s.b.data # <<>>
    <3>1. Len(s.b.data) > 0
      BY <1>1, <1>6, <2>2
    <3> QED BY <3>1
  <2>7. t.e.reforming = (Len(t.b.data) > t.b.process)
    BY <1>1, <2>3, <2>4
  <2>8. t.e.body # 0 /\ Len(t.b.data) = Len(x.w) /\ t.b.process = Len(x.w) - 0
        /\ t.e.body + Len(x.body) <= t.b.process
    <3>1. t.e.body = x.base /\ Len(t.b.data) = end /\ t.b.process = end /\ end = Len(x.w)
      BY <1>1, <1>6, <2>2, <2>3, <2>4
    <3>2. end - 0 = end /\ x.base + Len(x.body) = end /\ x.base # 0
      BY <1>4, <1>5, <1>6
    <3> QED BY <1>4, <1>5, <1>6, <3>1, <3>2
  <2>9. Finished(x, t.e, t.b)
    BY <1>1, <1>5, <1>6, <2>2, <2>3, <2>4, <2>5, <2>6, <2>7, <2>8 DEF Finished
  <2> QED BY <2>1, <2>3, <2>9 DEF Reads
<1>8. CASE ~(Fill(s) >= end)
  <2>1. BODY(s) = More(s, Fill(s))
    BY <1>8 DEF BODY
  <2>2. Stand(x, s.e, s.b.data, Fill(s))
    BY <1>1, <1>2 DEF Stand
  <2>3. Reads(x, More(s, Fill(s)))
    BY <1>1, <2>2, MoreReads
  <2> QED BY <2>1, <2>3
<1> QED BY <1>7, <1>8

(* Chunks.                                                                 *)
LEMMA ChunkPlace ==
  ASSUME NEW x, Laid(x), x.te # 0, NEW i \in 1 .. Len(x.body) + 1
  PROVE  /\ x.base \in Nat /\ x.base > 0 /\ Len(x.body) \in Nat /\ i \in Nat
         /\ x.c[i] \in Nat /\ x.c[i] >= x.base + i - 1
         /\ i # Len(x.body) + 1 =>
              Chunk(x, i) /\ i + 1 \in 1 .. Len(x.body) + 1 /\ x.c[i + 1] \in Nat
              /\ x.c[i + 1] >= x.base + i
         /\ i = Len(x.body) + 1 =>
              /\ x.w[x.c[i] + 1] = "d0" /\ x.w[x.c[i] + 2] = "lf" /\ Len(x.w) = x.c[i] + 3
<1>1. Len(x.body) \in Nat /\ Follows(x) /\ x.n \in 0 .. x.n
  BY DEF Laid
<1>2. x.base \in Nat /\ x.base > 0
  BY <1>1, HeaderPlace
<1>3. i \in Nat /\ (i # Len(x.body) + 1 => i \in 1 .. Len(x.body) /\ i + 1 \in 1 .. Len(x.body) + 1)
  BY <1>1
<1>4. \A k \in 1 .. Len(x.body) + 1 : x.c[k] \in Nat /\ x.c[k] >= x.base + k - 1
  BY <1>1 DEF Follows
<1>5. i # Len(x.body) + 1 => Chunk(x, i) /\ x.c[i + 1] \in Nat /\ x.c[i + 1] >= x.base + i
  <2> SUFFICES ASSUME i # Len(x.body) + 1
               PROVE  Chunk(x, i) /\ x.c[i + 1] \in Nat /\ x.c[i + 1] >= x.base + i
    OBVIOUS
  <2>1. Chunk(x, i)
    BY <1>1, <1>3 DEF Follows
  <2>2. x.c[i + 1] \in Nat /\ x.c[i + 1] >= x.base + (i + 1) - 1
    BY <1>3, <1>4
  <2> QED BY <1>2, <1>3, <2>1, <2>2
<1>6. i = Len(x.body) + 1 => x.w[x.c[i] + 1] = "d0" /\ x.w[x.c[i] + 2] = "lf" /\ Len(x.w) = x.c[i] + 3
  BY <1>1 DEF Follows
<1> QED BY <1>1, <1>2, <1>3, <1>4, <1>5, <1>6

LEMMA ChunkOn ==
  ASSUME NEW x, NEW o, NEW i, NEW s, On(x, o, i, s), s.e.step \in {"CHUNKED_SIZE", "CHUNKED_DATA"}
  PROVE  InChunks(x, s.e, s.b.data, s.p)
  BY DEF On, Stand, Startings, Headings

LEMMA CHUNKED_SIZEReads ==
  ASSUME NEW x, NEW o, NEW m, NEW s, On(x, o, m, s), s.e.step = "CHUNKED_SIZE"
  PROVE  Reads(x, CHUNKED_SIZE(s))
<1> DEFINE q == Scan(s, {"lf"})
           v == SubSeq(s.b.data, s.p + 1, q)
           size == Number(s.e.chunk, v)
           w == [s EXCEPT !.e.chunk = size]
           t == [s EXCEPT !.p = q + 1, !.e.chunk = size]
<1>1. /\ Fill(s) \in Nat /\ s.p \in 0 .. Fill(s) /\ s.p \in Nat /\ Going(o, m, s) /\ DOMAIN s.e = EnvFields
      /\ Common(x, s.e, s.b.data) /\ Laid(x) /\ Fill(s) = Len(s.b.data) /\ IsSeq(s.b.data)
  BY OnPlace
<1>2. PICK i \in 1 .. Len(x.body) + 1 :
        /\ Joint(x, s.e, s.b.data, i)
        /\ \/ s.p = x.c[i] /\ s.e.chunk = 0
           \/ s.p = x.c[i] + 1 /\ s.e.chunk = (IF i <= Len(x.body) THEN 1 ELSE 0)
  BY ChunkOn DEF InChunks
<1> DEFINE c == x.c[i]
           L == Len(x.body)
           D == IF i <= L THEN 1 ELSE 0
           g == IF i <= L THEN "d1" ELSE "d0"
<1>3. /\ x.te # 0 /\ x.base \in Nat /\ x.base > 0 /\ L \in Nat /\ i \in Nat /\ i <= L + 1 /\ i >= 1
      /\ c \in Nat /\ c >= x.base + i - 1
      /\ x.w[c + 1] = g /\ x.w[c + 2] = "lf"
      /\ (i = L + 1 => Len(x.w) = c + 3)
  <2>1. x.te # 0
    BY <1>2 DEF Joint
  <2>2. /\ x.base \in Nat /\ x.base > 0 /\ L \in Nat /\ i \in Nat /\ c \in Nat /\ c >= x.base + i - 1
        /\ (i # L + 1 => Chunk(x, i))
        /\ (i = L + 1 => x.w[c + 1] = "d0" /\ x.w[c + 2] = "lf" /\ Len(x.w) = c + 3)
    BY <1>1, <2>1, ChunkPlace
  <2>3. i <= L + 1 /\ i >= 1 /\ (i # L + 1 <=> i <= L)
    BY <2>2
  <2> QED BY <2>1, <2>2, <2>3 DEF Chunk
<1>4. /\ D \in Nat /\ (D > 0 <=> i <= L) /\ (i <= L => D = 1) /\ (i > L => D = 0 /\ i = L + 1)
      /\ g # "lf" /\ Counted(0, g) = D
  <2>1. Counted(0, "d1") = 1 /\ Counted(0, "d0") = 0
    BY DEF Counted, Digits
  <2> QED BY <1>3, <2>1
<1>5. s.p \in {c, c + 1} /\ (s.p = c => s.e.chunk = 0) /\ (s.p = c + 1 => s.e.chunk = D)
  BY <1>2, <1>3
<1>6. \A k \in 1 .. Len(s.b.data) : k > c => s.b.data[k] = x.w[k]
  BY <1>2 DEF Joint
<1> HIDE DEF D, g, c, L
<1> DEFINE r == c + 1
<1>7. /\ r \in Nat /\ r >= s.p /\ (r < Fill(s) => At(s, r) = "lf")
      /\ \A k \in s.p .. r - 1 : k < Fill(s) => At(s, k) = g
  <2>1. r < Fill(s) => At(s, r) = "lf"
    <3> SUFFICES ASSUME r < Fill(s) PROVE At(s, r) = "lf"
      OBVIOUS
    <3>1. r + 1 \in 1 .. Len(s.b.data) /\ r + 1 > c /\ r + 1 = c + 2
      BY <1>1, <1>3
    <3> QED BY <1>3, <1>6, <3>1 DEF At
  <2>2. ASSUME NEW k \in s.p .. r - 1, k < Fill(s) PROVE At(s, k) = g
    <3>1. k + 1 \in 1 .. Len(s.b.data) /\ k + 1 > c /\ k + 1 = c + 1
      BY <1>1, <1>3, <1>5, <2>2
    <3> QED BY <1>3, <1>6, <3>1 DEF At
  <2> QED BY <1>3, <1>5, <2>1, <2>2
<1>8. q = IF r < Fill(s) THEN r ELSE Fill(s)
  <2> DEFINE stops == {"lf"}
  <2>1. (r < Fill(s) => At(s, r) \in stops) /\ \A k \in s.p .. r - 1 : k < Fill(s) => At(s, k) \notin stops
    BY <1>4, <1>7
  <2>2. r \in Nat /\ r >= s.p
    BY <1>7
  <2> HIDE DEF r, stops
  <2>3. Scan(s, stops) = IF r < Fill(s) THEN r ELSE Fill(s)
    BY <1>1, <2>1, <2>2, ScanTo
  <2> QED BY <2>3 DEF stops
<1> HIDE DEF q
<1>9. q \in {c, c + 1} /\ q >= s.p /\ q <= Fill(s) /\ q \in Nat
  BY <1>1, <1>3, <1>5, <1>7, <1>8
<1>10. size = IF q = c THEN 0 ELSE D
  <2> DEFINE a == s.p + 1
  <2>1. a \in Nat /\ a >= 1 /\ q <= Len(s.b.data) /\ (IF a <= q THEN q - a + 1 ELSE 0) \in {0, 1}
        /\ (a <= q => s.p = c /\ q = c + 1 /\ a = c + 1) /\ (~(a <= q) => s.p = q)
    BY <1>1, <1>3, <1>5, <1>9
  <2>2. /\ Len(v) = (IF a <= q THEN q - a + 1 ELSE 0)
        /\ \A k \in 1 .. q - a + 1 : v[k] = s.b.data[a + k - 1]
    <3>1. v = SubSeq(s.b.data, a, q)
      OBVIOUS
    <3> HIDE DEF a, v
    <3>2. /\ Len(SubSeq(s.b.data, a, q)) = (IF a <= q THEN q - a + 1 ELSE 0)
          /\ \A k \in 1 .. q - a + 1 : SubSeq(s.b.data, a, q)[k] = s.b.data[a + k - 1]
      BY <1>1, <1>9, <2>1, PartAt
    <3> QED BY <3>1, <3>2
  <2> HIDE DEF v
  <2>3. Len(v) \in {0, 1} /\ s.e.chunk \in Nat
    <3>1. Len(v) \in {0, 1}
      BY <2>1, <2>2
    <3> QED BY <1>4, <1>5, <3>1
  <2>4. size = IF Len(v) = 0 THEN s.e.chunk ELSE Counted(s.e.chunk, v[1])
    BY <2>3, NumberOf
  <2>5. CASE a <= q
    <3>1. Len(v) = 1 /\ s.p = c /\ q = c + 1 /\ s.e.chunk = 0
      BY <1>1, <1>3, <1>5, <1>9, <2>1, <2>2, <2>5
    <3>2. v[1] = s.b.data[c + 1]
      <4>1. 1 \in 1 .. q - a + 1 /\ a + 1 - 1 = c + 1
        BY <1>3, <2>1, <2>5
      <4> QED BY <2>2, <4>1
    <3>3. c + 1 \in 1 .. Len(s.b.data) /\ c + 1 > c /\ q # c
      BY <1>1, <1>3, <1>9, <3>1
    <3>4. v[1] = g
      BY <1>3, <1>6, <3>2, <3>3
    <3>5. size = Counted(0, g)
      <4> HIDE DEF size
      <4> QED BY <2>4, <3>1, <3>4
    <3> QED BY <1>4, <3>3, <3>5
  <2>6. CASE ~(a <= q)
    <3>1. Len(v) = 0 /\ s.p = q
      BY <2>1, <2>2, <2>6
    <3>2. size = s.e.chunk
      <4> HIDE DEF size
      <4> QED BY <2>4, <3>1
    <3>3. s.e.chunk = IF q = c THEN 0 ELSE D
      BY <1>3, <1>5, <3>1
    <3> QED BY <3>2, <3>3
  <2> QED BY <2>5, <2>6
<1> HIDE DEF size
<1>11. DOMAIN s = {"e", "b", "p", "ret"} /\ DOMAIN s.b = {"data", "process", "size"} /\ s.ret = "run"
  BY <1>1 DEF Going, Same, Data
<1>12. s.e.trailer = <<>> /\ s.e.role = x.role /\ s.e.moved = FALSE /\ s.e.reforming = FALSE
      /\ Len(s.b.data) <= Len(x.w)
  BY <1>1 DEF Common
<1>13. /\ Began(x, s.e) /\ Heard(x, s.e, x.n)
       /\ s.e.body = x.base /\ s.e.chunk_end = x.base + i - 1 /\ s.e.content_length = i - 1
       /\ \A k \in 1 .. i - 1 : s.b.data[x.base + k] = x.body[k]
  BY <1>2 DEF Joint
<1>14. CASE q = Fill(s)
  <2> DEFINE f == [s.e EXCEPT !.chunk = size]
  <2>1. CHUNKED_SIZE(s) = More(w, q)
    BY <1>14 DEF CHUNKED_SIZE, q, size
  <2>2. w = [s EXCEPT !.e = f]
    BY <1>11
  <2>3. More(w, q).e = f /\ More(w, q).b.data = s.b.data /\ More(w, q).b.process = q
        /\ More(w, q).ret = "more"
    <3> HIDE DEF f
    <3> QED BY <1>11, <2>2 DEF More
  <2>4. Common(x, f, s.b.data) /\ f.step = "CHUNKED_SIZE" /\ f.chunk = size /\ Joint(x, f, s.b.data, i)
    BY <1>1, <1>2 DEF Common, Joint, Began, Heard, EnvFields
  <2>5. InChunks(x, f, s.b.data, q)
    <3> HIDE DEF f
    <3>1. \/ q = x.c[i] /\ f.chunk = 0
          \/ q = x.c[i] + 1 /\ f.chunk = (IF i <= Len(x.body) THEN 1 ELSE 0)
      BY <1>3, <1>9, <1>10, <2>4 DEF c, D, L
    <3> QED BY <2>4, <3>1 DEF InChunks
  <2> HIDE DEF f, w
  <2>6. Stand(x, f, s.b.data, q)
    BY <2>4, <2>5 DEF Stand
  <2> QED BY <2>1, <2>3, <2>6 DEF Reads
<1>15. CASE q # Fill(s)
  <2>1. q = c + 1 /\ c + 2 <= Fill(s) /\ q + 1 = c + 2
    BY <1>1, <1>3, <1>7, <1>8, <1>9, <1>15
  <2>2. size = D
    BY <1>3, <1>10, <2>1
  <2>3. CASE i <= L
    <3> DEFINE f == [s.e EXCEPT !.chunk = D, !.chunk_body = c + 2, !.step = "CHUNKED_DATA"]
               u == [t EXCEPT !.e.chunk_body = q + 1, !.e.step = "CHUNKED_DATA"]
    <3>1. CHUNKED_SIZE(s) = u
      <4>1. size > 0
        BY <1>4, <2>2, <2>3
      <4> QED BY <1>15, <4>1 DEF CHUNKED_SIZE, q, size
    <3>2. u = [s EXCEPT !.p = c + 2, !.e = f]
      BY <1>1, <1>11, <2>1, <2>2 DEF EnvFields
    <3> HIDE DEF u
    <3>3. u.e = f /\ u.b.data = s.b.data /\ u.p = c + 2 /\ u.ret = "run"
      <4> HIDE DEF f
      <4> QED BY <1>11, <3>2
    <3>4. Common(x, f, s.b.data) /\ f.step = "CHUNKED_DATA" /\ f.chunk = D /\ f.chunk_body = c + 2
          /\ Joint(x, f, s.b.data, i)
      BY <1>1, <1>2 DEF Common, Joint, Began, Heard, EnvFields
    <3> HIDE DEF f
    <3>5. i \in 1 .. Len(x.body) /\ D = 1
      BY <1>3, <1>4, <2>3 DEF L
    <3>6. InChunks(x, f, s.b.data, c + 2)
      <4>1. f.chunk = 1 /\ f.chunk_body = x.c[i] + 2
        BY <3>4, <3>5 DEF c
      <4>2. c + 2 >= x.c[i] + 2
        BY <1>3 DEF c
      <4> QED BY <3>4, <3>5, <4>1, <4>2 DEF InChunks
    <3>7. Stand(x, u.e, u.b.data, u.p)
      BY <3>3, <3>4, <3>6 DEF Stand
    <3> QED BY <3>1, <3>3, <3>7 DEF Reads
  <2>4. CASE ~(i <= L)
    <3>1. i = L + 1 /\ D = 0 /\ Len(x.w) = c + 3
      BY <1>3, <1>4, <2>4
    <3> DEFINE end == q + 1
               u == DoneReforming(t, end)
               f == [s.e EXCEPT !.chunk = D]
               z == [[f EXCEPT !.step = "DONE"] EXCEPT !.reforming = @ \/ Fill(s) > end]
    <3>2. CHUNKED_SIZE(s) = u
      <4>1. ~(size > 0)
        BY <1>4, <2>2, <2>4
      <4> QED BY <1>12, <1>15, <4>1 DEF CHUNKED_SIZE, q, size
    <3>3. t = [s EXCEPT !.p = end, !.e = f]
      BY <1>11, <2>2
    <3> HIDE DEF t, end, f
    <3>4. t.e = f /\ t.b = s.b /\ DOMAIN t = {"e", "b", "p", "ret"} /\ Fill(t) = Fill(s)
      BY <1>11, <3>3 DEF Fill
    <3>5. u.e = z /\ u.b.data = s.b.data /\ u.b.process = end /\ u.ret = "done"
      BY <1>11, <3>4 DEF Done, DoneReforming
    <3> HIDE DEF u
    <3>6. /\ z.role = x.role /\ z.moved = FALSE /\ z.step = "DONE" /\ Began(x, z) /\ Heard(x, z, x.n)
          /\ z.body = x.base /\ z.content_length = i - 1 /\ z.reforming = (FALSE \/ Fill(s) > end)
      BY <1>1, <1>12, <1>13 DEF EnvFields, Began, Heard, f
    <3> HIDE DEF z
    <3>7. end = Len(x.w) - 1 /\ end <= Len(s.b.data) /\ Len(s.b.data) <= Len(x.w)
      BY <1>1, <1>3, <1>12, <2>1, <3>1 DEF end
    <3>8. z.content_length = L /\ x.base + L <= end /\ i - 1 = L /\ z.body # 0
      BY <1>3, <2>1, <3>1, <3>6 DEF end
    <3>9. s.b.data # <<>>
      <4>1. Len(s.b.data) > 0
        BY <1>1, <1>3, <2>1
      <4> QED BY <4>1
    <3>10. u.e.reforming = (Len(u.b.data) > u.b.process)
      BY <1>1, <3>5, <3>6
    <3>11. \A k \in 1 .. Len(x.body) : s.b.data[x.base + k] = x.body[k]
      BY <1>13, <3>8 DEF L
    <3>12. Finished(x, u.e, u.b)
      BY <1>3, <3>5, <3>6, <3>7, <3>8, <3>9, <3>10, <3>11 DEF Finished, L
    <3> QED BY <3>2, <3>5, <3>12 DEF Reads
  <2> QED BY <2>3, <2>4
<1> QED BY <1>14, <1>15

LEMMA CHUNKED_DATAReads ==
  ASSUME NEW x, NEW o, NEW m, NEW s, On(x, o, m, s), s.e.step = "CHUNKED_DATA"
  PROVE  Reads(x, CHUNKED_DATA(s))
<1>1. /\ Fill(s) \in Nat /\ s.p \in 0 .. Fill(s) /\ s.p \in Nat /\ Going(o, m, s) /\ DOMAIN s.e = EnvFields
      /\ Common(x, s.e, s.b.data) /\ Laid(x) /\ Fill(s) = Len(s.b.data) /\ IsSeq(s.b.data)
  BY OnPlace
<1>2. InChunks(x, s.e, s.b.data, s.p)
  BY ChunkOn
<1>3. PICK i \in 1 .. Len(x.body) :
        Joint(x, s.e, s.b.data, i) /\ s.e.chunk = 1 /\ s.e.chunk_body = x.c[i] + 2 /\ s.p >= x.c[i] + 2
  BY <1>2 DEF InChunks
<1> DEFINE c == x.c[i]
           L == Len(x.body)
           d == s.b.data
           nl == IF i = 1 THEN 2 ELSE 1
           B == x.base
           F == Len(s.b.data)
<1>4. i \in Nat /\ i >= 1 /\ i <= L /\ L \in Nat /\ i \in 1 .. Len(x.body) + 1 /\ x.te # 0
      /\ i # Len(x.body) + 1
  <2>1. L \in Nat /\ x.te # 0
    BY <1>1, <1>3 DEF Laid, Joint
  <2> QED BY <2>1
<1>5. /\ x.base \in Nat /\ x.base > 0 /\ c \in Nat /\ c >= x.base + i - 1 /\ Chunk(x, i)
      /\ i + 1 \in 1 .. Len(x.body) + 1
  BY <1>1, <1>4, ChunkPlace
<1>6. /\ x.c[i + 1] = c + 3 + nl /\ x.w[c + 3] = x.body[i]
      /\ (i = 1 => x.w[c + 4] = "cr" /\ x.w[c + 5] = "lf") /\ (i # 1 => x.w[c + 4] = "lf")
  <2>1. /\ x.c[i + 1] = c + (IF i = 1 THEN 5 ELSE 4) /\ x.w[c + 3] = x.body[i]
        /\ IF i = 1 THEN x.w[c + 4] = "cr" /\ x.w[c + 5] = "lf" ELSE x.w[c + 4] = "lf"
    BY Zenon, <1>5 DEF Chunk, c
  <2>2. c \in Nat
    BY <1>5
  <2> HIDE DEF c, d, B, F, L
  <2>3. c + (IF i = 1 THEN 5 ELSE 4) = c + 3 + nl
    BY <2>2
  <2> HIDE DEF nl
  <2> QED BY <2>1, <2>3
<1>7. /\ Began(x, s.e) /\ Heard(x, s.e, x.n)
      /\ s.e.body = x.base /\ s.e.chunk_end = x.base + i - 1 /\ s.e.content_length = i - 1
      /\ (\A k \in 1 .. Len(d) : k > c => d[k] = x.w[k])
      /\ (\A k \in 1 .. i - 1 : d[x.base + k] = x.body[k])
      /\ s.e.chunk = 1 /\ s.e.chunk_body = c + 2
  BY <1>3 DEF Joint
<1>7a. /\ B \in Nat /\ B > 0 /\ c \in Nat /\ c >= B + i - 1 /\ i \in Nat /\ i >= 1 /\ i <= L
       /\ L \in Nat /\ F \in Nat /\ F = Fill(s) /\ F = Len(d) /\ nl \in {1, 2} /\ x.c[i + 1] = c + 3 + nl
  BY <1>1, <1>4, <1>5, <1>6
<1>7b. c = x.c[i] /\ B = x.base
  OBVIOUS
<1>8. CASE Fill(s) >= c + 5
  <2> DEFINE n == s.e.chunk
             q == s.e.chunk_body + n
             newline == IF At(s, q) = "cr" /\ At(s, q + 1) = "lf" THEN 2
                        ELSE IF At(s, q) = "lf" THEN 1 ELSE 0
             moved == [j \in 1 .. Fill(s) |->
                         IF j - s.e.chunk_end \in 1 .. n
                         THEN s.b.data[j - s.e.chunk_end + s.e.chunk_body] ELSE s.b.data[j]]
             t == [s EXCEPT !.p = q + newline, !.b.data = moved,
                            !.e.chunk_end = @ + n, !.e.content_length = @ + n,
                            !.e.chunk = 0, !.e.step = "CHUNKED_SIZE"]
             e == [s.e EXCEPT !.chunk_end = @ + n, !.content_length = @ + n,
                              !.chunk = 0, !.step = "CHUNKED_SIZE"]
  <2>1. q = c + 3 /\ q + 2 = c + 5 /\ n = 1
    BY <1>5, <1>7
  <2>2. CHUNKED_DATA(s) = t
    <3>1. Fill(s) >= q + 2
      BY <1>8, <2>1
    <3> HIDE DEF t
    <3> QED BY <3>1 DEF CHUNKED_DATA, t
  <2>3. /\ t.e = e /\ t.ret = "run" /\ t.p = q + newline /\ t.b = [s.b EXCEPT !.data = moved]
    <3> HIDE DEF moved, newline
    <3> QED BY <1>1 DEF Going, Same
  <2>4. newline = nl
    <3>1. c + 4 \in 1 .. Len(d) /\ c + 5 \in 1 .. Len(d) /\ c + 4 > c /\ c + 5 > c
          /\ q + 1 = c + 4 /\ q + 1 + 1 = c + 5
      <4>1. F >= c + 5
        BY <1>7a, <1>8
      <4> HIDE DEF c, F, d, L, B, q
      <4> QED BY <1>7a, <2>1, <4>1
    <3>2. d[c + 4] = x.w[c + 4] /\ d[c + 5] = x.w[c + 5]
      BY <1>7, <3>1
    <3>3. At(s, q) = x.w[c + 4] /\ At(s, q + 1) = x.w[c + 5]
      BY <3>1, <3>2 DEF At
    <3> QED BY <1>6, <3>3
  <2>5. /\ e.role = s.e.role /\ e.moved = s.e.moved /\ e.reforming = s.e.reforming /\ e.trailer = s.e.trailer
        /\ e.step = "CHUNKED_SIZE" /\ e.chunk = 0 /\ e.body = x.base
        /\ e.chunk_end = s.e.chunk_end + n /\ e.content_length = s.e.content_length + n
        /\ Began(x, e) /\ Heard(x, e, x.n)
    BY <1>1, <1>7 DEF EnvFields, Began, Heard
  <2>6. t.b.data = moved
    <3>1. "data" \in DOMAIN s.b
      BY <1>1 DEF Going, Same, Data
    <3> HIDE DEF moved, t
    <3> QED BY <2>3, <3>1
  <2>7. Len(moved) = Fill(s)
    <3> DEFINE S == {moved[j] : j \in 1 .. Fill(s)}
    <3>1. moved \in [1 .. Fill(s) -> S] /\ Fill(s) \in Nat
      BY <1>1
    <3> HIDE DEF moved, S
    <3> QED BY <3>1
  <2> DEFINE ce == x.base + i - 1
  <2>8. \A j \in 1 .. Fill(s) : moved[j] = IF j = ce + 1 THEN d[c + 3] ELSE d[j]
    <3> TAKE j \in 1 .. Fill(s)
    <3>1. moved[j] = IF j - s.e.chunk_end \in 1 .. n
                     THEN d[j - s.e.chunk_end + s.e.chunk_body] ELSE d[j]
      OBVIOUS
    <3>2. ce \in Nat /\ (j - ce \in 1 .. 1 <=> j = ce + 1) /\ (j = ce + 1 => j - ce + (c + 2) = c + 3)
      <4>1. ce \in Nat /\ c \in Nat /\ j \in Int
        BY <1>4, <1>5
      <4> HIDE DEF ce, c
      <4> QED BY <4>1
    <3>3. s.e.chunk_end = ce /\ s.e.chunk_body = c + 2 /\ n = 1
      BY <1>7
    <3> HIDE DEF moved, ce, d
    <3> QED BY <3>1, <3>2, <3>3
  <2> HIDE DEF moved, t, e, newline, ce
  <2>8a. ce = B + i - 1 /\ F >= c + 5
    BY <1>7a, <1>7b, <1>8 DEF ce
  <2>9. Joint(x, e, moved, i + 1)
    <3>1. e.chunk_end = x.base + (i + 1) - 1 /\ e.content_length = (i + 1) - 1
      BY <1>4, <1>5, <1>7, <2>1, <2>5
    <3>2. ASSUME NEW k \in 1 .. Len(moved), k > x.c[i + 1] PROVE moved[k] = x.w[k]
      <4>1. k \in 1 .. Fill(s) /\ k \in 1 .. Len(d) /\ k # ce + 1 /\ k > c
        <5>1. k \in 1 .. F /\ k > c + 3 + nl
          BY <1>7a, <2>7, <3>2
        <5> HIDE DEF c, F, d, L, B, nl
        <5> QED BY <1>7a, <2>8a, <5>1
      <4>2. moved[k] = d[k]
        BY <2>8, <4>1
      <4> QED BY <1>7, <4>1, <4>2
    <3>3. ASSUME NEW k \in 1 .. (i + 1) - 1 PROVE moved[x.base + k] = x.body[k]
      <4>1. k \in 1 .. i /\ x.base + k \in 1 .. Fill(s) /\ (x.base + k = ce + 1 <=> k = i)
            /\ (k # i => k \in 1 .. i - 1)
        <5>1. k \in 1 .. i /\ B + k \in 1 .. F /\ (B + k = ce + 1 <=> k = i)
              /\ (k # i => k \in 1 .. i - 1)
          <6>1. k \in 1 .. (i + 1) - 1
            OBVIOUS
          <6> HIDE DEF c, F, d, L, B, nl
          <6> QED BY <1>7a, <2>8a, <6>1
        <5> QED BY <1>7a, <5>1
      <4>2. k = i => moved[x.base + k] = d[c + 3]
        BY <2>8, <4>1
      <4>3. k # i => moved[x.base + k] = d[x.base + k]
        BY <2>8, <4>1
      <4>4. d[c + 3] = x.body[i]
        <5>1. c + 3 \in 1 .. Len(d) /\ c + 3 > c
          <6> HIDE DEF c, F, d, L, B, nl
          <6> QED BY <1>7a, <2>8a
        <5> QED BY <1>6, <1>7, <5>1
      <4> QED BY <1>7, <4>1, <4>2, <4>3, <4>4
    <3> HIDE DEF ce
    <3> QED BY <1>4, <2>5, <3>1, <3>2, <3>3 DEF Joint
  <2>10. t.p = x.c[i + 1]
    BY <1>5, <1>6, <2>1, <2>3, <2>4
  <2>11. Common(x, e, moved)
    BY <1>1, <2>5, <2>7 DEF Common
  <2>12. InChunks(x, e, moved, t.p)
    BY <1>5, <2>5, <2>9, <2>10 DEF InChunks
  <2>13. Stand(x, t.e, t.b.data, t.p)
    BY <2>3, <2>6, <2>11, <2>12 DEF Stand
  <2> QED BY <2>2, <2>3, <2>13 DEF Reads
<1>9. CASE ~(Fill(s) >= c + 5)
  <2>1. CHUNKED_DATA(s) = More(s, Fill(s))
    <3>1. s.e.chunk_body + s.e.chunk + 2 = c + 5
      BY <1>5, <1>7
    <3>2. ~(Fill(s) >= s.e.chunk_body + s.e.chunk + 2)
      BY <1>9, <3>1
    <3> QED BY <3>2 DEF CHUNKED_DATA
  <2>2. InChunks(x, s.e, s.b.data, Fill(s))
    <3>1. Fill(s) >= x.c[i] + 2
      <4> DEFINE p == s.p
                 G == Fill(s)
      <4>1. p >= c + 2 /\ p \in Nat /\ p <= G /\ G \in Nat /\ c \in Nat
        BY <1>1, <1>3, <1>5
      <4> HIDE DEF p, G, c
      <4>2. G >= c + 2
        BY <4>1
      <4> QED BY <4>2 DEF G, c
    <3> QED BY <1>3, <3>1 DEF InChunks
  <2>3. Stand(x, s.e, s.b.data, Fill(s))
    BY <1>1, <2>2 DEF Stand
  <2>4. Reads(x, More(s, Fill(s)))
    BY <1>1, <2>3, MoreReads
  <2> QED BY <2>1, <2>4
<1> QED BY <1>8, <1>9

LEMMA TurnReads ==
  ASSUME NEW x, Laid(x), NEW o, NEW i \in Nat, NEW s, Parsed(o, i, s), Reads(x, s)
  PROVE  Reads(x, Turn(s))
<1>1. CASE s.ret # "run"
  BY <1>1 DEF Turn
<1>2. CASE s.ret = "run"
  <2>1. Stand(x, s.e, s.b.data, s.p)
    BY <1>2 DEF Reads
  <2>2. s.e.step \in Steps
    BY <2>1 DEF Stand, InChunks, Startings, Headings, Steps
  <2>3. s.e.step # "DONE"
    BY <2>2 DEF Steps
  <2>4. Going(o, i, s)
    BY <1>2, <2>3 DEF Parsed, Going
  <2>5. On(x, o, i, s)
    BY <2>1, <2>4 DEF On
  <2>6. Reads(x, ParseStep(s))
    <3>1. CASE s.e.step \in {"METHOD0", "METHOD", "URI0", "URI", "VERSION0", "VERSION"}
      <4>1. s.e.step = "METHOD0" => Reads(x, METHOD0(s))
        BY <2>5, METHOD0Reads
      <4>2. s.e.step = "METHOD" => Reads(x, METHOD(s))
        BY <2>5, METHODReads
      <4>3. s.e.step = "URI0" => Reads(x, URI0(s))
        BY <2>5, URI0Reads
      <4>4. s.e.step = "URI" => Reads(x, URI(s))
        BY <2>5, URIReads
      <4>5. s.e.step = "VERSION0" => Reads(x, VERSION0(s))
        BY <2>5, VERSION0Reads
      <4>6. s.e.step = "VERSION" => Reads(x, VERSION(s))
        BY <2>5, VERSIONReads
      <4> QED BY <3>1, <4>1, <4>2, <4>3, <4>4, <4>5, <4>6 DEF ParseStep
    <3>2. CASE s.e.step \in {"RSPVERSION0", "RSPVERSION", "STATUSCODE0", "STATUSCODE",
                             "REASONPHRASE0", "REASONPHRASE"}
      <4>1. s.e.step = "RSPVERSION0" => Reads(x, RSPVERSION0(s))
        BY <2>5, RSPVERSION0Reads
      <4>2. s.e.step = "RSPVERSION" => Reads(x, RSPVERSION(s))
        BY <2>5, RSPVERSIONReads
      <4>3. s.e.step = "STATUSCODE0" => Reads(x, STATUSCODE0(s))
        BY <2>5, STATUSCODE0Reads
      <4>4. s.e.step = "STATUSCODE" => Reads(x, STATUSCODE(s))
        BY <2>5, STATUSCODEReads
      <4>5. s.e.step = "REASONPHRASE0" => Reads(x, REASONPHRASE0(s))
        BY <2>5, REASONPHRASE0Reads
      <4>6. s.e.step = "REASONPHRASE" => Reads(x, REASONPHRASE(s))
        BY <2>5, REASONPHRASEReads
      <4> QED BY <3>2, <4>1, <4>2, <4>3, <4>4, <4>5, <4>6 DEF ParseStep
    <3>3. CASE s.e.step \in {"NAME0", "NAME", "VALUE0", "VALUE", "BODY", "CHUNKED_SIZE", "CHUNKED_DATA"}
      <4>1. s.e.step = "NAME0" => Reads(x, NAME0(s))
        BY <2>5, NAME0Reads
      <4>2. s.e.step = "NAME" => Reads(x, NAME(s))
        BY <2>5, NAMEReads
      <4>3. s.e.step = "VALUE0" => Reads(x, VALUE0(s))
        BY <2>5, VALUE0Reads
      <4>4. s.e.step = "VALUE" => Reads(x, VALUE(s))
        BY <2>5, VALUEReads
      <4>5. s.e.step = "BODY" => Reads(x, BODY(s))
        BY <2>5, BODYReads
      <4>6. s.e.step = "CHUNKED_SIZE" => Reads(x, CHUNKED_SIZE(s))
        BY <2>5, CHUNKED_SIZEReads
      <4>7. s.e.step = "CHUNKED_DATA" => Reads(x, CHUNKED_DATA(s))
        BY <2>5, CHUNKED_DATAReads
      <4> QED BY <3>3, <4>1, <4>2, <4>3, <4>4, <4>5, <4>6, <4>7 DEF ParseStep
    <3> QED BY <2>2, <3>1, <3>2, <3>3 DEF Steps
  <2> QED BY <1>2, <2>6 DEF Turn
<1> QED BY <1>1, <1>2

LEMMA LoopReads ==
  ASSUME NEW x, Laid(x), NEW s, Parsed(s, 0, s), Reads(x, s)
  PROVE  Reads(x, Parse(s))
<1> DEFINE n == Fill(s) + 1
           f == CHOOSE g : Runs(s, n, g)
<1>1. Fill(s) \in Nat /\ n \in Nat
  BY FillIs DEF Parsed
<1>2. f[0] = s /\ \A i \in 1 .. n : f[i] = Turn(f[i - 1])
  <2>1. Runs(s, n, f)
    <3> HIDE DEF n
    <3> QED BY <1>1, RunExists
  <2>2. n \in Nat
    BY <1>1
  <2> HIDE DEF f, n
  <2>3. f[0] = s /\ \A i \in 1 .. n : f[i] = Turn(f[i - 1])
    BY <2>1, <2>2, Running
  <2> QED BY <2>3
<1>3. Parse(s) = f[n]
  BY ParseIs
<1> HIDE DEF f
<1> DEFINE T == {i \in 0 .. n : ~(Parsed(s, i, f[i]) /\ Reads(x, f[i]))}
<1>4. ASSUME T # {} PROVE FALSE
  <2>1. PICK m \in T : \A k \in T : m <= k
    <3>1. T \subseteq Nat
      BY <1>1
    <3> HIDE DEF T
    <3> QED BY <1>4, <3>1, Least
  <2>2. m # 0 /\ m \in 1 .. n /\ m - 1 \in 0 .. n /\ m - 1 \in Nat /\ m - 1 + 1 = m
    BY <1>1, <1>2, <2>1
  <2>3. Parsed(s, m - 1, f[m - 1]) /\ Reads(x, f[m - 1])
    BY <2>1, <2>2
  <2>4. Parsed(s, m - 1 + 1, Turn(f[m - 1])) /\ Reads(x, Turn(f[m - 1]))
    BY <2>2, <2>3, TurnParsed, TurnReads
  <2> QED BY <1>2, <2>1, <2>2, <2>4
<1>5. Reads(x, f[n])
  BY <1>1, <1>4
<1> QED BY <1>3, <1>5

LEMMA BeginStands ==
  ASSUME NEW x, Laid(x), NEW e, New(x.role, e), NEW d, Exact(x, d), Len(d) <= Len(x.w),
         NEW g, g = [e EXCEPT !.step = First(e.role), !.body = 0, !.content_length = 0]
  PROVE  Stand(x, g, d, 0)
<1> DEFINE c == CreateHttpEnv(x.role)
<1>1. /\ DOMAIN c = EnvFields /\ c.role = x.role /\ c.moved = FALSE /\ c.reforming = FALSE /\ c.trailer = <<>>
      /\ c.chunked = FALSE /\ c.keepalive = 0 /\ c.encoding = <<>> /\ c.chunk = 0 /\ c.chunk_end = 0
      /\ c.statuscode = Empty /\ c.method = Empty /\ c.uri = Empty
  BY Zenon DEF CreateHttpEnv, EnvFields, Empty
<1>2. e = [c EXCEPT !.req = e.req, !.rsp = e.rsp]
  BY DEF New
<1> HIDE DEF c
<1>3. /\ DOMAIN e = EnvFields /\ e.role = x.role /\ e.moved = FALSE /\ e.reforming = FALSE /\ e.trailer = <<>>
      /\ e.chunked = FALSE /\ e.keepalive = 0 /\ e.encoding = <<>> /\ e.chunk = 0 /\ e.chunk_end = 0
      /\ e.statuscode = Empty /\ e.method = Empty /\ e.uri = Empty
  <2> DEFINE q == e.req
             r == e.rsp
  <2>1. e = [c EXCEPT !.req = q, !.rsp = r]
    BY <1>2
  <2> HIDE DEF q, r
  <2> QED BY <1>1, <2>1 DEF EnvFields
<1>4. /\ g.role = x.role /\ g.moved = FALSE /\ g.reforming = FALSE /\ g.trailer = <<>>
      /\ g.chunked = FALSE /\ g.keepalive = 0 /\ g.encoding = <<>> /\ g.chunk = 0 /\ g.chunk_end = 0
      /\ g.statuscode = Empty /\ g.method = Empty /\ g.uri = Empty
      /\ g.content_length = 0 /\ g.body = 0 /\ g.step = First(x.role)
  BY <1>3 DEF EnvFields
<1>5. Common(x, g, d) /\ Blank(g)
  BY <1>4 DEF Common, Blank
<1>6. x.role \in {"server", "client"} /\ Begins(x)
  BY DEF Laid
<1>7. g.step \in Startings /\ InStart(x, g, 0)
  <2>1. CASE x.role = "server"
    <3>1. g.step = "METHOD0" /\ x.code = Empty
      BY <1>4, <1>6, <2>1 DEF First, Begins
    <3> QED BY <1>4, <1>5, <2>1, <3>1 DEF InStart, Startings
  <2>2. CASE x.role = "client"
    <3>1. g.step = "RSPVERSION0" /\ x.method = Empty /\ x.uri = Empty
      BY <1>4, <1>6, <2>2 DEF First, Begins
    <3> QED BY <1>4, <1>5, <2>2, <3>1 DEF InStart, Startings
  <2> QED BY <1>6, <2>1, <2>2
<1> QED BY <1>5, <1>7 DEF Stand

(* A message, cut anywhere, is read for what it says.                      *)
LEMMA ParseReads ==
  ASSUME NEW x, Laid(x), NEW e, EnvOK(e), e.step # "DONE",
         NEW b, Data(b), b.process \in 0 .. Len(b.data),
         e.moved \/ Ready(x, e, b.data, b.process)
  PROVE  Reads(x, ParseHttpBuffer(e, b))
<1> DEFINE begun == IF e.step # "BEGIN" THEN e
                    ELSE [e EXCEPT !.step = First(e.role), !.body = 0, !.content_length = 0]
           s == [e |-> begun, b |-> b, p |-> b.process, ret |-> "run"]
<1>1. CASE e.moved
  <2> DEFINE t == ParseHttpBuffer(e, b)
  <2>1. t.ret = "lost"
    BY <1>1 DEF ParseHttpBuffer
  <2> HIDE DEF t
  <2>2. Reads(x, t)
    BY <2>1 DEF Reads
  <2> QED BY <2>2 DEF t
<1>2. CASE ~e.moved
  <2>1. EnvOK(begun) /\ begun.req = e.req /\ begun.rsp = e.rsp
    BY DEF EnvOK, EnvFields, Steps, First
  <2>2. begun.step \in Steps
    BY DEF EnvOK, EnvFields, Steps, First
  <2>3. begun.step # "BEGIN"
    BY <2>2 DEF Steps
  <2>4. DOMAIN s = {"e", "b", "p", "ret"} /\ s.e = begun /\ s.b = b /\ s.p = b.process /\ s.ret = "run"
    OBVIOUS
  <2>5. ParseHttpBuffer(e, b) = Parse(s)
    BY <1>2 DEF ParseHttpBuffer
  <2>6. Stand(x, begun, b.data, b.process)
    <3>1. CASE New(x.role, e) /\ b.process = 0 /\ Exact(x, b.data) /\ Len(b.data) <= Len(x.w)
      <4>1. e.step = "BEGIN"
        <5>1. CreateHttpEnv(x.role).step = "BEGIN" /\ DOMAIN CreateHttpEnv(x.role) = EnvFields
          BY Zenon DEF CreateHttpEnv, EnvFields
        <5> DEFINE q == e.req
                   r == e.rsp
                   c == CreateHttpEnv(x.role)
        <5>2. e = [c EXCEPT !.req = q, !.rsp = r]
          BY <3>1 DEF New
        <5> HIDE DEF q, r, c
        <5>3. c.step = "BEGIN" /\ DOMAIN c = EnvFields
          BY <5>1 DEF c
        <5> QED BY <5>2, <5>3 DEF EnvFields
      <4>2. begun = [e EXCEPT !.step = First(e.role), !.body = 0, !.content_length = 0]
        BY <4>1
      <4> HIDE DEF begun
      <4>3. Stand(x, begun, b.data, 0)
        BY <3>1, <4>2, BeginStands
      <4> QED BY <3>1, <4>3
    <3>2. CASE Stand(x, e, b.data, b.process)
      <4>1. e.step # "BEGIN"
        BY <3>2 DEF Stand, InChunks, Startings, Headings
      <4>2. begun = e
        BY <4>1
      <4> HIDE DEF begun
      <4> QED BY <3>2, <4>2
    <3> QED BY <1>2, <3>1, <3>2 DEF Ready
  <2> HIDE DEF s, begun
  <2>7. Parsed(s, 0, s)
    BY <2>1, <2>3, <2>4 DEF Parsed, Same, Goes
  <2>8. Reads(x, s)
    BY <2>4, <2>6 DEF Reads
  <2>9. Reads(x, Parse(s))
    BY <2>7, <2>8, LoopReads
  <2> QED BY <2>5, <2>9
<1> QED BY <1>1, <1>2

(* What a parser knows is not touched by what else an HttpEnv holds.       *)
Alike(e, f) ==
  /\ f.role = e.role /\ f.step = e.step /\ f.method = e.method /\ f.uri = e.uri
  /\ f.version = e.version /\ f.statuscode = e.statuscode /\ f.content_length = e.content_length
  /\ f.chunked = e.chunked /\ f.keepalive = e.keepalive /\ f.trailer = e.trailer
  /\ f.encoding = e.encoding /\ f.name = e.name /\ f.offset = e.offset /\ f.body = e.body
  /\ f.chunk = e.chunk /\ f.chunk_body = e.chunk_body /\ f.chunk_end = e.chunk_end
  /\ f.moved = e.moved /\ f.reforming = e.reforming

LEMMA AlikeStands ==
  ASSUME NEW x, NEW e, NEW f, Alike(e, f), NEW d, NEW p, Stand(x, e, d, p)
  PROVE  Stand(x, f, d, p)
<1>1. Common(x, f, d) /\ f.step = e.step
  BY DEF Stand, Common, Alike
<1>2. InStart(x, e, p) => InStart(x, f, p)
  BY DEF Alike, InStart, Blank
<1>3. \A j : Known(x, e, j) => Known(x, f, j)
  BY DEF Alike, Known, Began, Heard
<1>4. InHeader(x, e, p) => InHeader(x, f, p)
  BY <1>3 DEF Alike, InHeader
<1>5. InBody(x, e) => InBody(x, f)
  BY DEF Alike, InBody, Began, Heard
<1>6. \A i : Joint(x, e, d, i) => Joint(x, f, d, i)
  BY DEF Alike, Joint, Began, Heard
<1>7. InChunks(x, e, d, p) => InChunks(x, f, d, p)
  BY <1>6 DEF Alike, InChunks
<1> QED BY <1>1, <1>2, <1>4, <1>5, <1>7 DEF Stand

Touched(e, f) == \E q, r, m : f = [e EXCEPT !.req = q, !.rsp = r, !.moved = m]
LEMMA AlikeReady ==
  ASSUME NEW x, NEW e, NEW f, Alike(e, f), f.moved = FALSE, Touched(e, f), DOMAIN e = EnvFields,
         NEW d, NEW p, Ready(x, e, d, p)
  PROVE  Ready(x, f, d, p)
<1>0. PICK q, r, m : f = [e EXCEPT !.req = q, !.rsp = r, !.moved = m]
  BY DEF Touched
<1>1. CASE Stand(x, e, d, p)
  BY <1>1, AlikeStands DEF Ready
<1>2. CASE New(x.role, e) /\ p = 0 /\ Exact(x, d) /\ Len(d) <= Len(x.w)
  <2> DEFINE c == CreateHttpEnv(x.role)
             a == e.req
             b == e.rsp
  <2>1. e = [c EXCEPT !.req = a, !.rsp = b]
    BY <1>2 DEF New
  <2>2. DOMAIN c = EnvFields /\ c.moved = FALSE
    BY Zenon DEF CreateHttpEnv, EnvFields
  <2> HIDE DEF a, b, c
  <2>3. f.req = q /\ f.rsp = r /\ m = FALSE
    BY <1>0 DEF EnvFields
  <2>4. f = [c EXCEPT !.req = q, !.rsp = r]
    BY <1>0, <2>1, <2>2, <2>3 DEF EnvFields
  <2>5. New(x.role, f)
    BY <2>3, <2>4 DEF New, c
  <2> QED BY <1>2, <2>5 DEF Ready
<1> QED BY <1>1, <1>2 DEF Ready

(* More of a message arrives.                                              *)
Grown(x, d, g) ==
  /\ Len(d) \in Nat /\ Len(g) \in Nat /\ Len(d) <= Len(g) /\ Len(g) <= Len(x.w)
  /\ \A k \in 1 .. Len(d) : g[k] = d[k]
  /\ \A k \in Len(d) + 1 .. Len(g) : g[k] = x.w[k]

LEMMA GrownReady ==
  ASSUME NEW x, Laid(x), NEW e, NEW d, NEW g, Grown(x, d, g), NEW p \in 0 .. Len(d), Ready(x, e, d, p)
  PROVE  Ready(x, e, g, p)
<1>1. Exact(x, d) => Exact(x, g)
  BY DEF Exact, Grown
<1>2. CASE New(x.role, e) /\ p = 0 /\ Exact(x, d) /\ Len(d) <= Len(x.w)
  BY <1>1, <1>2 DEF Ready, Grown
<1>3. CASE Stand(x, e, d, p)
  <2>1. Common(x, e, g)
    BY <1>3 DEF Stand, Common, Grown
  <2>2. InChunks(x, e, d, p) => InChunks(x, e, g, p)
    <3> SUFFICES ASSUME InChunks(x, e, d, p) PROVE InChunks(x, e, g, p)
      OBVIOUS
    <3>1. ASSUME NEW i \in 1 .. Len(x.body) + 1, Joint(x, e, d, i), p >= x.c[i]
          PROVE  Joint(x, e, g, i)
      <4> DEFINE c == x.c[i]
                 B == x.base
      <4>1. c \in Nat /\ B \in Nat /\ c >= B + i - 1 /\ i \in Nat
        <5>1. x.te # 0
          BY <3>1 DEF Joint
        <5> QED BY <3>1, <5>1, ChunkPlace
      <4>2. ASSUME NEW k \in 1 .. Len(g), k > c PROVE g[k] = x.w[k]
        <5>1. CASE k <= Len(d)
          <6>1. k \in 1 .. Len(d)
            BY <4>2, <5>1 DEF Grown
          <6> QED BY <3>1, <4>2, <6>1 DEF Joint, Grown
        <5>2. CASE ~(k <= Len(d))
          <6>1. k \in Len(d) + 1 .. Len(g)
            BY <4>2, <5>2 DEF Grown
          <6> QED BY <6>1 DEF Grown
        <5> QED BY <5>1, <5>2
      <4>3. ASSUME NEW k \in 1 .. i - 1 PROVE g[x.base + k] = x.body[k]
        <5>1. B + k \in 1 .. Len(d)
          <6>1. p >= c /\ Len(d) \in Nat
            BY <3>1 DEF Grown
          <6> HIDE DEF B, c
          <6> QED BY <4>1, <6>1
        <5>2. g[x.base + k] = d[x.base + k]
          BY <5>1 DEF Grown
        <5> QED BY <3>1, <5>2 DEF Joint
      <4> QED BY <3>1, <4>2, <4>3 DEF Joint
    <3>2. CASE e.step = "CHUNKED_SIZE"
      <4>1. PICK i \in 1 .. Len(x.body) + 1 :
              /\ Joint(x, e, d, i)
              /\ \/ p = x.c[i] /\ e.chunk = 0
                 \/ p = x.c[i] + 1 /\ e.chunk = (IF i <= Len(x.body) THEN 1 ELSE 0)
        BY <3>2 DEF InChunks
      <4>2. x.c[i] \in Nat
        BY <4>1, ChunkPlace DEF Joint
      <4>3. p >= x.c[i]
        BY <4>1, <4>2
      <4>4. Joint(x, e, g, i)
        BY <3>1, <4>1, <4>3
      <4> QED BY <3>2, <4>1, <4>4 DEF InChunks
    <3>3. CASE e.step = "CHUNKED_DATA"
      <4>1. PICK i \in 1 .. Len(x.body) :
              /\ Joint(x, e, d, i) /\ e.chunk = 1 /\ e.chunk_body = x.c[i] + 2 /\ p >= x.c[i] + 2
        BY <3>3 DEF InChunks
      <4>2. i \in 1 .. Len(x.body) + 1
        <5>1. Len(x.body) \in Nat
          BY DEF Laid
        <5> QED BY <5>1
      <4>3. x.c[i] \in Nat
        BY <4>1, <4>2, ChunkPlace DEF Joint
      <4>4. p >= x.c[i]
        BY <4>1, <4>3
      <4>5. Joint(x, e, g, i)
        BY <3>1, <4>1, <4>2, <4>4
      <4> QED BY <3>3, <4>1, <4>5 DEF InChunks
    <3> QED BY <3>2, <3>3 DEF InChunks
  <2> QED BY <1>1, <1>3, <2>1, <2>2 DEF Stand, Ready
<1> QED BY <1>2, <1>3 DEF Ready

LEMMA SameSeq ==
  ASSUME NEW u, NEW v, IsSeq(u), IsSeq(v), Len(u) = Len(v), \A k \in 1 .. Len(u) : u[k] = v[k]
  PROVE  u = v
<1>1. PICK S : u \in Seq(S)
  BY DEF IsSeq
<1>2. PICK T : v \in Seq(T)
  BY DEF IsSeq
<1>3. u \in Seq(S \cup T) /\ v \in Seq(S \cup T)
  BY <1>1, <1>2, SeqMonotonic
<1> QED BY <1>3, SeqEqual

Joins(q, r) ==
  /\ \A k \in 1 .. Len(q) : (q \o r)[k] = q[k]
  /\ \A k \in 1 .. Len(r) : (q \o r)[Len(q) + k] = r[k]
LEMMA JoinsAll == ASSUME NEW q, NEW r, IsSeq(q), IsSeq(r) PROVE Joins(q, r)
<1>1. \A k \in 1 .. Len(q) : (q \o r)[k] = q[k]
  BY AtJoin
<1>2. \A k \in 1 .. Len(r) : (q \o r)[Len(q) + k] = r[k]
  BY AtJoin
<1> QED BY <1>1, <1>2 DEF Joins

Slice(d, a, z, l) ==
  /\ IsSeq(SubSeq(d, a, z)) /\ Len(SubSeq(d, a, z)) = l
  /\ \A i \in 1 .. l : SubSeq(d, a, z)[i] = d[a + i - 1]
LEMMA PartOf ==
  ASSUME NEW d, IsSeq(d), NEW a \in Nat, a >= 1, NEW z \in Nat, z <= Len(d), NEW l \in Nat,
         l = IF a <= z THEN z - a + 1 ELSE 0
  PROVE  Slice(d, a, z, l)
<1>1. /\ IsSeq(SubSeq(d, a, z)) /\ Len(SubSeq(d, a, z)) = IF a <= z THEN z - a + 1 ELSE 0
      /\ \A i \in 1 .. z - a + 1 : SubSeq(d, a, z)[i] = d[a + i - 1]
  BY PartAt
<1> DEFINE u == SubSeq(d, a, z)
<1> HIDE DEF u
<1>2. \A i \in 1 .. l : i \in 1 .. z - a + 1
  OBVIOUS
<1> QED BY <1>1, <1>2 DEF u, Slice

(* The end of w, of which q comes first.                                   *)
Splits(w, l, q, m) ==
  /\ Len(q) + Len(m) = Len(w) - l /\ Len(w) \in Nat /\ Len(q) \in Nat /\ Len(m) \in Nat
  /\ \A k \in 1 .. Len(q) : q[k] = w[l + k]
  /\ \A k \in 1 .. Len(m) : m[k] = w[l + Len(q) + k]
LEMMA Ahead ==
  ASSUME NEW w, IsSeq(w), NEW l \in Nat, l <= Len(w), NEW q, IsSeq(q), NEW m, IsSeq(m),
         q \o m = SubSeq(w, l + 1, Len(w))
  PROVE  Splits(w, l, q, m)
<1>1. Len(w) \in Nat /\ Len(q) \in Nat /\ Len(m) \in Nat
  BY SeqLen
<1> DEFINE t == SubSeq(w, l + 1, Len(w))
           n == Len(w) - l
           a == l + 1
           z == Len(w)
<1>2. a \in Nat /\ a >= 1 /\ z \in Nat /\ z <= Len(w) /\ n \in Nat /\ n = IF a <= z THEN z - a + 1 ELSE 0
  BY <1>1
<1>3. Len(t) = n /\ \A i \in 1 .. n : t[i] = w[a + i - 1]
  <2>1. t = SubSeq(w, a, z)
    OBVIOUS
  <2> HIDE DEF t, n, a, z
  <2>2. Slice(w, a, z, n)
    BY <1>2, PartOf
  <2> QED BY <2>1, <2>2 DEF Slice
<1>4. t = q \o m
  OBVIOUS
<1> HIDE DEF t
<1>5. /\ Len(t) = Len(q) + Len(m)
      /\ \A k \in 1 .. Len(q) : t[k] = q[k]
      /\ \A k \in 1 .. Len(m) : t[Len(q) + k] = m[k]
  <2>1. Len(q \o m) = Len(q) + Len(m)
    BY Joined
  <2>2. /\ \A k \in 1 .. Len(q) : (q \o m)[k] = q[k]
        /\ \A k \in 1 .. Len(m) : (q \o m)[Len(q) + k] = m[k]
    <3>1. Joins(q, m)
      BY JoinsAll
    <3> QED BY <3>1, Zenon DEF Joins
  <2> QED BY <1>4, <2>1, <2>2
<1>6. ASSUME NEW k \in 1 .. Len(q) PROVE q[k] = w[l + k]
  <2>1. k \in 1 .. n /\ a + k - 1 = l + k
    BY <1>1, <1>3, <1>5
  <2> QED BY <1>3, <1>5, <2>1
<1>7. ASSUME NEW k \in 1 .. Len(m) PROVE m[k] = w[l + Len(q) + k]
  <2>1. Len(q) + k \in 1 .. n /\ a + (Len(q) + k) - 1 = l + Len(q) + k
    BY <1>1, <1>3, <1>5
  <2> QED BY <1>3, <1>5, <2>1
<1>8. Len(q) + Len(m) = Len(w) - l
  BY <1>3, <1>5
<1> QED BY <1>1, <1>6, <1>7, <1>8 DEF Splits

Follow(w, l, q, m, n) == SubSeq(q, n + 1, Len(q)) \o m = SubSeq(w, l + n + 1, Len(w))
LEMMA Later ==
  ASSUME NEW w, IsSeq(w), NEW l \in Nat, l <= Len(w), NEW q, IsSeq(q), NEW m, IsSeq(m),
         q \o m = SubSeq(w, l + 1, Len(w)), NEW n \in Nat, n <= Len(q)
  PROVE  Follow(w, l, q, m, n)
<1>1. /\ Len(q) + Len(m) = Len(w) - l /\ Len(w) \in Nat /\ Len(q) \in Nat /\ Len(m) \in Nat
      /\ \A k \in 1 .. Len(q) : q[k] = w[l + k]
      /\ \A k \in 1 .. Len(m) : m[k] = w[l + Len(q) + k]
  <2>1. Splits(w, l, q, m)
    BY Ahead
  <2> QED BY <2>1 DEF Splits
<1> DEFINE a == n + 1
           z == Len(q)
           j == Len(q) - n
           p == SubSeq(q, a, z)
           b == l + n + 1
           y == Len(w)
           i == Len(w) - l - n
           r == SubSeq(w, b, y)
<1>2. /\ a \in Nat /\ a >= 1 /\ z \in Nat /\ z <= Len(q) /\ j \in Nat /\ j = IF a <= z THEN z - a + 1 ELSE 0
      /\ b \in Nat /\ b >= 1 /\ y \in Nat /\ y <= Len(w) /\ i \in Nat /\ i = IF b <= y THEN y - b + 1 ELSE 0
      /\ i = j + Len(m)
  <2> DEFINE W == Len(w)
             Q == Len(q)
             M == Len(m)
  <2>1. Q + M = W - l /\ W \in Nat /\ Q \in Nat /\ M \in Nat /\ n <= Q
    BY <1>1
  <2> HIDE DEF W, Q, M
  <2>2. a \in Nat /\ a >= 1 /\ b \in Nat /\ b >= 1
    OBVIOUS
  <2>3. Q - n \in Nat /\ Q - n = (IF a <= Q THEN Q - a + 1 ELSE 0)
        /\ W - l - n \in Nat /\ W - l - n = (IF b <= W THEN W - b + 1 ELSE 0)
        /\ W - l - n = Q - n + M
    BY <2>1
  <2> QED BY <2>1, <2>2, <2>3 DEF W, Q, M
<1>3. IsSeq(p) /\ Len(p) = j /\ \A k \in 1 .. j : p[k] = q[a + k - 1]
  <2> HIDE DEF a, z, j
  <2>1. Slice(q, a, z, j)
    BY <1>2, PartOf
  <2> QED BY <2>1 DEF Slice
<1>4. IsSeq(r) /\ Len(r) = i /\ \A k \in 1 .. i : r[k] = w[b + k - 1]
  <2> HIDE DEF b, y, i
  <2>1. Slice(w, b, y, i)
    BY <1>2, PartOf
  <2> QED BY <2>1 DEF Slice
<1> HIDE DEF p, r
<1> DEFINE t == p \o m
<1>5. /\ IsSeq(t) /\ Len(t) = j + Len(m)
      /\ \A k \in 1 .. Len(p) : t[k] = p[k]
      /\ \A k \in 1 .. Len(m) : t[Len(p) + k] = m[k]
  <2>1. IsSeq(p \o m) /\ Len(p \o m) = Len(p) + Len(m)
    BY <1>3, Joined
  <2>2. /\ \A k \in 1 .. Len(p) : (p \o m)[k] = p[k]
        /\ \A k \in 1 .. Len(m) : (p \o m)[Len(p) + k] = m[k]
    <3>1. Joins(p, m)
      BY <1>3, JoinsAll
    <3> QED BY Zenon, <3>1 DEF Joins
  <2> QED BY <1>3, <2>1, <2>2
<1> HIDE DEF t
<1>6. ASSUME NEW k \in 1 .. Len(t) PROVE t[k] = r[k]
  <2>1. CASE k <= j
    <3>1. k \in 1 .. j /\ a + k - 1 \in 1 .. Len(q) /\ l + (a + k - 1) = b + k - 1 /\ k \in 1 .. i
      BY <1>1, <1>2, <2>1
    <3>2. t[k] = q[a + k - 1]
      BY <1>3, <1>5, <3>1
    <3>3. q[a + k - 1] = w[l + (a + k - 1)]
      BY <1>1, <3>1
    <3> QED BY <1>4, <3>1, <3>2, <3>3
  <2>2. CASE ~(k <= j)
    <3> DEFINE h == k - j
    <3>1. h \in 1 .. Len(m) /\ k = j + h /\ l + Len(q) + h = b + k - 1 /\ k \in 1 .. i
      BY <1>1, <1>2, <1>5, <2>2
    <3>2. t[k] = m[h]
      BY <1>3, <1>5, <3>1
    <3>3. m[h] = w[l + Len(q) + h]
      BY <1>1, <3>1
    <3> QED BY <1>4, <3>1, <3>2, <3>3
  <2> QED BY <2>1, <2>2
<1>7. t = r
  BY <1>2, <1>4, <1>5, <1>6, SameSeq
<1> QED BY <1>7 DEF Follow, t, p, r

(* n tokens of the stream are read.                                        *)
Moving(e, b) == ReallocHttpBuffer(b, Len(b.data) + 1) # b.size /\ e.chunk_end > 0
Took(e, b, stream, r, n) ==
  /\ n \in Nat /\ n <= Len(stream)
  /\ r.e = [e EXCEPT !.moved = @ \/ Moving(e, b)]
  /\ r.b.data = b.data \o SubSeq(stream, 1, n) /\ r.b.process = b.process
  /\ r.rest = SubSeq(stream, n + 1, Len(stream))
Took0(e, b, stream, r) == b.data # <<>> /\ r = [e |-> e, b |-> b, rest |-> stream]

LEMMA ReceiveTakes ==
  ASSUME NEW e, EnvOK(e), NEW b, Roomy(b), NEW stream, IsSeq(stream),
         NEW r, r = ReceiveHttpBuffer(e, b, stream)
  PROVE  Took0(e, b, stream, r) \/ \E n : Took(e, b, stream, r, n)
<1> DEFINE need == Len(b.data) + 1
           size == ReallocHttpBuffer(b, need)
           room == size - 1 - Len(b.data)
           n == Min({room, Len(stream)})
           part == SubSeq(stream, 1, n)
           rest == SubSeq(stream, n + 1, Len(stream))
           f == [e EXCEPT !.moved = @ \/ (size # b.size /\ e.chunk_end > 0)]
           c == [b EXCEPT !.data = @ \o part, !.size = size]
           z == [e |-> f, b |-> c, rest |-> rest]
<1>1. Len(b.data) \in Nat /\ Len(stream) \in Nat /\ need \in Nat /\ IsSeq(b.data)
      /\ b.size \in Nat \ {0} /\ b.process \in Nat
  BY RoomyLen, SeqLen DEF Roomy, Data
<1>2. CASE b.process = 0 /\ b.data # <<>>
  BY <1>2 DEF ReceiveHttpBuffer, Took0
<1>3. CASE ~(b.process = 0 /\ b.data # <<>>)
  <2>0. f = [e EXCEPT !.moved = @ \/ Moving(e, b)]
    BY DEF Moving
  <2>1. size \in Nat /\ need <= size - 1
    <3> HIDE DEF need
    <3> QED BY <1>1, ReallocFits
  <2> HIDE DEF size
  <2>2. n \in Nat /\ n <= Len(stream)
    <3>1. room \in Nat
      BY <1>1, <2>1
    <3> DEFINE S == {room, Len(stream)}
    <3>2. S \subseteq Nat /\ S # {}
      BY <1>1, <3>1
    <3>3. Min(S) \in S /\ \A x \in S : Min(S) <= x
      <4> HIDE DEF S
      <4> QED BY <3>2, LeastOf
    <3> QED BY <3>2, <3>3
  <2>3. r = z
    BY <1>3 DEF ReceiveHttpBuffer, size, n, part, rest
  <2> HIDE DEF n
  <2>4. /\ DOMAIN c = {"data", "process", "size"} /\ c.data = b.data \o part /\ c.process = b.process
    BY DEF Roomy, Data
  <2> HIDE DEF c, f, part, rest
  <2>5. r.e = f /\ r.b = c /\ r.rest = rest
    BY <2>3
  <2>6. Took(e, b, stream, r, n)
    BY <2>0, <2>2, <2>4, <2>5 DEF Took, part, rest
  <2> QED BY <2>6
<1> QED BY <1>2, <1>3

LEMMA ReadyStill == ASSUME NEW x, NEW e, NEW d, NEW p, Ready(x, e, d, p) PROVE e.moved = FALSE /\ e.role = x.role /\ Len(d) <= Len(x.w)
<1>1. CASE Stand(x, e, d, p)
  BY <1>1 DEF Stand, Common
<1>2. CASE New(x.role, e) /\ Len(d) <= Len(x.w)
  <2> DEFINE c == CreateHttpEnv(x.role)
             a == e.req
             b == e.rsp
  <2>1. e = [c EXCEPT !.req = a, !.rsp = b]
    BY <1>2 DEF New
  <2>2. DOMAIN c = EnvFields /\ c.moved = FALSE /\ c.role = x.role
    BY Zenon DEF CreateHttpEnv, EnvFields
  <2> HIDE DEF a, b, c
  <2> QED BY <1>2, <2>1, <2>2 DEF EnvFields
<1> QED BY <1>1, <1>2 DEF Ready

(* What is known of a message outlives a receipt, unless the buffer moves. *)
Received(x, e, b, more, r) ==
  /\ r.e.moved => Moving(e, b)
  /\ r.e.moved \/ Onway(x, r.e, r.b, r.rest \o more)

LEMMA ReceiveKeeps ==
  ASSUME NEW x, Laid(x), IsSeq(x.w), NEW e, EnvOK(e), NEW b, Roomy(b), Placed(b),
         NEW stream, IsSeq(stream), NEW more, IsSeq(more), Onway(x, e, b, stream \o more),
         NEW r, r = ReceiveHttpBuffer(e, b, stream)
  PROVE  Received(x, e, b, more, r)
<1>1. /\ Ready(x, e, b.data, b.process)
      /\ stream \o more = SubSeq(x.w, Len(b.data) + 1, Len(x.w))
  BY DEF Onway
<1>2. e.moved = FALSE /\ e.role = x.role /\ Len(b.data) <= Len(x.w) /\ Len(b.data) \in Nat /\ IsSeq(b.data)
      /\ b.process \in 0 .. Len(b.data) /\ Len(stream) \in Nat
  <2>1. e.moved = FALSE /\ e.role = x.role /\ Len(b.data) <= Len(x.w)
    BY <1>1, ReadyStill
  <2>2. Len(b.data) \in Nat /\ Len(stream) \in Nat
    BY RoomyLen, SeqLen
  <2>3. IsSeq(b.data) /\ b.process \in 0 .. Len(b.data)
    BY <2>2 DEF Roomy, Data, Placed
  <2> QED BY <2>1, <2>2, <2>3
<1>3. CASE Took0(e, b, stream, r)
  <2>1. r.e = e /\ r.b = b /\ r.rest = stream
    BY <1>3 DEF Took0
  <2> QED BY <1>2, <2>1 DEF Received
<1>4. ASSUME NEW n, Took(e, b, stream, r, n) PROVE Received(x, e, b, more, r)
  <2> DEFINE m == Moving(e, b)
             part == SubSeq(stream, 1, n)
             d == b.data
             g == r.b.data
             f == r.e
             l == Len(b.data)
             W == Len(x.w)
  <2>1. n \in Nat /\ n <= Len(stream) /\ g = d \o part /\ r.b.process = b.process
        /\ r.rest = SubSeq(stream, n + 1, Len(stream))
    BY <1>4 DEF Took
  <2>2. f = [e EXCEPT !.moved = @ \/ m] /\ DOMAIN e = EnvFields /\ m \in BOOLEAN
    BY <1>4 DEF Took, EnvOK, Moving
  <2> HIDE DEF m
  <2>3. f.moved = (e.moved \/ m)
    BY <2>2 DEF EnvFields
  <2>4. f.moved = m
    BY <1>2, <2>2, <2>3
  <2>5. CASE ~f.moved
    <3>1. m = FALSE /\ f.moved = FALSE
      BY <2>2, <2>4, <2>5
    <3>2. Splits(x.w, l, stream, more)
      BY <1>1, <1>2, Ahead
    <3>3. Slice(stream, 1, n, n)
      <4> DEFINE a == 1
      <4>1. a \in Nat /\ a >= 1 /\ n = IF a <= n THEN n - a + 1 ELSE 0
        BY <2>1
      <4> HIDE DEF a
      <4>2. Slice(stream, a, n, n)
        BY <2>1, <4>1, PartOf
      <4> QED BY <4>2 DEF a
    <3>4. IsSeq(part) /\ Len(part) = n /\ \A k \in 1 .. n : part[k] = stream[1 + k - 1]
      BY <3>3 DEF Slice
    <3> HIDE DEF part
    <3>5. Len(d \o part) = l + n
      BY <1>2, <3>4, Joined
    <3>6. Joins(d, part)
      BY <1>2, <3>4, JoinsAll
    <3>7. /\ W \in Nat /\ Len(stream) + Len(more) = W - l /\ Len(more) \in Nat
          /\ \A k \in 1 .. Len(stream) : stream[k] = x.w[l + k]
      BY <3>2 DEF Splits
    <3>8. Len(g) = l + n /\ l + n <= W
      <4>1. Len(g) = l + n
        BY <2>1, <3>5
      <4>2. l + n <= W
        <5> DEFINE S == Len(stream)
                   M == Len(more)
        <5>1. S + M = W - l /\ W \in Nat /\ M \in Nat /\ S \in Nat /\ n <= S /\ n \in Nat /\ l \in Nat
          BY <1>2, <2>1, <3>7
        <5> HIDE DEF S, M, W, l
        <5> QED BY <5>1
      <4> QED BY <4>1, <4>2
    <3>9. \A k \in 1 .. l : g[k] = d[k]
      BY <2>1, <3>6 DEF Joins
    <3>10. ASSUME NEW k \in l + 1 .. l + n PROVE g[k] = x.w[k]
      <4> DEFINE j == k - l
      <4>1. j \in 1 .. n /\ j \in 1 .. Len(stream) /\ l + j = k /\ 1 + j - 1 = j
        BY <1>2, <2>1
      <4> HIDE DEF j
      <4>2. g[l + j] = part[j]
        <5>1. \A i \in 1 .. Len(part) : (d \o part)[Len(d) + i] = part[i]
          BY <3>6 DEF Joins
        <5> QED BY <2>1, <3>4, <4>1, <5>1
      <4>3. part[j] = stream[j]
        BY <3>4, <4>1
      <4> QED BY <3>7, <4>1, <4>2, <4>3
    <3> HIDE DEF g, d, l
    <3>11. Grown(x, d, g)
      <4>1. Len(d) = l
        BY DEF d, l
      <4>2. l \in Nat /\ l + n \in Nat /\ l <= l + n
        BY <1>2, <2>1 DEF l
      <4> QED BY <3>8, <3>9, <3>10, <4>1, <4>2 DEF Grown
    <3>12. Ready(x, e, g, b.process)
      <4>1. b.process \in 0 .. Len(d) /\ Ready(x, e, d, b.process)
        BY <1>1, <1>2 DEF d
      <4> QED BY <3>11, <4>1, GrownReady
    <3>13. Ready(x, f, g, b.process)
      <4> HIDE DEF f
      <4>1. Alike(e, f)
        BY <1>2, <2>2, <3>1 DEF Alike, EnvFields
      <4> DEFINE q == e.req
                 p == e.rsp
      <4>2. f = [e EXCEPT !.req = q, !.rsp = p, !.moved = m]
        BY <1>2, <2>2, <3>1 DEF EnvFields
      <4> HIDE DEF q, p
      <4>3. Touched(e, f)
        BY <4>2 DEF Touched
      <4> QED BY <2>2, <3>1, <3>12, <4>1, <4>3, AlikeReady
    <3>14. r.rest \o more = SubSeq(x.w, l + n + 1, Len(x.w))
      <4>1. l \in Nat /\ l <= Len(x.w) /\ stream \o more = SubSeq(x.w, l + 1, Len(x.w))
        BY <1>1, <1>2 DEF l
      <4>2. SubSeq(stream, n + 1, Len(stream)) \o more = SubSeq(x.w, l + n + 1, Len(x.w))
        <5>1. Follow(x.w, l, stream, more, n)
          BY <2>1, <4>1, Later
        <5> QED BY <5>1 DEF Follow
      <4> QED BY <2>1, <4>2
    <3>15. Onway(x, r.e, r.b, r.rest \o more)
      BY <2>1, <3>8, <3>13, <3>14 DEF Onway, f, g
    <3> QED BY <2>5, <3>15 DEF Received
  <2>6. CASE f.moved
    BY <2>4, <2>6 DEF Received, m
  <2> QED BY <2>5, <2>6
<1>5. Took0(e, b, stream, r) \/ \E n : Took(e, b, stream, r, n)
  BY ReceiveTakes
<1> QED BY <1>3, <1>4, <1>5

LEMMA ParseNotLost ==
  ASSUME NEW e, EnvOK(e), e.step # "DONE", ~e.moved,
         NEW b, Data(b), b.process \in 0 .. Len(b.data)
  PROVE  ParseHttpBuffer(e, b).ret # "lost"
<1> DEFINE begun == IF e.step # "BEGIN" THEN e
                    ELSE [e EXCEPT !.step = First(e.role), !.body = 0, !.content_length = 0]
           s == [e |-> begun, b |-> b, p |-> b.process, ret |-> "run"]
<1>1. EnvOK(begun) /\ begun.req = e.req /\ begun.rsp = e.rsp
  BY DEF EnvOK, EnvFields, Steps, First
<1>2. begun.step \in Steps
  BY DEF EnvOK, EnvFields, Steps, First
<1>3. begun.step # "BEGIN"
  BY <1>2 DEF Steps
<1>4. DOMAIN s = {"e", "b", "p", "ret"} /\ s.e = begun /\ s.b = b /\ s.p = b.process /\ s.ret = "run"
  OBVIOUS
<1>5. ParseHttpBuffer(e, b) = Parse(s)
  BY DEF ParseHttpBuffer
<1> HIDE DEF s, begun
<1>6. Parsed(s, 0, s)
  BY <1>1, <1>3, <1>4 DEF Parsed, Same, Goes
<1>7. Parsed(s, Fill(s) + 1, Parse(s))
  BY <1>6, LoopParsed
<1> QED BY <1>5, <1>7 DEF Parsed

(* What a turn of either end's loop makes of message x.                    *)
Heeds(x, e, b, more, r, s) ==
  /\ s.ret \in {"more", "done", "invalid", "lost"}
  /\ EnvOK(s.e) /\ s.e.req = e.req /\ s.e.rsp = e.rsp /\ Data(s.b) /\ IsSeq(r.rest)
  /\ s.b.process \in 0 .. Len(s.b.data)
  /\ s.ret = "lost" => Moving(e, b)
  /\ s.ret = "more" => (Tear(s.e, s.b) /\ Cleft(x, Len(s.b.data))) \/ Onway(x, s.e, s.b, r.rest \o more)
  /\ s.ret = "done" => /\ Finished(x, s.e, s.b)
                       /\ r.rest \o more = SubSeq(x.w, Len(s.b.data) + 1, Len(x.w))
  /\ s.ret = "invalid" => x.role = "server" /\ x.method \notin Methods

LEMMA Hears ==
  ASSUME NEW x, Laid(x), IsSeq(x.w), NEW e, EnvOK(e), e.step # "DONE", NEW b, Roomy(b), Placed(b),
         NEW stream, IsSeq(stream), NEW more, IsSeq(more), Onway(x, e, b, stream \o more),
         NEW r, r = ReceiveHttpBuffer(e, b, stream), NEW s, s = ParseHttpBuffer(r.e, r.b)
  PROVE  Heeds(x, e, b, more, r, s)
<1>1. Filled(e, b, r)
  BY ReceiveFilled
<1>2. EnvOK(r.e) /\ r.e.step # "DONE" /\ Data(r.b) /\ r.b.process \in 0 .. Len(r.b.data)
  <2>1. Len(r.b.data) \in Nat /\ Len(b.data) \in Nat
    BY <1>1, RoomyLen DEF Filled
  <2> QED BY <1>1, <2>1 DEF Filled, Roomy, Placed
<1>3. Returned(r.e, r.b, s)
  BY <1>2, ParseReturns
<1>4. Received(x, e, b, more, r)
  BY ReceiveKeeps
<1>5. Reads(x, s)
  <2>1. r.e.moved \/ Ready(x, r.e, r.b.data, r.b.process)
    BY <1>4 DEF Received, Onway
  <2> QED BY <1>2, <2>1, ParseReads
<1>6. s.ret = "lost" => Moving(e, b)
  <2>1. ~r.e.moved => s.ret # "lost"
    BY <1>2, ParseNotLost
  <2> QED BY <1>4, <2>1 DEF Received
<1>7. s.ret \in {"more", "done", "invalid"} => r.rest \o more = SubSeq(x.w, Len(s.b.data) + 1, Len(x.w))
  <2>1. r.e.moved => s.ret = "lost"
    BY DEF ParseHttpBuffer
  <2>2. Len(s.b.data) = Len(r.b.data)
    BY <1>3 DEF Returned
  <2> QED BY <1>4, <2>1, <2>2 DEF Received, Onway
<1>8. s.ret = "more" => (Tear(s.e, s.b) /\ Cleft(x, Len(s.b.data))) \/ Onway(x, s.e, s.b, r.rest \o more)
  BY <1>5, <1>7 DEF Reads, Onway, Ready
<1> QED BY <1>1, <1>3, <1>5, <1>6, <1>7, <1>8 DEF Heeds, Reads, Returned, Filled

LEMMA ReadyUnmoved ==
  ASSUME NEW x, x.te = 0, NEW e, NEW d, NEW p, Ready(x, e, d, p), NEW b
  PROVE  ~Moving(e, b)
<1>1. CASE Stand(x, e, d, p)
  <2>1. e.chunk_end = 0
    BY <1>1 DEF Stand, InStart, Blank, InHeader, Known, InBody, InChunks, Joint
  <2> QED BY <2>1 DEF Moving
<1>2. CASE New(x.role, e)
  <2> DEFINE c == CreateHttpEnv(x.role)
             q == e.req
             r == e.rsp
  <2>1. e = [c EXCEPT !.req = q, !.rsp = r]
    BY <1>2 DEF New
  <2>2. DOMAIN c = EnvFields /\ c.chunk_end = 0
    BY Zenon DEF CreateHttpEnv, EnvFields
  <2> HIDE DEF q, r, c
  <2>3. e.chunk_end = 0
    BY <2>1, <2>2 DEF EnvFields
  <2> QED BY <2>3 DEF Moving
<1> QED BY <1>1, <1>2 DEF Ready

LEMMA ReallocSame ==
  ASSUME NEW b, Roomy(b), Len(b.data) + 1 <= b.size - 1
  PROVE  ReallocHttpBuffer(b, Len(b.data) + 1) = b.size
<1> DEFINE need == Len(b.data) + 1
           f == CHOOSE g : Sizes(b, need, g)
           z == CHOOSE k \in 0 .. need : Fit(f, k, need) /\ \A j \in 0 .. k - 1 : ~Fit(f, j, need)
<1>1. need \in Nat /\ b.size \in Nat /\ need <= b.size - 1
  BY RoomyLen DEF Roomy
<1>2. ReallocHttpBuffer(b, need) = f[z]
  BY DEF ReallocHttpBuffer, Sizes, Fit
<1> HIDE DEF need
<1>3. Sizes(b, need, f)
  BY <1>1, SizesExist
<1> HIDE DEF f
<1>4. f[0] = b.size
  BY <1>1, <1>3 DEF Sizes
<1>5. Fit(f, 0, need) /\ 0 \in 0 .. need /\ \A j \in 0 .. 0 - 1 : ~Fit(f, j, need)
  BY <1>1, <1>4 DEF Fit
<1>6. z \in 0 .. need /\ \A j \in 0 .. z - 1 : ~Fit(f, j, need)
  <2> DEFINE P(k) == Fit(f, k, need) /\ \A j \in 0 .. k - 1 : ~Fit(f, j, need)
  <2>1. \E k \in 0 .. need : P(k)
    BY <1>5
  <2>2. z = CHOOSE k \in 0 .. need : P(k)
    OBVIOUS
  <2> HIDE DEF P, z
  <2>3. z \in 0 .. need /\ P(z)
    BY <2>1, <2>2, Zenon
  <2> QED BY <2>3 DEF P
<1> HIDE DEF z
<1>7. z = 0
  <2>1. z # 0 => 0 \in 0 .. z - 1
    BY <1>1, <1>6
  <2> QED BY <1>5, <1>6, <2>1
<1>8. ReallocHttpBuffer(b, need) = b.size
  BY <1>2, <1>4, <1>7
<1> QED BY <1>8 DEF need

LEMMA RoomUnmoved ==
  ASSUME NEW b, Roomy(b), Len(b.data) + 1 <= b.size - 1, NEW e
  PROVE  ~Moving(e, b)
  BY ReallocSame DEF Moving

(* A buffer that holds what b does up to what has been parsed.             *)
Holds(b, c) ==
  /\ Data(c) /\ Len(c.data) = Len(b.data) /\ c.process = b.process
  /\ \A k \in 1 .. b.process : c.data[k] = b.data[k]
  /\ Unprocessed(b) > 0 => c.data[b.process + 1] = "nul"

LEMMA TerminateHolds ==
  ASSUME NEW b, Roomy(b)
  PROVE  Holds(b, Terminate(b))
<1>1. CASE Unprocessed(b) > 0
  <2> DEFINE i == b.process + 1
             new == [b.data EXCEPT ![i] = "nul"]
             c == [b EXCEPT !.data[i] = "nul"]
  <2>1. PICK S : b.data \in Seq(S)
    BY DEF Roomy, Data, IsSeq
  <2>2. b.data \in Seq(S \cup {"nul"})
    BY <2>1, SeqMonotonic
  <2>3. i \in 1 .. Len(b.data) /\ b.process \in Nat
    BY <1>1, RoomyLen DEF Roomy, Unprocessed
  <2>4. new \in Seq(S \cup {"nul"}) /\ Len(new) = Len(b.data)
    <3> HIDE DEF i
    <3> QED BY <2>2, <2>3, ExceptSeq
  <2>5. DOMAIN b.data = 1 .. Len(b.data)
    BY <2>1
  <2>6. new[i] = "nul" /\ \A k \in 1 .. b.process : new[k] = b.data[k]
    <3>1. new[i] = "nul"
      BY <2>3, <2>5
    <3>2. ASSUME NEW k \in 1 .. b.process PROVE new[k] = b.data[k]
      <4>1. k \in DOMAIN b.data /\ k # i
        BY <2>3, <2>5
      <4> QED BY <4>1
    <3> QED BY <3>1, <3>2
  <2>7. /\ DOMAIN c = {"data", "process", "size"} /\ c.data = new
        /\ c.process = b.process
    BY DEF Roomy, Data
  <2>8. Terminate(b) = c
    BY <1>1 DEF Terminate
  <2> HIDE DEF c, new
  <2>9. Holds(b, c)
    BY <2>4, <2>6, <2>7 DEF Holds, Data, IsSeq
  <2> QED BY <2>8, <2>9
<1>2. CASE ~(Unprocessed(b) > 0)
  <2>1. Terminate(b) = b
    BY <1>2 DEF Terminate
  <2> QED BY <1>2, <2>1 DEF Holds, Roomy
<1> QED BY <1>1, <1>2

LEMMA BodyIs ==
  ASSUME NEW x, Laid(x), NEW e, EnvOK(e), NEW b, Data(b), b.process \in 0 .. Len(b.data),
         Finished(x, e, b), NEW c, Holds(b, c)
  PROVE  GetHttpBodyPtr(e, c) = x.body
<1>1. Len(b.data) \in Nat /\ Len(x.body) \in Nat /\ e.body \in Nat /\ IsSeq(c.data)
      /\ IsSeq(x.body)
  BY SeqLen DEF Data, Laid, EnvOK, Holds, IsSeq
<1>2. CASE e.body = 0
  BY <1>2 DEF Finished, GetHttpBodyPtr
<1>3. CASE e.body # 0
  <2> DEFINE B == x.base
             L == Len(x.body)
             a == B + 1
             z == B + L
             u == SubSeq(c.data, a, z)
  <2>1. /\ e.body = B /\ e.content_length = L /\ B + L <= b.process
        /\ \A k \in 1 .. L : b.data[B + k] = x.body[k]
    BY <1>3 DEF Finished
  <2>2. B \in Nat /\ L \in Nat /\ a \in Nat /\ a >= 1 /\ z \in Nat /\ z <= Len(c.data) /\ z <= b.process
        /\ L = IF a <= z THEN z - a + 1 ELSE 0
    <3> DEFINE F == Len(b.data)
               p == b.process
    <3>1. B \in Nat /\ L \in Nat /\ F \in Nat /\ p \in 0 .. F /\ Len(c.data) = F /\ B + L <= p
      BY <1>1, <2>1 DEF Holds
    <3> HIDE DEF B, L, F, p
    <3> QED BY <3>1 DEF p
  <2>3. Slice(c.data, a, z, L)
    <3> HIDE DEF a, z, L
    <3> QED BY <1>1, <2>2, PartOf
  <2>4. IsSeq(u) /\ Len(u) = L /\ \A k \in 1 .. L : u[k] = c.data[a + k - 1]
    BY <2>3 DEF Slice
  <2> HIDE DEF u
  <2>5. ASSUME NEW k \in 1 .. L PROVE u[k] = x.body[k]
    <3>1. a + k - 1 = B + k /\ B + k \in 1 .. b.process
      <4> DEFINE p == b.process
                 F == Len(b.data)
      <4>1. /\ B \in Nat /\ L \in Nat /\ k \in 1 .. L /\ a = B + 1 /\ F \in Nat /\ p \in 0 .. F
            /\ B + L <= p
        BY <1>1, <2>1, <2>2
      <4> HIDE DEF B, L, a, p, F
      <4> QED BY <4>1 DEF p
    <3>2. c.data[B + k] = b.data[B + k]
      BY <3>1 DEF Holds
    <3> QED BY <2>1, <2>4, <3>1, <3>2
  <2>6. u = x.body
    BY <1>1, <2>4, <2>5, SameSeq
  <2>7. GetHttpBodyPtr(e, c) = u
    <3>1. e.body > 0
      BY <1>1, <1>3
    <3> QED BY <2>1, <3>1 DEF GetHttpBodyPtr, u
  <2> QED BY <2>6, <2>7
<1> QED BY <1>2, <1>3

(* The inflated body.                                                      *)
LEMMA InflatedBodyIs ==
  ASSUME NEW e, EnvOK(e), NEW c, Data(c), e.encoding = <<"gzip">>, GetHttpBodyPtr(e, c) = <<"zip">>,
         NEW u, u = UncompressHttpBody(e, c)
  PROVE  GetHttpBodyPtr(u.e, u.b) = Zipped
<1> DEFINE start == SubSeq(c.data, 1, e.body)
           need == e.body + 4 + 1
           f == [e EXCEPT !.content_length = 4]
           b == [c EXCEPT !.data = start \o Zipped, !.size = IF need > @ THEN need ELSE @]
           B == e.body
<1>1. B \in Nat /\ B > 0
  <2>1. <<"zip">> # <<>>
    OBVIOUS
  <2> QED BY <2>1 DEF GetHttpBodyPtr, EnvOK
<1>2. IsSeq(Zipped) /\ Len(Zipped) = 4
  BY Tuples DEF Zipped
<1>3. IsSeq(start) /\ Len(start) = B
  BY <1>1, Part
<1>4. u = [e |-> f, b |-> b]
  BY <1>2 DEF UncompressHttpBody, Inflate
<1> HIDE DEF start
<1>5. u.e.body = B /\ u.e.content_length = 4
  <2>1. u.e = f
    BY <1>4
  <2>2. DOMAIN e = EnvFields
    BY DEF EnvOK
  <2> QED BY <2>1, <2>2 DEF EnvFields
<1>6. u.b.data = start \o Zipped
  <2>1. u.b = b
    BY <1>4
  <2> QED BY <2>1 DEF Data
<1> DEFINE d == start \o Zipped
<1>7. IsSeq(d) /\ Len(d) = B + 4
  BY <1>2, <1>3, Joined
<1>8. Joins(start, Zipped)
  BY <1>2, <1>3, JoinsAll
<1> DEFINE a == B + 1
           z == B + 4
           n == 4
<1>9. a \in Nat /\ a >= 1 /\ z \in Nat /\ z <= Len(d) /\ n \in Nat /\ n = IF a <= z THEN z - a + 1 ELSE 0
  BY <1>1, <1>7
<1>10. Slice(d, a, z, n)
  <2> HIDE DEF a, z, n, d
  <2> QED BY <1>7, <1>9, PartOf
<1>11. \A k \in 1 .. 4 : d[B + k] = Zipped[k]
  BY <1>2, <1>3, <1>8 DEF Joins
<1> HIDE DEF d
<1> DEFINE v == SubSeq(d, a, z)
<1>12. IsSeq(v) /\ Len(v) = 4 /\ \A k \in 1 .. 4 : v[k] = d[a + k - 1]
  BY <1>10 DEF Slice
<1> HIDE DEF v
<1>13. ASSUME NEW k \in 1 .. 4 PROVE v[k] = Zipped[k]
  <2>1. a + k - 1 = B + k
    BY <1>1
  <2> QED BY <1>11, <1>12, <2>1
<1>14. v = Zipped
  BY <1>2, <1>12, <1>13, SameSeq
<1>15. GetHttpBodyPtr(u.e, u.b) = v
  BY <1>1, <1>5, <1>6 DEF GetHttpBodyPtr, v, d
<1> QED BY <1>14, <1>15

-----------------------------------------------------------------------------
(* What is being said.                                                     *)
LEMMA GotLen == HttpInv => Len(got) \in Nat /\ Len(ans) \in Nat /\ Len(conv) \in Nat /\ conv \in Conversations
<1> SUFFICES ASSUME HttpInv PROVE Len(got) \in Nat /\ Len(ans) \in Nat /\ Len(conv) \in Nat /\ conv \in Conversations
  OBVIOUS
<1>1. IsSeq(got) /\ IsSeq(ans) /\ conv \in Conversations
  BY DEF HttpInv
<1>2. Len(conv) \in Nat
  BY <1>1, HttpAssumption
<1> QED BY <1>1, <1>2, SeqLen

AskedIs(m, x) == Proper(m) /\ Laid(x) /\ IsSeq(x.w) /\ x.role = "server" /\ x = Text(m)
LEMMA AskingIs == HttpInv /\ Len(got) < Len(conv) => AskedIs(conv[Len(got) + 1], Asking)
<1> SUFFICES ASSUME HttpInv, Len(got) < Len(conv) PROVE AskedIs(conv[Len(got) + 1], Asking)
  OBVIOUS
<1> DEFINE i == Len(got) + 1
           m == conv[i]
<1>1. i \in 1 .. Len(conv) /\ conv \in Conversations
  BY GotLen
<1>2. Proper(m)
  <2> HIDE DEF i
  <2> QED BY <1>1, AskedProper
<1>3. Asking = Text(m)
  BY DEF Asking
<1> HIDE DEF m
<1>4. Text(m).role = "server"
  BY DEF Text
<1>5. AskedIs(m, Asking)
  BY <1>2, <1>3, <1>4, RequestLaid DEF AskedIs
<1> QED BY <1>5 DEF m

AnsweredIs(e, a, x) ==
  /\ Laid(x) /\ IsSeq(x.w) /\ x.role = "client" /\ x.te = 0 /\ x.ce = 0
  /\ x.w = Reply(e, a) /\ a = [code |-> x.code, body |-> x.body]
Pick(a) == a \in {Answers[k] : k \in 1 .. Len(Answers)}
LEMMA AnswerIs ==
  ASSUME NEW e, e.version \in Versions, NEW a, Pick(a)
  PROVE  AnsweredIs(e, a, AnswerText(e, a))
<1> DEFINE x == AnswerText(e, a)
<1>1. PICK k \in 1 .. Len(Answers) : a = Answers[k]
  BY DEF Pick
<1>2. Answered(a)
  BY <1>1, AnswersAre
<1>3. a \in [code : STRING, body : Seq(STRING)]
  BY <1>1, MessageAssumption
<1>4. Laid(x) /\ IsSeq(x.w)
  BY <1>2, AnswerLaid
<1>5. x.role = "client" /\ x.te = 0 /\ x.ce = 0 /\ x.w = Reply(e, a) /\ x.code = a.code /\ x.body = a.body
  BY DEF AnswerText
<1> HIDE DEF x
<1>6. a = [code |-> a.code, body |-> a.body]
  BY <1>3
<1>7. AnsweredIs(e, a, x)
  BY <1>4, <1>5, <1>6 DEF AnsweredIs
<1> QED BY <1>7 DEF x

LEMMA SaidIs == ASSUME NEW m PROVE Said(m).version = m.version /\ Said(m).keepalive = Connection(<<m.keep>>)
  BY DEF Said

LEMMA AnsweringIs ==
  HttpInv /\ Counts /\ Len(made) = Len(got) /\ got # <<>>
    => AnsweredIs(Said(conv[Len(got)]), made[Len(got)], Answering)
<1> SUFFICES ASSUME HttpInv, Counts, Len(made) = Len(got), got # <<>>
             PROVE  AnsweredIs(Said(conv[Len(got)]), made[Len(got)], Answering)
  OBVIOUS
<1> DEFINE i == Len(got)
           m == conv[i]
           a == made[i]
<1>1. i \in 1 .. Len(conv) /\ conv \in Conversations /\ i \in 1 .. Len(made)
  <2>1. Len(got) # 0
    <3>1. PICK S : got \in Seq(S)
      BY DEF HttpInv, IsSeq
    <3> QED BY <3>1
  <2> QED BY <2>1, GotLen DEF Counts
<1>2. Proper(m)
  <2> HIDE DEF i
  <2> QED BY <1>1, AskedProper
<1>3. Pick(a)
  <2> HIDE DEF i
  <2> QED BY <1>1 DEF Counts, Pick
<1>4. Answering = AnswerText(Said(m), a)
  BY DEF Answering
<1> HIDE DEF m, a
<1>5. Said(m).version \in Versions
  BY <1>2, SaidIs DEF Proper
<1>6. AnsweredIs(Said(m), a, Answering)
  BY <1>3, <1>4, <1>5, AnswerIs
<1> QED BY <1>6 DEF m, a

(* What either end has still to send.                                      *)
LEMMA UnsentIs ==
  ASSUME NEW b, Roomy(b)
  PROVE  /\ IsSeq(Unsent(b)) /\ (Unprocessed(b) <= 0 => Unsent(b) = <<>>)
         /\ (Unprocessed(b) > 0 => Unsent(b) # <<>>)
<1> DEFINE m == b.process + 1
           n == Len(b.data)
           u == SubSeq(b.data, m, n)
<1>1. m \in Int /\ n \in Int /\ Unprocessed(b) = n - m + 1
  BY RoomyLen DEF Roomy, Unprocessed
<1>2. IsSeq(u) /\ Len(u) = IF m <= n THEN n - m + 1 ELSE 0
  <2> HIDE DEF m, n
  <2> QED BY <1>1, Part
<1>3. Unsent(b) = u
  BY DEF Unsent
<1> HIDE DEF m, n, u
<1>4. Len(u) = 0 <=> u = <<>>
  <2>1. PICK S : u \in Seq(S)
    BY <1>2 DEF IsSeq
  <2> QED BY <2>1
<1> QED BY <1>1, <1>2, <1>3, <1>4

-----------------------------------------------------------------------------
(* That the ends keep to what is being said, action by action.             *)
LEMMA SameAsking == UNCHANGED <<conv, got>> => Asking' = Asking
  BY DEF Asking
LEMMA SameAnswering == UNCHANGED <<conv, got, made>> => Answering' = Answering
  BY DEF Answering
LEMMA SameStreams ==
  /\ toSrv' = toSrv /\ cli'.req = cli.req => ToServer' = ToServer
  /\ toCli' = toCli /\ srv'.rsp = srv.rsp => ToClient' = ToClient
  BY DEF ToServer, ToClient
LEMMA SameSpoilt == UNCHANGED <<conv, got>> => (Spoilt' <=> Spoilt)
  BY DEF Spoilt

LEMMA StillTalks ==
  /\ Talk /\ UNCHANGED <<conv, cli, srv, toSrv, toCli, got, made, ans>>
  /\ cpc' \in {cpc, "closed"} /\ spc' \in {spc, "closed", "refused"}
  => Talk'
<1> SUFFICES ASSUME Talk, UNCHANGED <<conv, cli, srv, toSrv, toCli, got, made, ans>>,
                    cpc' \in {cpc, "closed"}, spc' \in {spc, "closed", "refused"}
             PROVE  Talk'
  OBVIOUS
<1>1. Asking' = Asking /\ Answering' = Answering /\ ToServer' = ToServer /\ ToClient' = ToClient
      /\ (Spoilt' <=> Spoilt)
  BY SameAsking, SameAnswering, SameStreams, SameSpoilt
<1>2. Counts'
  BY DEF Talk, Counts
<1>3. ClientTalks'
  BY DEF Talk, ClientTalks
<1>4. AnswerTravels'
  BY <1>1 DEF Talk, AnswerTravels
<1>5. ServerReads'
  BY <1>1 DEF Talk, ServerReads
<1>6. Left <=> Left'
  BY <1>1 DEF Left
<1>7. ServerAnswers'
  BY <1>6 DEF Talk, ServerAnswers
<1> QED BY <1>2, <1>3, <1>4, <1>5, <1>7 DEF Talk

LEMMA NewIs ==
  ASSUME NEW role, NEW e, New(role, e)
  PROVE  /\ DOMAIN e = EnvFields /\ e.role = role /\ e.moved = FALSE /\ e.reforming = FALSE
         /\ e.chunk_end = 0 /\ e.step = "BEGIN"
<1> DEFINE c == CreateHttpEnv(role)
           q == e.req
           r == e.rsp
<1>1. e = [c EXCEPT !.req = q, !.rsp = r]
  BY DEF New
<1>2. DOMAIN c = EnvFields /\ c.role = role /\ c.moved = FALSE /\ c.reforming = FALSE /\ c.chunk_end = 0
      /\ c.step = "BEGIN"
  BY Zenon DEF CreateHttpEnv, EnvFields
<1> HIDE DEF q, r, c
<1> QED BY <1>1, <1>2 DEF EnvFields

LEMMA NewStays ==
  ASSUME NEW role, NEW e, New(role, e), NEW q, NEW r, NEW f, f = [e EXCEPT !.req = q, !.rsp = r]
  PROVE  New(role, f)
<1> DEFINE c == CreateHttpEnv(role)
           a == e.req
           b == e.rsp
<1>1. e = [c EXCEPT !.req = a, !.rsp = b]
  BY DEF New
<1>2. DOMAIN c = EnvFields
  BY Zenon DEF CreateHttpEnv, EnvFields
<1> HIDE DEF a, b, c
<1>3. f.req = q /\ f.rsp = r /\ f = [c EXCEPT !.req = q, !.rsp = r]
  BY <1>1, <1>2 DEF EnvFields
<1> QED BY <1>3 DEF New, c

LEMMA CreateNew == ASSUME NEW role PROVE New(role, CreateHttpEnv(role))
<1> DEFINE c == CreateHttpEnv(role)
<1>1. DOMAIN c = EnvFields
  BY Zenon DEF CreateHttpEnv, EnvFields
<1>2. c = [i \in DOMAIN c |-> c[i]]
  BY Zenon DEF CreateHttpEnv
<1> HIDE DEF c
<1>3. c = [c EXCEPT !.req = c.req, !.rsp = c.rsp]
  BY <1>1, <1>2 DEF EnvFields
<1> QED BY <1>3 DEF New, c

LEMMA IsNone == ASSUME NEW q, IsSeq(q), Len(q) = 0 PROVE q = <<>>
<1>1. PICK S : q \in Seq(S)
  BY DEF IsSeq
<1> QED BY <1>1

LEMMA JoinEmpty == ASSUME NEW q, IsSeq(q) PROVE q \o <<>> = q /\ <<>> \o q = q
<1>1. PICK S : q \in Seq(S)
  BY DEF IsSeq
<1> QED BY <1>1, ConcatEmptySeq

LEMMA TalkInit == Init => Talk
<1> SUFFICES ASSUME Init PROVE Talk
  OBVIOUS
<1>1. /\ cli = CreateHttpEnv("client") /\ srv = CreateHttpEnv("server") /\ toSrv = <<>> /\ toCli = <<>>
      /\ cpc = "idle" /\ spc = "receive" /\ got = <<>> /\ made = <<>> /\ ans = <<>>
  BY DEF Init
<1>2. New("client", cli) /\ New("server", srv)
  BY <1>1, CreateNew
<1>3. cli.role = "client" /\ cli.reforming = FALSE
  BY <1>2, NewIs
<1>4. cli.req = InitHttpBuffer(ReqSize) /\ srv.req = InitHttpBuffer(ReqSize)
  BY <1>1, Zenon DEF CreateHttpEnv
<1>5. cli.req.data = <<>> /\ cli.req.process = 0 /\ srv.req.data = <<>> /\ srv.req.process = 0
  BY <1>4 DEF InitHttpBuffer
<1>6. Unsent(cli.req) = <<>> /\ Unprocessed(cli.req) = 0
  <2>1. HttpInv
    BY HttpInit
  <2>2. Unprocessed(cli.req) = 0
    BY <1>5 DEF Unprocessed
  <2>3. Roomy(cli.req)
    BY <2>1 DEF HttpInv, EnvRoomy
  <2>4. Unsent(cli.req) = <<>>
    BY <2>2, <2>3, UnsentIs
  <2> QED BY <2>2, <2>4
<1>7. ToServer = <<>>
  BY <1>1, <1>6 DEF ToServer
<1>8. Len(conv) \in Nat
  BY HttpAssumption DEF Init
<1>9. Counts
  <2>1. <<>> \in Seq({Answers[k] : k \in 1 .. Len(Answers)})
    OBVIOUS
  <2> QED BY <1>1, <1>8, <2>1 DEF Counts
<1>10. ClientTalks
  BY <1>1, <1>3, <1>6 DEF ClientTalks
<1>11. AnswerTravels
  BY <1>1 DEF AnswerTravels
<1>12. ServerReads
  BY <1>1, <1>2, <1>5, <1>7 DEF ServerReads, Clean, Spoilt
<1>13. ServerAnswers
  BY <1>1 DEF ServerAnswers
<1> QED BY <1>9, <1>10, <1>11, <1>12, <1>13 DEF Talk

LEMMA ReadyStays ==
  ASSUME NEW x, NEW e, DOMAIN e = EnvFields, NEW q, NEW r, NEW f, f = [e EXCEPT !.req = q, !.rsp = r],
         NEW d, NEW p, Ready(x, e, d, p)
  PROVE  Ready(x, f, d, p)
<1> DEFINE m == e.moved
<1>1. e.moved = FALSE
  BY ReadyStill
<1>2. Alike(e, f) /\ f.moved = FALSE
  BY <1>1 DEF Alike, EnvFields
<1>3. f = [e EXCEPT !.req = q, !.rsp = r, !.moved = m]
  BY DEF EnvFields
<1> HIDE DEF m
<1>4. Touched(e, f)
  BY <1>3 DEF Touched
<1> QED BY <1>2, <1>4, AlikeReady

LEMMA SendsOn ==
  ASSUME NEW b, Roomy(b), NEW k \in Sendable(b), NEW c, c = SendHttpBuffer(b, k)
  PROVE  /\ Sent(b, k) \o Unsent(c) = Unsent(b) /\ c.data = b.data
         /\ Unprocessed(c) = Unprocessed(b) - k
<1> DEFINE l == b.process
           n == Len(b.data)
           u == SubSeq(b.data, l + 1, n)
           v == SubSeq(b.data, l + 1, l + k)
           w == SubSeq(b.data, l + k + 1, n)
           i == l + 1
           j == l + k
           g == j + 1
           t == n - l
           y == t - k
<1>1. k \in Nat /\ k <= n - l /\ n \in Nat /\ l \in Nat /\ IsSeq(b.data) /\ k >= 1
  BY RoomyLen DEF Sendable, Unprocessed, Roomy, Data
<1>2. c.data = b.data /\ c.process = l + k
  BY DEF SendHttpBuffer, Roomy, Data
<1>3. Unprocessed(c) = Unprocessed(b) - k
  <2> HIDE DEF l, n
  <2>1. Unprocessed(c) = n - (l + k) /\ Unprocessed(b) = n - l
    BY <1>2 DEF Unprocessed, n, l
  <2> QED BY <1>1, <2>1
<1>4. /\ i \in Nat /\ i >= 1 /\ j \in Nat /\ j <= n /\ g \in Nat /\ g >= 1 /\ n <= Len(b.data)
      /\ t \in Nat /\ t = (IF i <= n THEN n - i + 1 ELSE 0)
      /\ k = (IF i <= j THEN j - i + 1 ELSE 0)
      /\ y \in Nat /\ y = (IF g <= n THEN n - g + 1 ELSE 0)
  <2>1. n = Len(b.data)
    OBVIOUS
  <2> HIDE DEF l, n
  <2> QED BY <1>1, <2>1
<1> HIDE DEF i, j, g, t, y, n
<1>5. Slice(b.data, i, n, t) /\ Slice(b.data, i, j, k) /\ Slice(b.data, g, n, y)
  BY <1>1, <1>4, PartOf
<1>6. /\ u = SubSeq(b.data, i, n) /\ v = SubSeq(b.data, i, j) /\ w = SubSeq(b.data, g, n)
      /\ Sent(b, k) = v /\ Unsent(c) = w /\ Unsent(b) = u
  BY <1>2 DEF i, j, g, Sent, Unsent, n
<1> HIDE DEF u, v, w, l
<1>7. /\ IsSeq(u) /\ Len(u) = t /\ \A a \in 1 .. t : u[a] = b.data[i + a - 1]
      /\ IsSeq(v) /\ Len(v) = k /\ \A a \in 1 .. k : v[a] = b.data[i + a - 1]
      /\ IsSeq(w) /\ Len(w) = y /\ \A a \in 1 .. y : w[a] = b.data[g + a - 1]
  BY <1>5, <1>6 DEF Slice
<1>8. IsSeq(v \o w) /\ Len(v \o w) = k + y
  BY <1>7, Joined
<1>9. Joins(v, w)
  BY <1>7, JoinsAll
<1>10. t = k + y /\ g = i + k /\ l \in Nat
  BY <1>1 DEF t, y, g, i, j, n
<1>11. ASSUME NEW a \in 1 .. t PROVE (v \o w)[a] = u[a]
  <2>1. CASE a <= k
    <3>1. a \in 1 .. k
      BY <1>4, <2>1
    <3> QED BY <1>7, <1>9, <3>1 DEF Joins
  <2>2. CASE ~(a <= k)
    <3> DEFINE h == a - k
    <3>1. h \in 1 .. y /\ k + h = a /\ g + h - 1 = i + a - 1
      BY <1>1, <1>4, <1>10, <2>2
    <3> HIDE DEF h
    <3>2. (v \o w)[k + h] = w[h]
      BY <1>7, <1>9, <3>1 DEF Joins
    <3> QED BY <1>7, <3>1, <3>2
  <2> QED BY <2>1, <2>2
<1>12. v \o w = u
  BY <1>7, <1>8, <1>10, <1>11, SameSeq
<1> QED BY <1>2, <1>3, <1>6, <1>12

LEMMA JoinThree ==
  ASSUME NEW q, IsSeq(q), NEW r, IsSeq(r), NEW s, IsSeq(s) PROVE (q \o r) \o s = q \o (r \o s)
<1>1. PICK S : q \in Seq(S)
  BY DEF IsSeq
<1>2. PICK T : r \in Seq(T)
  BY DEF IsSeq
<1>3. PICK U : s \in Seq(U)
  BY DEF IsSeq
<1> DEFINE V == S \cup T \cup U
<1>4. q \in Seq(V) /\ r \in Seq(V) /\ s \in Seq(V)
  BY <1>1, <1>2, <1>3, SeqMonotonic
<1> HIDE DEF V
<1> QED BY <1>4, ConcatAssociative

Associate(q, r, s) == (q \o r) \o s = q \o (r \o s)
LEMMA Associative == ASSUME NEW q, IsSeq(q), NEW r, IsSeq(r), NEW s, IsSeq(s) PROVE Associate(q, r, s)
  BY JoinThree DEF Associate

LEMMA SendRequestTalks == HttpInv /\ Talk /\ SendHttpRequest => Talk'
<1> SUFFICES ASSUME HttpInv, Talk, SendHttpRequest PROVE Talk'
  OBVIOUS
<1>1. PICK k \in Sendable(cli.req) :
        /\ toSrv' = toSrv \o Sent(cli.req, k)
        /\ cli' = [cli EXCEPT !.req = SendHttpBuffer(@, k)]
        /\ cpc' = IF k = Unprocessed(cli.req) THEN "receive" ELSE "send"
  BY DEF SendHttpRequest
<1> DEFINE b == SendHttpBuffer(cli.req, k)
<1>2. UNCHANGED <<conv, srv, toCli, spc, got, made, ans>> /\ cpc = "send"
  BY DEF SendHttpRequest
<1>3. EnvOK(cli) /\ Roomy(cli.req) /\ Roomy(cli.rsp) /\ IsSeq(toSrv)
  BY DEF HttpInv, EnvRoomy
<1>4. cli' = [cli EXCEPT !.req = b]
  BY <1>1
<1>5. /\ Sent(cli.req, k) \o Unsent(b) = Unsent(cli.req) /\ b.data = cli.req.data
      /\ Unprocessed(b) = Unprocessed(cli.req) - k
  <2> HIDE DEF b
  <2> QED BY <1>3, SendsOn DEF b
<1>6. Roomy(b) /\ IsSeq(Sent(cli.req, k))
  BY <1>3, SendRoomy
<1> HIDE DEF b
<1>7. DOMAIN cli = EnvFields /\ cli'.req = b /\ cli'.rsp = cli.rsp /\ cli'.role = cli.role
      /\ cli'.reforming = cli.reforming
  BY <1>3, <1>4 DEF EnvOK, EnvFields
<1> DEFINE y == cli.rsp
<1>8. cli' = [cli EXCEPT !.req = b, !.rsp = y]
  BY <1>3, <1>4 DEF EnvOK, EnvFields
<1> HIDE DEF y
<1>9. ToServer' = ToServer
  <2>1. IsSeq(Unsent(b))
    BY <1>6, UnsentIs
  <2>2. ToServer' = (toSrv \o Sent(cli.req, k)) \o Unsent(b)
    BY <1>1, <1>7 DEF ToServer
  <2> DEFINE u == Sent(cli.req, k)
             v == Unsent(b)
  <2>3. IsSeq(u) /\ IsSeq(v) /\ u \o v = Unsent(cli.req) /\ ToServer' = (toSrv \o u) \o v
    BY <1>5, <1>6, <2>1, <2>2
  <2> HIDE DEF u, v
  <2>4. (toSrv \o u) \o v = toSrv \o (u \o v)
    <3> DEFINE t == toSrv
    <3>1. IsSeq(t) /\ IsSeq(u) /\ IsSeq(v)
      BY <1>3, <2>3
    <3> HIDE DEF t
    <3>2. (t \o u) \o v = t \o (u \o v)
      BY <3>1, JoinThree
    <3> QED BY <3>2 DEF t
  <2> QED BY <2>3, <2>4 DEF ToServer
<1>10. Asking' = Asking /\ Answering' = Answering /\ ToClient' = ToClient /\ (Spoilt' <=> Spoilt)
  BY <1>2, SameAsking, SameAnswering, SameStreams, SameSpoilt
<1>11. Counts'
  BY <1>2 DEF Talk, Counts
<1>12. ClientTalks'
  <2>1. k \in Nat /\ Unprocessed(cli.req) \in Int
    BY <1>3, RoomyLen DEF Sendable, Roomy, Unprocessed
  <2>2. cpc' = "receive" => Unprocessed(cli'.req) = 0
    BY <1>1, <1>5, <1>7, <2>1
  <2>3. cpc' \in {"receive", "send"}
    BY <1>1
  <2> QED BY <2>2, <2>3 DEF ClientTalks
<1>13. \A x, d, p : Ready(x, cli, d, p) => Ready(x, cli', d, p)
  BY <1>7, <1>8, ReadyStays
<1>14. Clean("client", cli, cli.rsp) => Clean("client", cli', cli'.rsp)
  <2> SUFFICES ASSUME Clean("client", cli, cli.rsp) PROVE Clean("client", cli', cli'.rsp)
    OBVIOUS
  <2> DEFINE r == "client"
  <2>1. New(r, cli)
    BY DEF Clean
  <2> HIDE DEF r
  <2>2. New(r, cli')
    BY <1>8, <2>1, NewStays
  <2> QED BY <1>7, <2>2 DEF Clean, r
<1>15. AnswerTravels'
  BY <1>2, <1>7, <1>10, <1>13 DEF Talk, AnswerTravels, Onway
<1>16. ServerReads'
  <2>1. cpc' # "idle"
    BY <1>1
  <2> QED BY <1>2, <1>9, <1>10, <1>14, <2>1 DEF Talk, ServerReads
<1>17. Left <=> Left'
  BY <1>2, <1>9, <1>10 DEF Left
<1>18. ServerAnswers'
  BY <1>2, <1>14, <1>17 DEF Talk, ServerAnswers
<1> QED BY <1>11, <1>12, <1>15, <1>16, <1>18 DEF Talk

LEMMA ResetNew ==
  ASSUME NEW e, NEW role, e.role = role, e.reforming = FALSE
  PROVE  /\ New(role, ResetHttpEnv(e))
         /\ ResetHttpEnv(e).req.data = <<>> /\ ResetHttpEnv(e).req.process = 0
         /\ ResetHttpEnv(e).rsp.data = <<>> /\ ResetHttpEnv(e).rsp.process = 0
<1> DEFINE c == CreateHttpEnv(role)
           q == ResetHttpBuffer(e.req, ReqMax)
           r == ResetHttpBuffer(e.rsp, RspMax)
           m == FALSE
           f == ResetHttpEnv(e)
<1>1. f = [c EXCEPT !.req = q, !.rsp = r, !.reforming = m]
  BY Zenon DEF ResetHttpEnv
<1>2. DOMAIN c = EnvFields /\ c.reforming = FALSE
  BY Zenon DEF CreateHttpEnv, EnvFields
<1>3. q.data = <<>> /\ q.process = 0 /\ r.data = <<>> /\ r.process = 0
  BY DEF ResetHttpBuffer, InitHttpBuffer
<1> HIDE DEF c, q, r, f
<1>4. f.req = q /\ f.rsp = r /\ f = [c EXCEPT !.req = f.req, !.rsp = f.rsp]
  BY <1>1, <1>2 DEF EnvFields
<1>5. New(role, f)
  BY <1>4 DEF New, c
<1>6. f.req.data = <<>> /\ f.req.process = 0 /\ f.rsp.data = <<>> /\ f.rsp.process = 0
  BY <1>3, <1>4
<1> QED BY <1>5, <1>6 DEF f

(* A line that nobody understands is none the better for what follows it.  *)
LEMMA FoulStill ==
  ASSUME NEW d, IsSeq(d), Foul(d), NEW w, IsSeq(w), w = <<>> \/ w[1] \notin Separators
  PROVE  Foul(d \o w)
<1> DEFINE z == d \o w
<1>1. IsSeq(z) /\ Len(z) = Len(d) + Len(w) /\ Len(d) \in Nat /\ Len(w) \in Nat
  BY Joined, SeqLen
<1>2. /\ \A k \in 1 .. Len(d) : z[k] = d[k]
      /\ \A k \in 1 .. Len(w) : z[Len(d) + k] = w[k]
  <2>1. Joins(d, w)
    BY JoinsAll
  <2> QED BY <2>1 DEF Joins
<1> HIDE DEF z
<1>3. Len(d) >= 1
  <2>1. Len(d) # 0
    BY IsNone DEF Foul
  <2> QED BY <1>1, <2>1
<1>4. z[1] = d[1] /\ Len(z) # 0
  BY <1>1, <1>2, <1>3
<1>5. z # <<>>
  BY <1>4
<1>6. ASSUME d[1] = "nul", Len(z) >= 2 PROVE z[2] \notin {"sp", "lf"}
  <2>1. CASE Len(d) >= 2
    <3>1. z[2] = d[2]
      BY <1>1, <1>2, <2>1
    <3> QED BY <1>6, <2>1, <3>1 DEF Foul
  <2>2. CASE ~(Len(d) >= 2)
    <3>1. Len(d) = 1 /\ Len(w) >= 1
      <4> DEFINE D == Len(d)
                 W == Len(w)
                 Z == Len(z)
      <4>1. Z = D + W /\ D \in Nat /\ W \in Nat /\ D >= 1 /\ Z >= 2 /\ ~(D >= 2)
        BY <1>1, <1>3, <1>6, <2>2
      <4> HIDE DEF D, W, Z
      <4>2. D = 1 /\ W >= 1
        BY <4>1
      <4> QED BY <4>2 DEF D, W
    <3>2. z[2] = w[1]
      <4>1. 1 \in 1 .. Len(w) /\ Len(d) + 1 = 2
        BY <1>1, <3>1
      <4> QED BY <1>2, <4>1
    <3>3. w # <<>>
      BY <3>1
    <3> QED BY <3>2, <3>3 DEF Separators
  <2> QED BY <2>1, <2>2
<1>7. Foul(z)
  BY <1>4, <1>5, <1>6 DEF Foul
<1> QED BY <1>7 DEF z

LEMMA RequestTalks == HttpInv /\ Talk /\ Request => Talk'
<1> SUFFICES ASSUME HttpInv, Talk, Request PROVE Talk'
  OBVIOUS
<1> DEFINE e == ResetHttpEnv(cli)
           w == Wire(conv[Asked])
           b == StrcatfHttpBuffer(e.req, w)
           r == e.rsp
           x == Asking
<1>1. /\ cli' = [e EXCEPT !.req = b] /\ cpc' = "send" /\ cpc = "idle" /\ Asked <= Len(conv)
      /\ UNCHANGED <<conv, srv, toSrv, toCli, spc, got, made, ans>>
  BY DEF Request
<1>2. Len(ans) = Len(got) /\ Len(made) = Len(got) /\ cli.role = "client" /\ cli.reforming = FALSE
      /\ Unprocessed(cli.req) = 0
  BY <1>1 DEF Talk, ClientTalks
<1>3. /\ New("client", e) /\ e.req.data = <<>> /\ e.req.process = 0
      /\ e.rsp.data = <<>> /\ e.rsp.process = 0
  <2> DEFINE role == "client"
  <2>1. cli.role = role /\ cli.reforming = FALSE
    BY <1>2
  <2> HIDE DEF role, e
  <2> QED BY <2>1, ResetNew DEF role, e
<1>4. /\ Len(got) < Len(conv) /\ Asked = Len(got) + 1
  BY <1>1, <1>2, GotLen DEF Asked
<1>5. AskedIs(conv[Len(got) + 1], x)
  BY <1>4, AskingIs
<1>6. x.w = w /\ IsSeq(w) /\ Laid(x) /\ x.role = "server"
  <2>1. x.w = Wire(conv[Len(got) + 1])
    <3> DEFINE m == conv[Len(got) + 1]
    <3>1. x = Text(m)
      BY <1>5 DEF AskedIs
    <3> HIDE DEF m, x
    <3>2. x.w = Wire(m)
      BY <3>1 DEF Text
    <3> QED BY <3>2 DEF m
  <2> QED BY <1>4, <1>5, <2>1 DEF AskedIs
<1>7. w = <<>> \/ w[1] \notin Separators
  BY <1>6 DEF Laid, Begins
<1>8. Fresh(e)
  BY ResetFresh DEF HttpInv
<1> HIDE DEF e, w, x
<1>9. b.data = w /\ b.process = 0
  <2>1. b.data = <<>> \o w /\ b.process = 0
    BY <1>3, <1>8 DEF StrcatfHttpBuffer, Fresh, EnvRoomy, Roomy, Data
  <2> QED BY <1>6, <2>1, JoinEmpty
<1> HIDE DEF b, r
<1>11. cli' = [e EXCEPT !.req = b, !.rsp = r] /\ cli'.req = b /\ cli'.rsp = r
  BY <1>1, <1>8 DEF Fresh, EnvRoomy, EnvOK, EnvFields, r
<1>12. Clean("client", cli', cli'.rsp)
  <2> DEFINE role == "client"
  <2>1. New(role, e)
    BY <1>3
  <2> HIDE DEF role
  <2>2. New(role, cli')
    BY <1>11, <2>1, NewStays
  <2> QED BY <1>3, <1>11, <2>2 DEF Clean, r, role
<1>13. ToServer = toSrv
  <2>1. Unsent(cli.req) = <<>> /\ IsSeq(toSrv)
    BY <1>2, UnsentIs DEF HttpInv, EnvRoomy
  <2> QED BY <2>1, JoinEmpty DEF ToServer
<1>14. ToServer' = toSrv \o w
  <2>1. Unsent(b) = w
    <3>1. Unsent(b) = SubSeq(w, 1, Len(w))
      <4>1. b.process + 1 = 1
        BY <1>9
      <4> QED BY <1>9, <4>1 DEF Unsent
    <3>2. PICK S : w \in Seq(S)
      BY <1>6 DEF IsSeq
    <3> QED BY <3>1, <3>2
  <2> QED BY <1>1, <1>11, <2>1 DEF ToServer
<1>15. x' = x /\ (Spoilt' <=> Spoilt)
  BY <1>1, SameAsking, SameSpoilt DEF x
<1>16. Counts'
  BY <1>1 DEF Talk, Counts
<1>17. ClientTalks'
  BY <1>1 DEF ClientTalks
<1>18. AnswerTravels'
  BY <1>1, <1>2 DEF Talk, AnswerTravels
<1>19. ServerReads'
  <2> SUFFICES ASSUME spc = "receive"
               PROVE  \/ Spoilt /\ Stuck(srv, srv.req, ToServer')
                      \/ ~Spoilt /\ Onway(x, srv, srv.req, ToServer')
    BY <1>1, <1>2, <1>4, <1>12, <1>15 DEF ServerReads, x
  <2>1. \/ Spoilt /\ Stuck(srv, srv.req, ToServer)
        \/ ~Spoilt /\ Clean("server", srv, srv.req) /\ ToServer = <<>>
    BY <1>1 DEF Talk, ServerReads
  <2>2. CASE Spoilt /\ Stuck(srv, srv.req, ToServer)
    <3> DEFINE d == srv.req.data
    <3>1. IsSeq(d) /\ IsSeq(toSrv)
      BY DEF HttpInv, EnvRoomy, Roomy, Data
    <3>2. Foul(d \o toSrv)
      BY <1>13, <2>2 DEF Stuck
    <3>3. IsSeq(d \o toSrv)
      BY <3>1, Joined
    <3> DEFINE t == toSrv
               z == d \o t
    <3>4. IsSeq(d) /\ IsSeq(t) /\ IsSeq(z) /\ Foul(z)
      BY <3>1, <3>2, <3>3
    <3> HIDE DEF d, t
    <3>5. (d \o t) \o w = d \o (t \o w)
      BY <1>6, <3>4, JoinThree
    <3>6. Foul(z \o w)
      <4> HIDE DEF z
      <4> QED BY <1>6, <1>7, <3>4, FoulStill
    <3>7. Foul(d \o ToServer')
      BY <1>14, <3>5, <3>6 DEF t
    <3> QED BY <2>2, <3>7 DEF Stuck, d
  <2>3. CASE ~Spoilt /\ Clean("server", srv, srv.req) /\ ToServer = <<>>
    <3>1. ToServer' = w
      <4>1. toSrv = <<>>
        BY <1>13, <2>3
      <4> QED BY <1>6, <1>14, <4>1, JoinEmpty
    <3>2. Ready(x, srv, <<>>, 0)
      <4>1. Exact(x, <<>>)
        BY DEF Exact
      <4>2. Len(<<>>) = 0 /\ Len(x.w) \in Nat
        BY <1>6, SeqLen
      <4> QED BY <1>6, <2>3, <4>1, <4>2 DEF Ready, Clean
    <3>3. w = SubSeq(w, 0 + 1, Len(w))
      <4>1. PICK S : w \in Seq(S)
        BY <1>6 DEF IsSeq
      <4> QED BY <4>1
    <3>4. Len(<<>>) = 0
      OBVIOUS
    <3>5. Onway(x, srv, srv.req, w)
      BY <1>6, <2>3, <3>2, <3>3, <3>4 DEF Onway, Clean
    <3> QED BY <2>3, <3>1, <3>5
  <2> QED BY <2>1, <2>2, <2>3
<1>20. ServerAnswers'
  <2>1. spc \notin {"process", "send"}
    BY <1>2, GotLen DEF Talk, ServerAnswers
  <2> QED BY <1>1, <2>1 DEF ServerAnswers
<1> QED BY <1>16, <1>17, <1>18, <1>19, <1>20 DEF Talk

LEMMA Appends ==
  ASSUME NEW q, IsSeq(q), NEW a, NEW r, r = Append(q, a)
  PROVE  Len(r) = Len(q) + 1 /\ r[Len(q) + 1] = a /\ \A k \in 1 .. Len(q) : r[k] = q[k]
<1>1. PICK S : q \in Seq(S)
  BY DEF IsSeq
<1> DEFINE T == S \cup {a}
<1>2. q \in Seq(T) /\ a \in T
  BY <1>1, SeqMonotonic
<1> HIDE DEF T
<1>3. Len(r) = Len(q) + 1 /\ r[Len(q) + 1] = a
  BY <1>2, AppendProperties
<1>4. \A k \in 1 .. Len(q) : r[k] = q[k]
  BY <1>2, AppendProperties
<1> QED BY <1>3, <1>4

(* An answer that the client takes for whole.                              *)
Told(f, b, x, u, a) ==
  /\ u.e = f /\ u.b = b /\ f.role = "client" /\ f.reforming = FALSE /\ Len(b.data) = Len(x.w)
  /\ [code |-> u.e.statuscode, body |-> GetHttpBodyPtr(u.e, u.b)] = a
LEMMA AnswerWhole ==
  ASSUME NEW e, NEW a, NEW x, AnsweredIs(e, a, x), NEW f, EnvOK(f), NEW b, Data(b),
         b.process \in 0 .. Len(b.data), Finished(x, f, b), NEW u, u = UncompressHttpBody(f, b)
  PROVE  Told(f, b, x, u, a)
<1>1. Laid(x) /\ x.role = "client" /\ x.te = 0 /\ x.ce = 0 /\ a = [code |-> x.code, body |-> x.body]
  BY DEF AnsweredIs
<1>2. f.role = x.role /\ f.statuscode = x.code /\ f.encoding = <<>> /\ Len(b.data) = Len(x.w)
  BY <1>1 DEF Finished, Began, Heard
<1>3. Len(b.data) \in Nat /\ b.process = Len(b.data) /\ f.reforming = FALSE
  <2>1. Len(b.data) \in Nat
    BY SeqLen DEF Data
  <2> DEFINE L == Len(b.data)
  <2>2. b.process = L /\ L \in Nat /\ f.reforming = (L > b.process)
    BY <1>1, <1>2, <2>1 DEF Finished
  <2> HIDE DEF L
  <2>3. (L > b.process) = FALSE
    BY <2>2
  <2> QED BY <2>1, <2>2, <2>3 DEF L
<1>4. u = [e |-> f, b |-> b]
  <2>1. <<>> # <<"gzip">>
    OBVIOUS
  <2> QED BY <1>2, <2>1 DEF UncompressHttpBody
<1>5. Holds(b, b)
  BY <1>3 DEF Holds, Unprocessed
<1>6. GetHttpBodyPtr(f, b) = x.body
  BY <1>1, <1>5, BodyIs
<1> QED BY <1>1, <1>2, <1>3, <1>4, <1>6 DEF Told

LEMMA ReceiveResponseTalks == HttpInv /\ Talk /\ ReceiveHttpResponse /\ Uncut' => Talk'
<1> SUFFICES ASSUME HttpInv, Talk, ReceiveHttpResponse, Uncut' PROVE Talk'
  OBVIOUS
<1> DEFINE r == ReceiveHttpBuffer(cli, cli.rsp, toCli)
           s == ParseHttpBuffer(r.e, r.b)
           u == UncompressHttpBody(s.e, s.b)
           x == Answering
           more == Unsent(srv.rsp)
           m == conv[Len(got)]
           a == made[Len(got)]
<1>1. /\ toCli' = r.rest
      /\ \/ /\ s.ret = "more"
            /\ cli' = [s.e EXCEPT !.rsp = s.b]
            /\ UNCHANGED <<cpc, ans>>
         \/ /\ s.ret = "done"
            /\ cli' = [u.e EXCEPT !.rsp = u.b]
            /\ ans' = Append(ans, [code |-> u.e.statuscode, body |-> GetHttpBodyPtr(u.e, u.b)])
            /\ cpc' = "idle"
         \/ /\ s.ret \in {"invalid", "lost"}
            /\ cpc' = "refused"
            /\ UNCHANGED <<cli, ans>>
  BY DEF ReceiveHttpResponse
<1>2. UNCHANGED <<conv, srv, toSrv, spc, got, made>> /\ cpc = "receive" /\ toCli # <<>>
  BY DEF ReceiveHttpResponse
<1>3. /\ EnvOK(cli) /\ Roomy(cli.rsp) /\ IsSeq(toCli) /\ IsSeq(ans) /\ Roomy(srv.rsp)
      /\ cli.step # "DONE" /\ Placed(cli.rsp)
  BY <1>2 DEF HttpInv, EnvRoomy, Waiting
<1>4. /\ Len(ans) # Len(made) /\ Len(made) = Len(got) /\ Onway(x, cli, cli.rsp, toCli \o more)
  BY <1>2 DEF Talk, AnswerTravels, ToClient
<1>5. Len(got) \in Nat /\ Len(ans) \in Nat /\ Len(ans) + 1 = Len(got) /\ got # <<>>
  <2>1. Len(got) \in Nat /\ Len(ans) \in Nat /\ Len(ans) <= Len(made) /\ Len(got) <= Len(ans) + 1
    BY GotLen DEF Talk, Counts
  <2>2. Len(ans) + 1 = Len(got)
    BY <1>4, <2>1
  <2>3. got # <<>>
    <3>1. Len(got) # 0
      BY <2>1, <2>2
    <3> QED BY <3>1
  <2> QED BY <2>1, <2>2, <2>3
<1>6. AnsweredIs(Said(m), a, x)
  BY <1>4, <1>5, AnsweringIs DEF Talk
<1>7. IsSeq(more)
  BY <1>3, UnsentIs
<1> HIDE DEF more, m, a, x
<1>8. Heeds(x, cli, cli.rsp, more, r, s)
  <2>1. Laid(x) /\ IsSeq(x.w)
    BY <1>6 DEF AnsweredIs
  <2> DEFINE e == cli
             b == cli.rsp
             t == toCli
  <2>2. EnvOK(e) /\ e.step # "DONE" /\ Roomy(b) /\ Placed(b) /\ IsSeq(t) /\ Onway(x, e, b, t \o more)
        /\ r = ReceiveHttpBuffer(e, b, t)
    BY <1>3, <1>4
  <2> HIDE DEF e, b, t, r, s
  <2>3. s = ParseHttpBuffer(r.e, r.b)
    BY DEF s
  <2>4. Heeds(x, e, b, more, r, s)
    BY <1>7, <2>1, <2>2, <2>3, Hears
  <2> QED BY <2>4 DEF e, b
<1> HIDE DEF r, s
<1>9. s.ret \in {"more", "done"}
  <2>1. ~Moving(cli, cli.rsp)
    BY <1>4, <1>6, ReadyUnmoved DEF Onway, AnsweredIs
  <2>2. s.ret # "invalid"
    BY <1>6, <1>8 DEF Heeds, AnsweredIs
  <2> QED BY <1>8, <2>1, <2>2 DEF Heeds
<1>10. /\ EnvOK(s.e) /\ s.e.req = cli.req /\ IsSeq(r.rest) /\ Data(s.b) /\ s.b.process \in 0 .. Len(s.b.data)
  BY <1>8 DEF Heeds
<1>11. (Spoilt' <=> Spoilt) /\ Asking' = Asking /\ x' = x /\ more' = more
  BY <1>2, SameAsking, SameAnswering, SameSpoilt DEF x, more, Unsent
<1>12. Unprocessed(cli.req) = 0
  BY <1>2 DEF Talk, ClientTalks
<1>13. spc # "process"
  BY <1>4, <1>5 DEF Talk, ServerAnswers
<1>14. spc = "receive" => \/ Spoilt /\ Stuck(srv, srv.req, ToServer)
                          \/ ~Spoilt /\ Clean("server", srv, srv.req) /\ ToServer = <<>>
  BY <1>5 DEF Talk, ServerReads
<1>15. cli'.req = cli.req => ToServer' = ToServer
  BY <1>2, SameStreams
<1>16. cli'.req = cli.req => (Left <=> Left')
  BY <1>2, <1>11, <1>15 DEF Left
<1>17. CASE s.ret = "more"
  <2>1. cli' = [s.e EXCEPT !.rsp = s.b] /\ UNCHANGED <<cpc, ans>> /\ toCli' = r.rest
    BY <1>1, <1>17
  <2>2. EnvOK(cli') /\ cli'.rsp = s.b /\ cli'.req = s.e.req /\ cli'.step = s.e.step
    <3> DEFINE f == s.e
               b == s.b
    <3>1. EnvOK(f) /\ cli' = [f EXCEPT !.rsp = b]
      BY <1>10, <2>1
    <3> HIDE DEF f, b
    <3>2. EnvOK(cli') /\ cli'.rsp = b /\ cli'.req = f.req /\ cli'.step = f.step
      BY <3>1, ResponseKept
    <3> QED BY <3>2 DEF f, b
  <2>3. ~(Tear(s.e, s.b) /\ Cleft(x, Len(s.b.data)))
    <3>1. Len(ans') # Len(made') /\ Answering' = x
      BY <1>2, <1>4, <1>11, <2>1 DEF x
    <3> QED BY <2>2, <3>1 DEF Uncut, Tear
  <2>4. Onway(x, s.e, s.b, r.rest \o more)
    BY <1>8, <1>17, <2>3 DEF Heeds
  <2>6. Ready(x, cli', s.b.data, s.b.process)
    <3> DEFINE f == s.e
               q == f.req
               b == s.b
               d == b.data
               p == b.process
    <3>1. cli' = [f EXCEPT !.rsp = b] /\ DOMAIN f = EnvFields /\ Ready(x, f, d, p)
      BY <1>10, <2>1, <2>4 DEF EnvOK, Onway
    <3> HIDE DEF f, b, d, p
    <3>2. cli' = [f EXCEPT !.req = q, !.rsp = b]
      BY <3>1 DEF EnvFields
    <3> HIDE DEF q
    <3>3. Ready(x, cli', d, p)
      BY <3>1, <3>2, ReadyStays
    <3> QED BY <3>3 DEF d, p, b
  <2>7. Onway(x', cli', cli'.rsp, ToClient')
    BY <1>11, <2>1, <2>2, <2>4, <2>6 DEF Onway, ToClient, more
  <2>8. Counts'
    BY <1>2, <2>1 DEF Talk, Counts
  <2>9. ClientTalks'
    BY <1>2, <1>10, <1>12, <2>1, <2>2 DEF ClientTalks
  <2>10. AnswerTravels'
    BY <1>2, <1>4, <2>1, <2>7 DEF AnswerTravels, x
  <2>11. ServerReads'
    BY <1>2, <1>4, <1>10, <1>11, <1>14, <1>15, <2>1, <2>2 DEF ServerReads
  <2>12. ServerAnswers'
    BY <1>2, <1>10, <1>13, <1>16, <2>1, <2>2 DEF Talk, ServerAnswers
  <2> QED BY <2>8, <2>9, <2>10, <2>11, <2>12 DEF Talk
<1>18. CASE s.ret = "done"
  <2>1. cli' = [u.e EXCEPT !.rsp = u.b] /\ cpc' = "idle" /\ toCli' = r.rest
        /\ ans' = Append(ans, [code |-> u.e.statuscode, body |-> GetHttpBodyPtr(u.e, u.b)])
    BY <1>1, <1>18
  <2>2. Finished(x, s.e, s.b) /\ r.rest \o more = SubSeq(x.w, Len(s.b.data) + 1, Len(x.w))
    BY <1>8, <1>18 DEF Heeds
  <2>3. /\ u.e = s.e /\ u.b = s.b /\ s.e.role = "client" /\ s.e.reforming = FALSE /\ Len(s.b.data) = Len(x.w)
        /\ [code |-> u.e.statuscode, body |-> GetHttpBodyPtr(u.e, u.b)] = a
    <3> DEFINE f == s.e
               b == s.b
               y == Said(m)
    <3>1. EnvOK(f) /\ Data(b) /\ b.process \in 0 .. Len(b.data) /\ Finished(x, f, b) /\ u = UncompressHttpBody(f, b)
          /\ AnsweredIs(y, a, x)
      BY <1>6, <1>10, <2>2
    <3> HIDE DEF f, b, u, y
    <3>2. Told(f, b, x, u, a)
      BY <3>1, AnswerWhole
    <3> QED BY <3>2 DEF f, b, Told
  <2>4. ans' = Append(ans, a)
    BY <2>1, <2>3
  <2>5. Len(ans') = Len(ans) + 1 /\ ans'[Len(ans) + 1] = a /\ \A k \in 1 .. Len(ans) : ans'[k] = ans[k]
    BY <1>3, <2>4, Appends
  <2>6. cli' = [s.e EXCEPT !.rsp = s.b]
    BY <2>1, <2>3
  <2>7. EnvOK(cli') /\ cli'.rsp = s.b /\ cli'.req = s.e.req /\ cli'.step = s.e.step
    <3> DEFINE f == s.e
               b == s.b
    <3>1. EnvOK(f) /\ cli' = [f EXCEPT !.rsp = b]
      BY <1>10, <2>6
    <3> HIDE DEF f, b
    <3>2. EnvOK(cli') /\ cli'.rsp = b /\ cli'.req = f.req /\ cli'.step = f.step
      BY <3>1, ResponseKept
    <3> QED BY <3>2 DEF f, b
  <2>8. cli'.role = "client" /\ cli'.reforming = FALSE
    BY <1>10, <2>3, <2>6 DEF EnvOK, EnvFields
  <2>9. r.rest = <<>> /\ more = <<>>
    <3> DEFINE W == Len(x.w)
    <3>1. W \in Nat /\ IsSeq(x.w)
      BY <1>6, SeqLen DEF AnsweredIs
    <3>2. Len(SubSeq(x.w, W + 1, W)) = 0
      BY <3>1, Part
    <3>3. Len(r.rest \o more) = 0
      BY <2>2, <2>3, <3>2
    <3>4. Len(r.rest \o more) = Len(r.rest) + Len(more) /\ Len(r.rest) \in Nat /\ Len(more) \in Nat
      BY <1>7, <1>10, Joined, SeqLen
    <3> DEFINE A == Len(r.rest)
               B == Len(more)
               C == Len(r.rest \o more)
    <3>5. C = 0 /\ C = A + B /\ A \in Nat /\ B \in Nat
      BY <3>3, <3>4
    <3> HIDE DEF A, B, C
    <3>6. A = 0 /\ B = 0
      BY <3>5
    <3> QED BY <1>7, <1>10, <3>6, IsNone DEF A, B
  <2>10. spc # "send"
    <3>1. ~(Unprocessed(srv.rsp) > 0)
      BY <1>3, <2>9, UnsentIs DEF more
    <3> QED BY <3>1 DEF Talk, ServerAnswers
  <2>11. Counts'
    <3> DEFINE n == Len(got)
               l == Len(ans)
    <3>1. /\ n <= Len(conv) /\ Len(made) = n /\ n \in Nat /\ l \in Nat /\ l + 1 = n /\ Len(ans') = l + 1
          /\ ans'[l + 1] = made[n]
          /\ \A k \in 1 .. l : ans'[k] = made[k]
      BY <1>4, <1>5, <2>5 DEF Talk, Counts, a
    <3> HIDE DEF n, l
    <3>2. Len(ans') <= Len(made) /\ n <= Len(ans') + 1 /\ Len(made) <= n
      BY <3>1
    <3>3. \A k \in 1 .. Len(ans') : ans'[k] = made[k]
      BY <3>1
    <3> QED BY <1>2, <3>1, <3>2, <3>3 DEF Talk, Counts, n
  <2>12. ClientTalks'
    BY <1>2, <1>4, <1>5, <1>10, <1>12, <2>1, <2>5, <2>7, <2>8 DEF ClientTalks
  <2>13. AnswerTravels'
    BY <1>2, <1>4, <1>5, <2>1, <2>5, <2>9 DEF AnswerTravels
  <2>14. ServerReads'
    BY <1>2, <1>4, <1>10, <1>11, <1>14, <1>15, <2>7 DEF ServerReads
  <2>15. ServerAnswers'
    BY <1>2, <1>13, <2>10 DEF ServerAnswers
  <2> QED BY <2>11, <2>12, <2>13, <2>14, <2>15 DEF Talk
<1> QED BY <1>9, <1>17, <1>18

LEMMA ReplyOf ==
  ASSUME NEW e, NEW f, e.version = f.version, e.keepalive = f.keepalive, NEW a
  PROVE  Reply(e, a) = Reply(f, a)
<1>1. CheckHttpKeepAlive(e) <=> CheckHttpKeepAlive(f)
  BY DEF CheckHttpKeepAlive
<1>2. StartLine(e, a.code) = StartLine(f, a.code)
  BY <1>1 DEF StartLine
<1> QED BY <1>2 DEF Reply

LEMMA Formatted ==
  ASSUME NEW e, Roomy(e.rsp), NEW a, IsSeq(a.body), NEW b, b = FormatHttpResponse(e, a)
  PROVE  b.data = Reply(e, a) /\ b.process = e.rsp.process
<1> DEFINE rest == Field("Content-Type", <<"json">>, CrLf) \o Length(a.body) \o CrLf \o a.body
           line == StartLine(e, a.code)
           c == StrcpyfHttpBuffer(e.rsp, line)
<1>1. b = StrcatfHttpBuffer(c, rest) /\ Reply(e, a) = line \o rest
  BY DEF FormatHttpResponse, Reply
<1> HIDE DEF rest, line
<1>2. DOMAIN c = {"data", "process", "size"} /\ c.data = line /\ c.process = e.rsp.process
  BY DEF StrcpyfHttpBuffer, Roomy, Data
<1> HIDE DEF c
<1>3. b.data = line \o rest /\ b.process = c.process
  BY <1>1, <1>2 DEF StrcatfHttpBuffer
<1> QED BY <1>1, <1>2, <1>3

LEMMA UnsentAll ==
  ASSUME NEW b, IsSeq(b.data), b.process = 0
  PROVE  Unsent(b) = b.data /\ Unprocessed(b) = Len(b.data)
<1>1. PICK S : b.data \in Seq(S)
  BY DEF IsSeq
<1> DEFINE d == b.data
           p == b.process
<1>2. Unsent(b) = SubSeq(d, p + 1, Len(d)) /\ Unprocessed(b) = Len(d) - p /\ d \in Seq(S) /\ p = 0
  BY <1>1 DEF Unsent, Unprocessed
<1> HIDE DEF d, p
<1>3. SubSeq(d, 1, Len(d)) = d /\ p + 1 = 1 /\ Len(d) - p = Len(d)
  BY <1>2
<1>4. Unsent(b) = d /\ Unprocessed(b) = Len(d)
  BY <1>2, <1>3
<1> QED BY <1>4 DEF d

LEMMA LaidLong == ASSUME NEW x, Laid(x), x.te = 0 PROVE Len(x.w) > 0
<1> DEFINE h == x.h[x.n]
           B == Len(x.body)
           W == Len(x.w)
<1>1. h \in Nat /\ h >= 7 /\ x.eol \in {1, 2} /\ x.base = h + x.eol /\ B \in Nat /\ W = x.base + B
  <2>1. x.n \in 0 .. x.n
    BY DEF Laid
  <2>2. h \in Nat /\ h >= 7
    BY <2>1 DEF Laid
  <2>3. B \in Nat
    BY SeqLen DEF Laid, IsSeq
  <2> QED BY <2>2, <2>3 DEF Laid, Follows
<1> HIDE DEF h, B, W
<1>2. W > 0
  BY <1>1
<1> QED BY <1>2 DEF W

LEMMA NothingYet ==
  ASSUME NEW x, IsSeq(x.w), NEW e, NEW b, Clean(x.role, e, b)
  PROVE  Onway(x, e, b, x.w)
<1>1. Ready(x, e, <<>>, 0)
  <2>1. Exact(x, <<>>)
    BY DEF Exact
  <2>2. Len(<<>>) = 0 /\ Len(x.w) \in Nat
    BY SeqLen
  <2> QED BY <2>1, <2>2 DEF Ready, Clean
<1>2. x.w = SubSeq(x.w, 0 + 1, Len(x.w))
  <2> DEFINE w == x.w
  <2>1. PICK S : w \in Seq(S)
    BY DEF IsSeq
  <2> HIDE DEF w
  <2>2. w = SubSeq(w, 0 + 1, Len(w))
    BY <2>1
  <2> QED BY <2>2 DEF w
<1>3. Len(<<>>) = 0
  OBVIOUS
<1> QED BY <1>1, <1>2, <1>3 DEF Onway, Clean

LEMMA ProcessTalks == HttpInv /\ Talk /\ Process => Talk'
<1> SUFFICES ASSUME HttpInv, Talk, Process PROVE Talk'
  OBVIOUS
<1> DEFINE a == Answers[((Len(got) - 1) % Len(Answers)) + 1]
           b == FormatHttpResponse(srv, a)
           c == a.code
           m == conv[Len(got)]
           y == Said(m)
           x == AnswerText(y, a)
<1>1. UNCHANGED <<conv, cli, toSrv, toCli, cpc, got, ans>> /\ spc = "process"
  BY DEF Process
<1>2. /\ Len(got) = Len(ans) + 1 /\ Left /\ Len(made) = Len(ans) /\ Clean("client", cli, cli.rsp)
      /\ srv.version = m.version /\ srv.keepalive = Connection(<<m.keep>>)
  BY <1>1 DEF Talk, ServerAnswers
<1>3. Len(got) \in Nat /\ Len(ans) \in Nat /\ Len(got) \in 1 .. Len(conv) /\ conv \in Conversations
  <2>1. Len(got) \in Nat /\ Len(ans) \in Nat /\ Len(got) <= Len(conv) /\ Len(conv) \in Nat /\ conv \in Conversations
    BY GotLen DEF Talk, Counts
  <2> QED BY <1>2, <2>1
<1>4. Proper(m)
  BY <1>3, AskedProper
<1>5. srv.version \in Versions
  BY <1>2, <1>4 DEF Proper
<1>6. srv.version # ""
  BY <1>5, Zenon DEF Versions
<1>7. srv' = [srv EXCEPT !.rsp = b, !.statuscode = c] /\ made' = Append(made, a) /\ spc' = "send"
  BY <1>6, Zenon DEF Process
<1>8. Pick(a)
  <2>1. ((Len(got) - 1) % Len(Answers)) + 1 \in 1 .. Len(Answers)
    BY <1>3, HttpAssumption
  <2> QED BY <2>1 DEF Pick
<1>9. EnvOK(srv) /\ Roomy(srv.rsp) /\ srv.rsp.process = 0 /\ IsSeq(toCli)
  BY <1>1 DEF HttpInv, EnvRoomy
<1>10. y.version = srv.version /\ y.keepalive = srv.keepalive
  BY <1>2, SaidIs
<1> HIDE DEF a, m, y, x
<1>11. AnsweredIs(y, a, x)
  BY <1>5, <1>8, <1>10, AnswerIs DEF x
<1>12. x.w = Reply(srv, a) /\ IsSeq(a.body)
  <2>1. Reply(srv, a) = Reply(y, a)
    BY <1>10, ReplyOf
  <2>2. a.body = x.body /\ IsSeq(x.body)
    BY <1>11 DEF AnsweredIs, Laid, IsSeq
  <2> QED BY <1>11, <2>1, <2>2 DEF AnsweredIs
<1>13. b.data = x.w /\ b.process = 0
  <2> HIDE DEF b
  <2> QED BY <1>9, <1>12, Formatted DEF b
<1> HIDE DEF b, c
<1>14. srv'.rsp = b /\ srv'.req = srv.req /\ srv'.role = srv.role /\ srv'.reforming = srv.reforming
  BY <1>7, <1>9 DEF EnvOK, EnvFields
<1>15. Unsent(b) = x.w /\ Unprocessed(b) > 0
  <2>1. IsSeq(x.w) /\ Len(x.w) > 0
    BY <1>11, LaidLong DEF AnsweredIs
  <2> QED BY <1>13, <2>1, UnsentAll
<1>16. toCli = <<>>
  BY <1>2 DEF Talk, AnswerTravels
<1>17. ToClient' = x.w
  <2>1. ToClient' = <<>> \o x.w
    BY <1>1, <1>14, <1>15, <1>16 DEF ToClient
  <2> QED BY <1>11, <2>1, JoinEmpty DEF AnsweredIs
<1>18. Onway(x, cli, cli.rsp, x.w)
  BY <1>2, <1>11, NothingYet DEF AnsweredIs
<1>19. IsSeq(made)
  BY DEF Talk, Counts, IsSeq
<1>20. Len(made') = Len(made) + 1 /\ made'[Len(made) + 1] = a /\ \A k \in 1 .. Len(made) : made'[k] = made[k]
  BY <1>7, <1>19, Appends
<1>21. Answering' = x
  <2>1. made'[Len(got)] = a
    BY <1>2, <1>20
  <2> QED BY <1>1, <2>1 DEF Answering, x, y, m
<1>22. Counts'
  <2>1. made' \in Seq({Answers[k] : k \in 1 .. Len(Answers)})
    <3> DEFINE T == {Answers[k] : k \in 1 .. Len(Answers)}
    <3>1. made \in Seq(T) /\ a \in T
      BY <1>8 DEF Talk, Counts, Pick
    <3> HIDE DEF T
    <3>2. made' \in Seq(T)
      BY <1>7, <3>1, AppendProperties
    <3> QED BY <3>2 DEF T
  <2>2. \A i \in 1 .. Len(ans) : ans[i] = made'[i]
    BY <1>2, <1>20 DEF Talk, Counts
  <2>3. Len(made') = Len(got)
    BY <1>2, <1>20
  <2>4. Len(ans) <= Len(got) /\ Len(got) <= Len(got)
    BY <1>2, <1>3
  <2> QED BY <1>1, <2>1, <2>2, <2>3, <2>4 DEF Talk, Counts
<1>23. ClientTalks'
  <2>1. cpc # "idle"
    BY <1>2, <1>3 DEF Talk, ClientTalks
  <2> QED BY <1>1, <2>1 DEF Talk, ClientTalks
<1>24. AnswerTravels'
  <2>1. Len(made') = Len(got) /\ Len(made') # Len(ans)
    BY <1>2, <1>3, <1>20
  <2> QED BY <1>1, <1>17, <1>18, <1>21, <2>1 DEF AnswerTravels
<1>25. ServerReads'
  BY <1>7 DEF ServerReads
<1>26. ServerAnswers'
  <2>1. Len(made') = Len(got)
    BY <1>2, <1>3, <1>20
  <2>2. ToServer' = ToServer /\ (Spoilt' <=> Spoilt)
    BY <1>1, SameStreams, SameSpoilt
  <2>3. Left'
    BY <1>2, <1>14, <2>2 DEF Left
  <2> QED BY <1>1, <1>2, <1>7, <1>14, <1>15, <2>1, <2>3 DEF ServerAnswers
<1> QED BY <1>22, <1>23, <1>24, <1>25, <1>26 DEF Talk

(* What is left in the buffer of a request is the start of the next.       *)
LEMMA ResetKeeps ==
  ASSUME NEW e, EnvRoomy(e), NEW role, e.role = role, e.reforming, Unprocessed(e.req) > 0,
         NEW f, f = ResetHttpEnv(e)
  PROVE  /\ f.role = role /\ f.moved = FALSE /\ f.chunk_end = 0 /\ f.step = "BEGIN"
         /\ f.req.data = Unsent(e.req) /\ f.req.process = 0
<1> DEFINE c == CreateHttpEnv(role)
           q == ReformingHttpBuffer(e.req)
           r == ResetHttpBuffer(e.rsp, RspMax)
           m == e.reforming /\ ~(e.reforming /\ Unprocessed(e.req) > 0)
                /\ ~(e.reforming /\ Unprocessed(e.rsp) > 0)
<1>1. f = [c EXCEPT !.req = q, !.rsp = r, !.reforming = m]
  BY Zenon DEF ResetHttpEnv
<1>2. DOMAIN c = EnvFields /\ c.role = role /\ c.moved = FALSE /\ c.chunk_end = 0 /\ c.step = "BEGIN"
  BY Zenon DEF CreateHttpEnv, EnvFields
<1>3. q.data = Unsent(e.req) /\ q.process = 0
  BY DEF ReformingHttpBuffer, Unsent, EnvRoomy, Roomy, Data
<1> HIDE DEF c, q, r, m
<1>4. f.req = q /\ f.role = role /\ f.moved = FALSE /\ f.chunk_end = 0 /\ f.step = "BEGIN"
  BY <1>1, <1>2 DEF EnvFields
<1> QED BY <1>3, <1>4

LEMMA ResetSent ==
  ASSUME NEW e, EnvRoomy(e), Unprocessed(e.rsp) = 0
  PROVE  ResetHttpEnv(e).rsp.data = <<>> /\ ResetHttpEnv(e).rsp.process = 0
<1> DEFINE c == CreateHttpEnv(e.role)
           q == IF e.reforming /\ Unprocessed(e.req) > 0 THEN ReformingHttpBuffer(e.req)
                ELSE ResetHttpBuffer(e.req, ReqMax)
           r == ResetHttpBuffer(e.rsp, RspMax)
           m == e.reforming /\ ~(e.reforming /\ Unprocessed(e.req) > 0)
                /\ ~(e.reforming /\ Unprocessed(e.rsp) > 0)
           f == ResetHttpEnv(e)
<1>1. ~(Unprocessed(e.rsp) > 0)
  OBVIOUS
<1>2. f = [c EXCEPT !.req = q, !.rsp = r, !.reforming = m]
  BY <1>1, Zenon DEF ResetHttpEnv
<1>3. DOMAIN c = EnvFields
  BY Zenon DEF CreateHttpEnv, EnvFields
<1>4. r.data = <<>> /\ r.process = 0
  BY DEF ResetHttpBuffer, InitHttpBuffer
<1> HIDE DEF c, q, r, m, f
<1>5. f.rsp = r
  BY <1>2, <1>3 DEF EnvFields
<1> QED BY <1>4, <1>5 DEF f

LEMMA SendResponseTalks == HttpInv /\ Talk /\ SendHttpResponseNonblock => Talk'
<1> SUFFICES ASSUME HttpInv, Talk, SendHttpResponseNonblock PROVE Talk'
  OBVIOUS
<1>1. PICK k \in Sendable(srv.rsp) :
        LET e == [srv EXCEPT !.rsp = SendHttpBuffer(@, k)]
            whole == k = Unprocessed(srv.rsp)
        IN  /\ toCli' = toCli \o Sent(srv.rsp, k)
            /\ srv' = IF whole THEN ResetHttpEnv(e) ELSE e
            /\ spc' = IF whole THEN "receive" ELSE "send"
  BY DEF SendHttpResponseNonblock
<1> DEFINE b == SendHttpBuffer(srv.rsp, k)
           e == [srv EXCEPT !.rsp = b]
           u == Sent(srv.rsp, k)
           v == Unsent(b)
<1>2. UNCHANGED <<conv, cli, toSrv, cpc, got, made, ans>> /\ spc = "send"
  BY DEF SendHttpResponseNonblock
<1>3. /\ Len(got) = Len(ans) + 1 /\ Left /\ Len(made) = Len(got) /\ Unprocessed(srv.rsp) > 0
  BY <1>2 DEF Talk, ServerAnswers
<1>4. EnvRoomy(srv) /\ EnvOK(srv) /\ Roomy(srv.rsp) /\ IsSeq(toCli)
  BY DEF HttpInv, EnvRoomy
<1>5. u \o v = Unsent(srv.rsp) /\ b.data = srv.rsp.data /\ Unprocessed(b) = Unprocessed(srv.rsp) - k
  <2> HIDE DEF b
  <2> QED BY <1>4, SendsOn DEF b
<1>6. Roomy(b) /\ IsSeq(u) /\ k \in Nat /\ k <= Unprocessed(srv.rsp) /\ Unprocessed(srv.rsp) \in Int
  <2>1. k \in Nat /\ k <= Unprocessed(srv.rsp) /\ Unprocessed(srv.rsp) \in Int
    BY <1>4, RoomyLen DEF Sendable, Roomy, Unprocessed
  <2> QED BY <1>4, <2>1, SendRoomy
<1>7. toCli' = toCli \o u
  BY <1>1
<1>8. srv' = IF k = Unprocessed(srv.rsp) THEN ResetHttpEnv(e) ELSE e
  BY <1>1
<1>9. spc' = IF k = Unprocessed(srv.rsp) THEN "receive" ELSE "send"
  BY <1>1
<1>10. IsSeq(v) /\ (Unprocessed(b) <= 0 => v = <<>>)
  BY <1>6, UnsentIs
<1> HIDE DEF b, u, v
<1>11. /\ EnvRoomy(e) /\ e.rsp = b /\ e.req = srv.req /\ e.role = srv.role /\ e.reforming = srv.reforming
  BY <1>4, <1>6 DEF EnvRoomy, EnvOK, EnvFields
<1> HIDE DEF e
<1>12. ToServer' = ToServer /\ (Spoilt' <=> Spoilt) /\ Answering' = Answering
  BY <1>2, SameStreams, SameSpoilt, SameAnswering
<1>13. (toCli \o u) \o v = ToClient
  <2> DEFINE t == toCli
  <2>1. IsSeq(t) /\ IsSeq(u) /\ IsSeq(v)
    BY <1>4, <1>6, <1>10
  <2> HIDE DEF t
  <2>2. (t \o u) \o v = t \o (u \o v)
    <3>1. Associate(t, u, v)
      BY <2>1, Associative
    <3> QED BY Zenon, <3>1 DEF Associate
  <2> QED BY <1>5, <2>2 DEF t, ToClient
<1>14. Counts' /\ ClientTalks'
  BY <1>2 DEF Talk, Counts, ClientTalks
<1>15. toCli' \o v = ToClient
  BY <1>7, <1>13
<1>16. AnswerTravels /\ Len(ans) # Len(made) /\ Onway(Answering, cli, cli.rsp, ToClient)
  BY <1>3, GotLen DEF Talk, AnswerTravels
<1>17. ToClient' = ToClient => AnswerTravels'
  BY <1>2, <1>3, <1>12, <1>16 DEF AnswerTravels
<1>18. CASE k = Unprocessed(srv.rsp)
  <2>1. srv' = ResetHttpEnv(e) /\ spc' = "receive"
    BY <1>8, <1>9, <1>18
  <2>2. Unprocessed(b) = 0 /\ v = <<>>
    BY <1>5, <1>6, <1>10, <1>18
  <2>3. srv'.rsp.data = <<>> /\ srv'.rsp.process = 0
    BY <1>11, <2>1, <2>2, ResetSent
  <2>4. ToClient' = ToClient
    <3>1. IsSeq(<<>>)
      BY Tuples
    <3> DEFINE c == srv'.rsp
    <3>2. c.data = <<>> /\ c.process = 0 /\ IsSeq(c.data)
      BY <2>3, <3>1
    <3> HIDE DEF c
    <3>3. Unsent(c) = <<>>
      BY <3>2, UnsentAll
    <3>4. Unsent(srv'.rsp) = <<>>
      BY <3>3 DEF c
    <3>5. ToClient' = toCli' \o <<>>
      BY <3>4 DEF ToClient
    <3> QED BY <1>15, <2>2, <3>5
  <2>5. ServerReads'
    <3> SUFFICES \/ Spoilt /\ Stuck(srv', srv'.req, ToServer)
                 \/ ~Spoilt /\ Clean("server", srv', srv'.req) /\ ToServer = <<>>
      BY <1>2, <1>3, <1>12 DEF ServerReads
    <3> DEFINE role == "server"
               f == srv'
    <3>1. e.role = role /\ f = ResetHttpEnv(e)
      BY <1>3, <1>11, <2>1 DEF Left
    <3> HIDE DEF role, f
    <3>2. CASE srv.reforming = FALSE
      <4>1. e.reforming = FALSE
        BY <1>11, <3>2
      <4>2. New(role, f) /\ f.req.data = <<>> /\ f.req.process = 0
        BY <3>1, <4>1, ResetNew
      <4>3. CASE ~Spoilt
        BY <1>3, <4>2, <4>3 DEF Left, Clean, f, role
      <4>4. CASE Spoilt
        <5>1. ToServer = <<"lf">>
          BY <1>3, <3>2, <4>4 DEF Left
        <5>2. f.role = role /\ f.moved = FALSE /\ f.chunk_end = 0 /\ f.step = "BEGIN"
          BY <4>2, NewIs
        <5>3. f.req.data \o ToServer = <<"lf">>
          <6>1. <<>> \o <<"lf">> = <<"lf">>
            OBVIOUS
          <6> QED BY <4>2, <5>1, <6>1
        <5>4. Foul(<<"lf">>)
          BY DEF Foul
        <5>5. Stuck(f, f.req, ToServer)
          BY <4>2, <5>2, <5>3, <5>4 DEF Stuck, role
        <5> QED BY <4>4, <5>5 DEF f
      <4> QED BY <4>3, <4>4
    <3>3. CASE srv.reforming # FALSE
      <4>1. /\ Spoilt /\ srv.reforming = TRUE /\ ToServer = <<>>
            /\ Unprocessed(srv.req) = 1 /\ srv.req.data[srv.req.process + 1] = "nul"
        BY <1>3, <3>3 DEF Left
      <4>2. e.reforming /\ Unprocessed(e.req) > 0
        BY <1>11, <4>1
      <4>3. /\ f.role = role /\ f.moved = FALSE /\ f.chunk_end = 0 /\ f.step = "BEGIN"
            /\ f.req.data = Unsent(e.req) /\ f.req.process = 0
        <5>1. EnvRoomy(e) /\ e.role = role /\ e.reforming /\ Unprocessed(e.req) > 0 /\ f = ResetHttpEnv(e)
          BY <1>11, <3>1, <4>2
        <5> HIDE DEF f
        <5> QED BY Zenon, <5>1, ResetKeeps
      <4>4. Unsent(e.req) = <<"nul">>
        <5> DEFINE q == srv.req
                   d == q.data
                   p == q.process
                   n == Len(d)
        <5>1. p \in Nat /\ n \in Nat /\ n - p = 1 /\ d[p + 1] = "nul" /\ IsSeq(d)
          BY <1>4, <4>1, RoomyLen DEF EnvRoomy, Roomy, Data, Unprocessed
        <5>2. Unsent(e.req) = SubSeq(d, p + 1, n)
          BY <1>11 DEF Unsent
        <5> DEFINE i == p + 1
                   l == 1
        <5>3. i \in Nat /\ i >= 1 /\ n <= Len(d) /\ l \in Nat /\ l = (IF i <= n THEN n - i + 1 ELSE 0) /\ i + 1 - 1 = i
          <6>1. n = Len(d)
            OBVIOUS
          <6> HIDE DEF n, p, d, q
          <6> QED BY <5>1, <6>1
        <5> HIDE DEF i, l, n, d, p, q
        <5>4. Slice(d, i, n, l)
          BY <5>1, <5>3, PartOf
        <5>5. LET z == SubSeq(d, i, n) IN IsSeq(z) /\ Len(z) = 1 /\ z[1] = "nul"
          BY <5>1, <5>3, <5>4 DEF Slice, l, i
        <5>6. SubSeq(d, i, n) = <<"nul">>
          <6> DEFINE z == SubSeq(d, i, n)
                     y == <<"nul">>
          <6>1. IsSeq(z) /\ Len(z) = 1 /\ z[1] = "nul"
            BY <5>5
          <6>2. IsSeq(y) /\ Len(y) = 1 /\ y[1] = "nul"
            BY Tuples
          <6> HIDE DEF z, y
          <6>3. \A j \in 1 .. Len(z) : z[j] = y[j]
            BY <6>1, <6>2
          <6>4. z = y
            BY <6>1, <6>2, <6>3, SameSeq
          <6> QED BY <6>4 DEF z, y
        <5> QED BY <5>2, <5>6 DEF i
      <4>5. f.req.data \o ToServer = <<"nul">>
        <5>1. <<"nul">> \o <<>> = <<"nul">>
          OBVIOUS
        <5> QED BY <4>1, <4>3, <4>4, <5>1
      <4>6. Foul(<<"nul">>)
        BY DEF Foul
      <4>7. Stuck(f, f.req, ToServer)
        BY <4>3, <4>5, <4>6 DEF Stuck, role
      <4> QED BY <4>1, <4>7 DEF f
    <3> QED BY <3>2, <3>3
  <2>6. ServerAnswers'
    BY <2>1 DEF ServerAnswers
  <2> QED BY <1>14, <1>17, <2>4, <2>5, <2>6 DEF Talk
<1>19. CASE k # Unprocessed(srv.rsp)
  <2>1. srv' = e /\ spc' = "send"
    BY <1>8, <1>9, <1>19
  <2>2. ToClient' = ToClient
    BY <1>11, <1>15, <2>1 DEF ToClient, v
  <2>3. ServerReads'
    BY <2>1 DEF ServerReads
  <2>4. Left'
    BY <1>3, <1>11, <1>12, <2>1 DEF Left
  <2>5. Unprocessed(b) > 0
    BY <1>5, <1>6, <1>19
  <2>6. ServerAnswers'
    BY <1>2, <1>3, <1>11, <2>1, <2>4, <2>5 DEF ServerAnswers
  <2> QED BY <1>14, <1>17, <2>2, <2>3, <2>6 DEF Talk
<1> QED BY <1>18, <1>19

(* What a parser makes of the line that ended the last request and nobody   *)
(* skipped: it waits, or refuses.                                          *)
Bogged(e, d, p) ==
  /\ e.moved = FALSE /\ e.role = "server" /\ e.chunk_end = 0
  /\ \/ e.step = "METHOD0" /\ p = 0
     \/ e.step = "METHOD" /\ p >= 1 /\ e.offset = 0 /\ d # <<>> /\ d[1] = "nul"
Sinks(d, s) ==
  /\ s.b.data = d /\ s.ret # "done"
  /\ s.ret = "run" => Bogged(s.e, d, s.p)
  /\ s.ret = "more" => Bogged(s.e, d, s.b.process)
Grim(d) == IsSeq(d) /\ (d = <<>> \/ Foul(d))

LEMMA ScanStops ==
  ASSUME NEW s, Fill(s) \in Nat, s.p \in 0 .. Fill(s), NEW stops
  PROVE  Scan(s, stops) = Fill(s) \/ At(s, Scan(s, stops)) \in stops
<1> DEFINE S == {q \in s.p .. Fill(s) : q = Fill(s) \/ At(s, q) \in stops}
<1>1. Fill(s) \in S /\ S \subseteq Nat
  OBVIOUS
<1>2. Min(S) \in S
  <2> HIDE DEF S
  <2> QED BY <1>1, LeastOf
<1> QED BY <1>2 DEF Scan

LEMMA MoreSinks ==
  ASSUME NEW o, NEW i, NEW s, Going(o, i, s), NEW q, NEW d, s.b.data = d, Bogged(s.e, d, q)
  PROVE  Sinks(d, More(s, q))
<1> DEFINE t == More(s, q)
<1>1. t.e = s.e /\ t.b.data = s.b.data /\ t.b.process = q /\ t.ret = "more"
  BY DEF More, Going, Same, Data
<1> HIDE DEF t
<1>2. Sinks(d, t)
  BY <1>1 DEF Sinks
<1> QED BY <1>2 DEF t

LEMMA InvalidSinks ==
  ASSUME NEW o, NEW i, NEW s, Going(o, i, s), NEW d, s.b.data = d
  PROVE  Sinks(d, Invalid(s))
<1> DEFINE t == Invalid(s)
<1>1. t.b = s.b /\ t.ret = "invalid"
  BY DEF Invalid, Going, Same
<1> HIDE DEF t
<1>2. Sinks(d, t)
  BY <1>1 DEF Sinks
<1> QED BY <1>2 DEF t

LEMMA FoulLen == ASSUME NEW d, IsSeq(d), Foul(d) PROVE Len(d) \in Nat /\ Len(d) >= 1 /\ (d[1] = "lf" \/ d[1] = "nul")
<1>1. Len(d) # 0 /\ Len(d) \in Nat
  BY IsNone, SeqLen DEF Foul
<1> QED BY <1>1 DEF Foul

LEMMA METHOD0Sinks ==
  ASSUME NEW o, NEW i, NEW s, Going(o, i, s), NEW d, Grim(d), s.b.data = d, Bogged(s.e, d, s.p),
         s.e.step = "METHOD0"
  PROVE  Sinks(d, METHOD0(s))
<1> DEFINE q == Blanks(s)
           z == At(s, q)
           e == [s.e EXCEPT !.offset = q, !.step = "METHOD"]
           n == q + 1
           t == [s EXCEPT !.p = n, !.e = e]
<1>1. Fill(s) \in Nat /\ Fill(s) = Len(d) /\ s.p = 0 /\ DOMAIN s.e = EnvFields
      /\ DOMAIN s = {"e", "b", "p", "ret"} /\ s.ret = "run"
  BY Place DEF Bogged, Fill, Going, Same, EnvOK
<1>2. CASE d = <<>>
  <2>1. q = 0 /\ Fill(s) = 0
    <3>1. Fill(s) = 0
      BY <1>1, <1>2
    <3>2. q \in s.p .. Fill(s)
      BY <1>1, BlanksIn
    <3> QED BY <1>1, <3>1, <3>2
  <2>2. METHOD0(s) = More(s, q)
    BY <2>1 DEF METHOD0, Before, Word
  <2>3. Bogged(s.e, d, q)
    BY <1>1, <2>1
  <2> HIDE DEF q
  <2> QED BY <2>2, <2>3, MoreSinks
<1>3. CASE d # <<>>
  <2>1. Foul(d) /\ IsSeq(d)
    BY <1>3 DEF Grim
  <2>2. Len(d) \in Nat /\ Len(d) >= 1 /\ (d[1] = "lf" \/ d[1] = "nul")
    BY <2>1, FoulLen
  <2>3. q = 0
    <3> DEFINE r == 0
    <3>1. r \in Nat /\ r >= s.p /\ (r < Fill(s) => At(s, r) # "sp")
          /\ \A k \in s.p .. r - 1 : k < Fill(s) => At(s, k) = "sp"
      BY <1>1, <2>2 DEF At
    <3> HIDE DEF r
    <3>2. Blanks(s) = IF r < Fill(s) THEN r ELSE Fill(s)
      BY <1>1, <3>1, BlanksTo
    <3>3. r < Fill(s)
      BY <1>1, <2>2 DEF r
    <3> QED BY <3>2, <3>3 DEF r
  <2>4. z = d[1] /\ q # Fill(s) /\ n = 1
    BY <1>1, <2>2, <2>3 DEF At
  <2>5. METHOD0(s) = IF z = "lf" THEN Invalid(s) ELSE t
    BY <2>4 DEF METHOD0, Before, Word
  <2>6. CASE z = "lf"
    BY <2>5, <2>6, InvalidSinks
  <2>7. CASE z # "lf"
    <3>1. METHOD0(s) = t /\ d[1] = "nul"
      BY <2>2, <2>4, <2>5, <2>7
    <3> HIDE DEF q
    <3>2. /\ e.moved = s.e.moved /\ e.role = s.e.role /\ e.chunk_end = s.e.chunk_end
          /\ e.step = "METHOD" /\ e.offset = 0
      BY <1>1, <2>3 DEF EnvFields
    <3>3. Bogged(e, d, n)
      <4> HIDE DEF e, n
      <4> QED BY <1>3, <2>4, <3>1, <3>2 DEF Bogged
    <3> HIDE DEF e, n
    <3>4. t.e = e /\ t.p = n /\ t.ret = "run" /\ t.b = s.b
      BY <1>1
    <3> HIDE DEF t
    <3>5. Sinks(d, t)
      BY <3>3, <3>4 DEF Sinks
    <3> QED BY <3>1, <3>5
  <2> QED BY <2>6, <2>7
<1> QED BY <1>2, <1>3

LEMMA METHODSinks ==
  ASSUME NEW o, NEW i, NEW s, Going(o, i, s), NEW d, Grim(d), s.b.data = d, Bogged(s.e, d, s.p),
         s.e.step = "METHOD"
  PROVE  Sinks(d, METHOD(s))
<1> DEFINE stops == {"sp", "lf"}
           q == Scan(s, stops)
           w == Read(s, q)
<1>1. Fill(s) \in Nat /\ Fill(s) = Len(d) /\ s.p \in 0 .. Fill(s) /\ s.p >= 1 /\ s.e.offset = 0
      /\ d # <<>> /\ d[1] = "nul"
  BY Place DEF Bogged, Fill
<1>2. q \in s.p .. Fill(s) /\ (q = Fill(s) \/ At(s, q) \in stops)
  <2> HIDE DEF stops
  <2> QED BY <1>1, ScanIn, ScanStops
<1> HIDE DEF q
<1>3. q \in Nat /\ q >= 1 /\ q <= Fill(s)
  BY <1>1, <1>2
<1>4. CASE q = Fill(s)
  <2>1. METHOD(s) = More(s, q)
    BY <1>4 DEF METHOD, Word, q
  <2>2. Bogged(s.e, d, q)
    BY <1>3 DEF Bogged
  <2> QED BY <2>1, <2>2, MoreSinks
<1>5. CASE q # Fill(s)
  <2>1. q # 1
    <3> SUFFICES ASSUME q = 1 PROVE FALSE
      OBVIOUS
    <3>1. Len(d) >= 2
      BY <1>1, <1>3, <1>5
    <3>2. At(s, q) = d[2]
      <4>1. q + 1 = 2
        OBVIOUS
      <4> QED BY <4>1 DEF At
    <3>3. Foul(d)
      BY <1>1 DEF Grim
    <3> QED BY <1>1, <1>2, <1>5, <3>1, <3>2, <3>3 DEF Foul
  <2>2. Len(w) = q
    <3> DEFINE a == 1
    <3>1. w = SubSeq(d, a, q)
      <4>1. s.e.offset + 1 = 1
        BY <1>1
      <4> QED BY <4>1 DEF Read
    <3>2. a \in Int /\ q \in Int /\ (IF a <= q THEN q - a + 1 ELSE 0) = q
      BY <1>3
    <3> HIDE DEF a, w
    <3> QED BY <3>1, <3>2, Part
  <2> HIDE DEF w
  <2>3. METHOD(s) = Invalid(s)
    BY <1>5, <2>1, <2>2 DEF METHOD, Word, q, w
  <2> QED BY <2>3, InvalidSinks
<1> QED BY <1>4, <1>5

LEMMA TurnSinks ==
  ASSUME NEW o, NEW i \in Nat, NEW s, Parsed(o, i, s), NEW d, Grim(d), Sinks(d, s)
  PROVE  Sinks(d, Turn(s))
<1>1. CASE s.ret # "run"
  BY <1>1 DEF Turn
<1>2. CASE s.ret = "run"
  <2>1. Bogged(s.e, d, s.p) /\ s.b.data = d
    BY <1>2 DEF Sinks
  <2>2. Going(o, i, s)
    BY <1>2, <2>1 DEF Parsed, Going, Goes, Same, Bogged
  <2>3. s.e.step \in {"METHOD0", "METHOD"} /\ Turn(s) = ParseStep(s)
    BY <1>2, <2>1 DEF Bogged, Turn
  <2>4. CASE s.e.step = "METHOD0"
    <3>1. ParseStep(s) = METHOD0(s)
      BY <2>4 DEF ParseStep
    <3> QED BY <2>1, <2>2, <2>3, <2>4, <3>1, METHOD0Sinks
  <2>5. CASE s.e.step = "METHOD"
    <3>1. ParseStep(s) = METHOD(s)
      BY <2>5 DEF ParseStep
    <3> QED BY <2>1, <2>2, <2>3, <2>5, <3>1, METHODSinks
  <2> QED BY <2>3, <2>4, <2>5
<1> QED BY <1>1, <1>2

LEMMA LoopSinks ==
  ASSUME NEW s, Parsed(s, 0, s), NEW d, Grim(d), Sinks(d, s)
  PROVE  Sinks(d, Parse(s))
<1> DEFINE n == Fill(s) + 1
           f == CHOOSE g : Runs(s, n, g)
<1>1. Fill(s) \in Nat /\ n \in Nat
  BY FillIs DEF Parsed
<1>2. f[0] = s /\ \A i \in 1 .. n : f[i] = Turn(f[i - 1])
  <2>1. Runs(s, n, f)
    <3> HIDE DEF n
    <3> QED BY <1>1, RunExists
  <2>2. n \in Nat
    BY <1>1
  <2> HIDE DEF f, n
  <2>3. f[0] = s /\ \A i \in 1 .. n : f[i] = Turn(f[i - 1])
    BY <2>1, <2>2, Running
  <2> QED BY <2>3
<1>3. Parse(s) = f[n]
  BY ParseIs
<1> HIDE DEF f
<1> DEFINE T == {i \in 0 .. n : ~(Parsed(s, i, f[i]) /\ Sinks(d, f[i]))}
<1>4. ASSUME T # {} PROVE FALSE
  <2>1. PICK m \in T : \A k \in T : m <= k
    <3>1. T \subseteq Nat
      BY <1>1
    <3> HIDE DEF T
    <3> QED BY <1>4, <3>1, Least
  <2>2. m # 0 /\ m \in 1 .. n /\ m - 1 \in 0 .. n /\ m - 1 \in Nat /\ m - 1 + 1 = m
    BY <1>1, <1>2, <2>1
  <2>3. Parsed(s, m - 1, f[m - 1]) /\ Sinks(d, f[m - 1])
    BY <2>1, <2>2
  <2>4. Parsed(s, m - 1 + 1, Turn(f[m - 1])) /\ Sinks(d, Turn(f[m - 1]))
    BY <2>2, <2>3, TurnParsed, TurnSinks
  <2> QED BY <1>2, <2>1, <2>2, <2>4
<1>5. Sinks(d, f[n])
  BY <1>1, <1>4
<1> QED BY <1>3, <1>5

LEMMA CutJoin ==
  ASSUME NEW q, IsSeq(q), NEW n \in Nat, n <= Len(q)
  PROVE  SubSeq(q, 1, n) \o SubSeq(q, n + 1, Len(q)) = q /\ IsSeq(SubSeq(q, 1, n)) /\ IsSeq(SubSeq(q, n + 1, Len(q)))
<1> DEFINE a == 1
           z == n + 1
           L == Len(q)
           y == L - n
           u == SubSeq(q, a, n)
           v == SubSeq(q, z, L)
<1>1. /\ L \in Nat /\ a \in Nat /\ a >= 1 /\ n = (IF a <= n THEN n - a + 1 ELSE 0)
      /\ z \in Nat /\ z >= 1 /\ y \in Nat /\ y = (IF z <= L THEN L - z + 1 ELSE 0) /\ L = n + y
      /\ \A k \in 1 .. n : a + k - 1 = k
      /\ \A k \in 1 .. y : z + k - 1 = n + k
  <2>1. L \in Nat /\ n <= L
    BY SeqLen
  <2> HIDE DEF L
  <2> QED BY <2>1
<1>2. L <= Len(q) /\ n <= Len(q)
  <2>1. L \in Nat /\ L = Len(q)
    BY SeqLen
  <2> HIDE DEF L
  <2>2. L <= L
    BY <2>1
  <2> QED BY <2>1, <2>2
<1> HIDE DEF a, z, y, L
<1>3. Slice(q, a, n, n) /\ Slice(q, z, L, y)
  BY <1>1, <1>2, PartOf
<1> HIDE DEF u, v
<1>4. /\ IsSeq(u) /\ Len(u) = n /\ \A k \in 1 .. n : u[k] = q[a + k - 1]
      /\ IsSeq(v) /\ Len(v) = y /\ \A k \in 1 .. y : v[k] = q[z + k - 1]
  BY <1>3 DEF Slice, u, v
<1>5. IsSeq(u \o v) /\ Len(u \o v) = L
  <2>1. IsSeq(u) /\ IsSeq(v) /\ Len(u) = n /\ Len(v) = y
    BY <1>4
  <2>2. IsSeq(u \o v) /\ Len(u \o v) = n + y
    BY <2>1, Joined
  <2> QED BY <1>1, <2>2
<1>6. Joins(u, v)
  BY <1>4, JoinsAll
<1>7. ASSUME NEW k \in 1 .. L PROVE (u \o v)[k] = q[k]
  <2>1. CASE k <= n
    <3>1. k \in 1 .. n
      BY <1>1, <2>1
    <3> QED BY <1>1, <1>4, <1>6, <3>1 DEF Joins
  <2>2. CASE ~(k <= n)
    <3> DEFINE h == k - n
    <3>1. h \in 1 .. y /\ n + h = k
      BY <1>1, <2>2
    <3> HIDE DEF h
    <3>2. (u \o v)[n + h] = v[h]
      BY <1>4, <1>6, <3>1 DEF Joins
    <3> QED BY <1>1, <1>4, <3>1, <3>2
  <2> QED BY <2>1, <2>2
<1>8. u \o v = q
  BY <1>5, <1>7, SameSeq DEF L
<1> QED BY <1>4, <1>8 DEF u, v, a, z, L

Regroups(p, q, r, s) == (p \o q) \o (r \o s) = p \o ((q \o r) \o s)
LEMMA JoinFour ==
  ASSUME NEW p, IsSeq(p), NEW q, IsSeq(q), NEW r, IsSeq(r), NEW s, IsSeq(s)
  PROVE  Regroups(p, q, r, s)
<1> DEFINE t == r \o s
           u == q \o r
<1>1. IsSeq(t) /\ IsSeq(u)
  BY Joined
<1>2. q \o t = u \o s
  BY JoinThree
<1> HIDE DEF t, u
<1>3. (p \o q) \o t = p \o (q \o t)
  <2>1. IsSeq(p) /\ IsSeq(q) /\ IsSeq(t)
    BY <1>1
  <2>2. Associate(p, q, t)
    BY <2>1, Associative
  <2> QED BY Zenon, <2>2 DEF Associate
<1>4. (p \o q) \o t = p \o (u \o s)
  BY Zenon, <1>2, <1>3
<1> QED BY Zenon, <1>4 DEF t, u, Regroups

LEMMA FoulStart ==
  ASSUME NEW d, IsSeq(d), NEW w, IsSeq(w), Foul(d \o w), d # <<>>
  PROVE  Foul(d)
<1> DEFINE z == d \o w
           L == Len(d)
           M == Len(z)
           N == Len(w)
<1>1. M = L + N /\ L \in Nat /\ N \in Nat /\ L # 0
  BY Joined, SeqLen, IsNone
<1>2. \A k \in 1 .. L : z[k] = d[k]
  <2>1. Joins(d, w)
    BY JoinsAll
  <2> QED BY <2>1 DEF Joins
<1> HIDE DEF z, L, M, N
<1>3. z[1] = d[1]
  BY <1>1, <1>2
<1>4. L >= 2 => M >= 2 /\ z[2] = d[2]
  BY <1>1, <1>2
<1>5. Foul(z)
  BY DEF z
<1>6. d[1] = "nul" /\ L >= 2 => d[2] \notin {"sp", "lf"}
  BY <1>3, <1>4, <1>5 DEF Foul, M
<1> QED BY <1>3, <1>5, <1>6 DEF Foul, L

(* The rest of the stream behind what was read, and what was read.         *)
Within(b, stream, more, r) ==
  /\ IsSeq(r.b.data) /\ IsSeq(r.rest) /\ r.b.data \o (r.rest \o more) = b.data \o (stream \o more)
  /\ b.data # <<>> => r.b.data # <<>> /\ r.b.data[1] = b.data[1]

LEMMA TakesWithin ==
  ASSUME NEW e, EnvOK(e), NEW b, Roomy(b), NEW stream, IsSeq(stream), NEW more, IsSeq(more),
         NEW r, r = ReceiveHttpBuffer(e, b, stream)
  PROVE  Within(b, stream, more, r)
<1>1. IsSeq(b.data)
  BY DEF Roomy, Data
<1>2. CASE Took0(e, b, stream, r)
  <2>1. r.b = b /\ r.rest = stream
    BY <1>2 DEF Took0
  <2> QED BY <1>1, <2>1 DEF Within
<1>3. ASSUME NEW n, Took(e, b, stream, r, n) PROVE Within(b, stream, more, r)
  <2> DEFINE d == b.data
             u == SubSeq(stream, 1, n)
             v == SubSeq(stream, n + 1, Len(stream))
  <2>1. n \in Nat /\ n <= Len(stream) /\ r.b.data = d \o u /\ r.rest = v
    BY <1>3 DEF Took
  <2>2. u \o v = stream /\ IsSeq(u) /\ IsSeq(v)
    BY <2>1, CutJoin
  <2> HIDE DEF u, v, d
  <2>3. IsSeq(d)
    BY <1>1 DEF d
  <2>4. (d \o u) \o (v \o more) = d \o ((u \o v) \o more)
    <3>1. IsSeq(d) /\ IsSeq(u) /\ IsSeq(v) /\ IsSeq(more)
      BY <2>2, <2>3
    <3>2. Regroups(d, u, v, more)
      BY <3>1, JoinFour
    <3> QED BY <3>2 DEF Regroups
  <2>5. IsSeq(d \o u) /\ Len(d \o u) = Len(d) + Len(u) /\ Len(d) \in Nat /\ Len(u) \in Nat
    BY <2>2, <2>3, Joined, SeqLen
  <2>6. ASSUME d # <<>> PROVE d \o u # <<>> /\ (d \o u)[1] = d[1]
    <3>1. Len(d) # 0
      BY <2>3, <2>6, IsNone
    <3>2. Joins(d, u)
      BY <2>2, <2>3, JoinsAll
    <3>3. 1 \in 1 .. Len(d)
      BY <2>5, <3>1
    <3>4. (d \o u)[1] = d[1]
      BY <3>2, <3>3 DEF Joins
    <3>5. Len(d \o u) # 0
      BY <2>5, <3>1
    <3>6. d \o u # <<>>
      BY <3>5
    <3> QED BY <3>4, <3>6
  <2> QED BY <2>1, <2>2, <2>4, <2>5, <2>6 DEF Within, d
<1>4. Took0(e, b, stream, r) \/ \E n : Took(e, b, stream, r, n)
  BY ReceiveTakes
<1> QED BY <1>2, <1>3, <1>4

(* The turn of the server's loop that meets it.                            *)
Sunk(e, b, more, r, s) ==
  /\ s.ret \in {"more", "invalid"}
  /\ EnvOK(s.e) /\ s.e.req = e.req /\ s.e.rsp = e.rsp /\ IsSeq(r.rest)
  /\ s.ret = "more" => Stuck(s.e, s.b, r.rest \o more)

LEMMA StuckTurn ==
  ASSUME NEW e, EnvOK(e), e.step # "DONE", NEW b, Roomy(b), Placed(b),
         NEW stream, IsSeq(stream), NEW more, IsSeq(more), Stuck(e, b, stream \o more),
         NEW r, r = ReceiveHttpBuffer(e, b, stream), NEW s, s = ParseHttpBuffer(r.e, r.b)
  PROVE  Sunk(e, b, more, r, s)
<1> DEFINE f == r.e
           c == r.b
           d == c.data
           begun == IF f.step # "BEGIN" THEN f
                    ELSE [f EXCEPT !.step = First(f.role), !.body = 0, !.content_length = 0]
           t == [e |-> begun, b |-> c, p |-> c.process, ret |-> "run"]
<1>1. Filled(e, b, r)
  BY ReceiveFilled
<1>2. /\ EnvOK(f) /\ f.step # "DONE" /\ Data(c) /\ c.process \in 0 .. Len(d) /\ c.process = b.process
      /\ f.step = e.step /\ IsSeq(d)
  <2>1. Len(c.data) \in Nat /\ Len(b.data) \in Nat
    BY <1>1, RoomyLen DEF Filled
  <2> QED BY <1>1, <2>1 DEF Filled, Roomy, Placed, Data
<1>3. Returned(f, c, s)
  BY <1>2, ParseReturns
<1>4. Within(b, stream, more, r)
  BY TakesWithin
<1>5. Foul(d \o (r.rest \o more)) /\ IsSeq(r.rest)
  BY <1>4 DEF Within, Stuck
<1>6. Grim(d)
  <2> DEFINE w == r.rest \o more
  <2>1. IsSeq(w) /\ Foul(d \o w) /\ IsSeq(d)
    BY <1>2, <1>5, Joined
  <2> HIDE DEF w, d
  <2>2. d # <<>> => Foul(d)
    BY <2>1, FoulStart
  <2> QED BY <2>1, <2>2 DEF Grim
<1>7. f.moved = FALSE /\ f.role = e.role /\ f.chunk_end = e.chunk_end /\ f.offset = e.offset
  <2>1. e.moved = FALSE /\ e.chunk_end = 0 /\ DOMAIN e = EnvFields
    BY DEF Stuck, EnvOK
  <2>2. Moving(e, b) = FALSE
    BY <2>1 DEF Moving
  <2>3. CASE Took0(e, b, stream, r)
    BY <2>1, <2>3 DEF Took0
  <2>4. ASSUME NEW n, Took(e, b, stream, r, n) PROVE f.moved = FALSE /\ f.role = e.role /\ f.chunk_end = e.chunk_end /\ f.offset = e.offset
    <3> DEFINE m == Moving(e, b)
    <3>1. f = [e EXCEPT !.moved = @ \/ m] /\ m = FALSE
      BY <2>2, <2>4 DEF Took
    <3> HIDE DEF f, m
    <3>2. f.moved = (e.moved \/ m) /\ f.role = e.role /\ f.chunk_end = e.chunk_end /\ f.offset = e.offset
      BY <2>1, <3>1 DEF EnvFields
    <3>3. (e.moved \/ m) = FALSE
      BY <2>1, <3>1
    <3> QED BY <3>2, <3>3
  <2> QED BY <2>3, <2>4, ReceiveTakes
<1>8. /\ e.role = "server" /\ e.chunk_end = 0
      /\ \/ e.step \in {"BEGIN", "METHOD0"} /\ b.process = 0
         \/ e.step = "METHOD" /\ b.process >= 1 /\ e.offset = 0 /\ b.data # <<>> /\ b.data[1] = "nul"
  BY DEF Stuck
<1>9. EnvOK(begun) /\ begun.req = f.req /\ begun.rsp = f.rsp /\ begun.step \in Steps
  BY <1>2 DEF EnvOK, EnvFields, Steps, First
<1>10. begun.step # "BEGIN"
  BY <1>9 DEF Steps
<1>11. DOMAIN t = {"e", "b", "p", "ret"} /\ t.e = begun /\ t.b = c /\ t.p = c.process /\ t.ret = "run"
  OBVIOUS
<1>12. s = Parse(t)
  BY <1>7 DEF ParseHttpBuffer
<1>13. Bogged(begun, d, c.process)
  <2>1. CASE e.step = "BEGIN"
    <3>1. begun = [f EXCEPT !.step = First(f.role), !.body = 0, !.content_length = 0]
      BY <1>2, <2>1
    <3>2. First(f.role) = "METHOD0" /\ DOMAIN f = EnvFields
      BY <1>2, <1>7, <1>8 DEF First, EnvOK
    <3> HIDE DEF begun, f
    <3>3. begun.step = "METHOD0" /\ begun.moved = f.moved /\ begun.role = f.role /\ begun.chunk_end = f.chunk_end
      BY <3>1, <3>2 DEF EnvFields
    <3>4. c.process = 0
      BY <1>2, <1>8, <2>1
    <3> QED BY <1>7, <1>8, <3>3, <3>4 DEF Bogged
  <2>2. CASE e.step # "BEGIN"
    <3>1. begun = f
      BY <1>2, <2>2
    <3> HIDE DEF begun, f, c
    <3>2. e.step = "METHOD" => d # <<>> /\ d[1] = "nul"
      BY <1>4, <1>8 DEF Within, c
    <3> QED BY <1>2, <1>7, <1>8, <2>2, <3>1, <3>2 DEF Bogged
  <2> QED BY <2>1, <2>2
<1> HIDE DEF t, begun, f, c
<1>14. Parsed(t, 0, t)
  BY <1>2, <1>9, <1>10, <1>11 DEF Parsed, Same, Goes
<1>15. Sinks(d, t)
  BY <1>11, <1>13 DEF Sinks
<1>16. Sinks(d, s)
  BY <1>6, <1>12, <1>14, <1>15, LoopSinks
<1>17. s.ret # "lost"
  BY <1>2, <1>7, ParseNotLost DEF f, c
<1>18. s.ret = "more" => Stuck(s.e, s.b, r.rest \o more)
  BY <1>5, <1>16 DEF Sinks, Bogged, Stuck
<1> QED BY <1>1, <1>3, <1>5, <1>16, <1>17, <1>18 DEF Sunk, Returned, Filled, Sinks, f, c

(* A request that the server takes for whole.                              *)
LEMMA KeepIs ==
  ASSUME NEW m, m.version \in Versions, NEW e, e.version = m.version, e.keepalive = Connection(<<m.keep>>)
  PROVE  CheckHttpKeepAlive(e) = (IF m.version = "HTTP/1.0" THEN m.keep = "keep-alive" ELSE m.keep # "close")
<1>1. /\ e.keepalive = 1 <=> m.keep = "keep-alive"
      /\ e.keepalive = -1 <=> m.keep = "close"
  BY DEF Connection
<1>2. CASE m.version = "HTTP/1.0"
  <2>1. CheckHttpKeepAlive(e) <=> e.keepalive = 1
    BY <1>2 DEF CheckHttpKeepAlive
  <2>2. CheckHttpKeepAlive(e) = (e.keepalive = 1)
    BY <2>1 DEF CheckHttpKeepAlive
  <2> QED BY <1>1, <1>2, <2>2
<1>3. CASE m.version = "HTTP/1.1"
  <2>1. CheckHttpKeepAlive(e) <=> e.keepalive # -1
    BY <1>3 DEF CheckHttpKeepAlive
  <2>2. CheckHttpKeepAlive(e) = (e.keepalive # -1)
    BY <2>1 DEF CheckHttpKeepAlive
  <2> QED BY <1>1, <1>3, <2>2
<1> QED BY <1>2, <1>3 DEF Versions

Grasped(m, e, t, u) ==
  /\ [method |-> u.e.method, uri |-> u.e.uri, body |-> GetHttpBodyPtr(u.e, u.b),
      keep |-> CheckHttpKeepAlive(u.e)] = Meaning(m)
  /\ EnvOK(u.e) /\ u.e.version = m.version /\ u.e.keepalive = Connection(<<m.keep>>)
  /\ u.e.role = "server" /\ u.e.reforming = e.reforming
  /\ m.form = "chunked" => u.b = t

LEMMA RequestWhole ==
  ASSUME NEW m, NEW x, AskedIs(m, x), NEW e, EnvOK(e), NEW b, Roomy(b), b.process \in 0 .. Len(b.data),
         Finished(x, e, b), NEW t, Holds(b, t), NEW u, u = UncompressHttpBody(e, t)
  PROVE  Grasped(m, e, t, u)
<1>1. Proper(m) /\ Laid(x) /\ x = Text(m)
  BY DEF AskedIs
<1> DEFINE co == IF m.keep = Empty THEN 0 ELSE 1
           n == co + (IF m.form = "none" THEN 0 ELSE IF m.form = "gzip" THEN 2 ELSE 1)
           body == IF m.form = "gzip" THEN <<"zip">> ELSE m.body
           ce == IF m.form = "gzip" THEN co + 1 ELSE 0
<1>2. /\ x.n = n /\ x.co = co /\ x.ce = ce /\ x.role = "server"
      /\ x.keep = m.keep /\ x.method = m.method /\ x.uri = m.uri /\ x.version = m.version /\ x.body = body
  BY <1>1 DEF Text
<1>3. e.role = "server" /\ Began(x, e) /\ Heard(x, e, x.n)
  BY <1>2 DEF Finished
<1>4. e.method = m.method /\ e.uri = m.uri /\ e.version = m.version
  BY <1>2, <1>3 DEF Began
<1>5. e.keepalive = Connection(<<m.keep>>)
  <2>1. e.keepalive = IF co \in 1 .. n THEN Connection(<<m.keep>>) ELSE 0
    <3> HIDE DEF n, co
    <3> QED BY <1>2, <1>3 DEF Heard
  <2>2. CASE m.keep = Empty
    <3>1. co = 0
      BY <2>2
    <3>2. e.keepalive = 0
      <4> HIDE DEF n, co
      <4> QED BY <2>1, <3>1
    <3>3. Connection(<<Empty>>) = 0
      BY Zenon DEF Connection, Empty
    <3> QED BY <2>2, <3>2, <3>3
  <2>3. CASE m.keep # Empty
    <3>1. co \in 1 .. n
      BY <2>3
    <3> QED BY <2>1, <3>1
  <2> QED BY <2>2, <2>3
<1>6. e.encoding = IF m.form = "gzip" THEN <<"gzip">> ELSE <<>>
  <2>1. ce \in 1 .. n <=> m.form = "gzip"
    OBVIOUS
  <2> HIDE DEF ce, n
  <2> QED BY <1>2, <1>3, <2>1 DEF Heard
<1> HIDE DEF co, n, ce
<1>7. GetHttpBodyPtr(e, t) = body
  <2>1. Data(b)
    BY DEF Roomy
  <2> QED BY <1>1, <1>2, <2>1, BodyIs
<1>8. m.version \in Versions
  BY <1>1 DEF Proper
<1>9. CASE m.form = "gzip"
  <2>1. m.body = Zipped
    BY <1>1, <1>9 DEF Proper
  <2>2. e.encoding = <<"gzip">> /\ GetHttpBodyPtr(e, t) = <<"zip">> /\ Data(t)
    BY <1>6, <1>7, <1>9 DEF Holds
  <2>3. GetHttpBodyPtr(u.e, u.b) = m.body
    BY <2>1, <2>2, InflatedBodyIs
  <2> DEFINE l == Len(Inflate(GetHttpBodyPtr(e, t)))
  <2>4. u.e = [e EXCEPT !.content_length = l]
    BY <2>2 DEF UncompressHttpBody
  <2>5. l \in Nat
    <3>1. IsSeq(Zipped)
      BY Tuples DEF Zipped
    <3>2. l = Len(Zipped)
      BY <2>2 DEF Inflate
    <3> QED BY <3>1, <3>2, SeqLen
  <2> HIDE DEF l
  <2>6. /\ u.e.method = e.method /\ u.e.uri = e.uri /\ u.e.version = e.version /\ u.e.keepalive = e.keepalive
        /\ u.e.role = e.role /\ u.e.reforming = e.reforming /\ EnvOK(u.e)
    BY <2>4, <2>5 DEF EnvOK, EnvFields
  <2> DEFINE f == u.e
  <2>7. CheckHttpKeepAlive(f) = (IF m.version = "HTTP/1.0" THEN m.keep = "keep-alive" ELSE m.keep # "close")
    <3>1. f.version = m.version /\ f.keepalive = Connection(<<m.keep>>)
      BY <1>4, <1>5, <2>6
    <3> HIDE DEF f
    <3> QED BY <1>8, <3>1, KeepIs
  <2> QED BY <1>3, <1>4, <1>5, <1>9, <2>3, <2>6, <2>7 DEF Grasped, Meaning
<1>10. CASE m.form # "gzip"
  <2>1. e.encoding # <<"gzip">>
    <3>1. <<>> # <<"gzip">>
      OBVIOUS
    <3> QED BY <1>6, <1>10, <3>1
  <2>2. u = [e |-> e, b |-> t]
    BY <2>1 DEF UncompressHttpBody
  <2>3. u.e = e /\ u.b = t
    BY <2>2
  <2>4. CheckHttpKeepAlive(e) = (IF m.version = "HTTP/1.0" THEN m.keep = "keep-alive" ELSE m.keep # "close")
    BY <1>4, <1>5, <1>8, KeepIs
  <2>5. GetHttpBodyPtr(e, t) = m.body
    BY <1>7, <1>10
  <2> QED BY <1>3, <1>4, <1>5, <2>3, <2>4, <2>5 DEF Grasped, Meaning
<1> QED BY <1>9, <1>10

(* What a request leaves behind: nothing, or the line that ends a chunked  *)
(* one, which has arrived (its first byte overwritten) or is on its way.   *)
Leaves(m, u, rest) ==
  \/ m.form # "chunked" /\ u.e.reforming = FALSE /\ rest = <<>>
  \/ m.form = "chunked" /\ u.e.reforming = FALSE /\ rest = <<"lf">>
  \/ /\ m.form = "chunked" /\ u.e.reforming = TRUE /\ rest = <<>>
     /\ Unprocessed(u.b) = 1 /\ u.b.data[u.b.process + 1] = "nul"

LEMMA LastOf ==
  ASSUME NEW w, IsSeq(w), NEW n, n = Len(w) - 1, n \in Nat, w[n + 1] = "lf"
  PROVE  SubSeq(w, n + 1, Len(w)) = <<"lf">>
<1> DEFINE i == n + 1
           k == Len(w)
           l == 1
           z == SubSeq(w, i, k)
           y == <<"lf">>
<1>1. i \in Nat /\ i >= 1 /\ k \in Nat /\ k <= Len(w) /\ l \in Nat /\ l = (IF i <= k THEN k - i + 1 ELSE 0) /\ i + 1 - 1 = i
  BY SeqLen
<1>2. w[i] = "lf"
  OBVIOUS
<1> HIDE DEF i, l, k
<1>3. Slice(w, i, k, l)
  BY <1>1, PartOf
<1>4. IsSeq(z) /\ Len(z) = 1 /\ z[1] = "lf"
  BY <1>1, <1>2, <1>3 DEF Slice, l
<1>5. IsSeq(y) /\ Len(y) = 1 /\ y[1] = "lf"
  BY Tuples
<1> HIDE DEF z, y
<1>6. \A j \in 1 .. Len(z) : z[j] = y[j]
  BY <1>4, <1>5
<1>7. z = y
  BY <1>4, <1>5, <1>6, SameSeq
<1> QED BY <1>7 DEF z, y, i, k

LEMMA NoneOf ==
  ASSUME NEW w, IsSeq(w)
  PROVE  SubSeq(w, Len(w) + 1, Len(w)) = <<>>
<1>1. Len(w) \in Nat
  BY SeqLen
<1> DEFINE z == SubSeq(w, Len(w) + 1, Len(w))
<1>2. IsSeq(z) /\ Len(z) = 0
  BY <1>1, Part
<1> HIDE DEF z
<1>3. z = <<>>
  BY <1>2, IsNone
<1> QED BY <1>3 DEF z

LEMMA RequestLeaves ==
  ASSUME NEW m, NEW x, AskedIs(m, x), NEW e, EnvOK(e), NEW b, Roomy(b), b.process \in 0 .. Len(b.data),
         Finished(x, e, b), NEW t, Holds(b, t), NEW u, Grasped(m, e, t, u),
         NEW rest, rest = SubSeq(x.w, Len(b.data) + 1, Len(x.w))
  PROVE  Leaves(m, u, rest)
<1> DEFINE d == b.data
           D == Len(d)
           w == x.w
           W == Len(w)
           p == b.process
<1>1. IsSeq(w) /\ W \in Nat /\ D \in Nat /\ p \in 0 .. D /\ D <= W
      /\ rest = SubSeq(w, D + 1, W)
      /\ p = W - (IF x.te = 0 THEN 0 ELSE 1) /\ e.reforming = (D > p) /\ (x.te = 0 => D = W)
  BY RoomyLen, SeqLen DEF AskedIs, Finished
<1>2. x.te = 0 <=> m.form # "chunked"
  <2> DEFINE co == IF m.keep = Empty THEN 0 ELSE 1
             n == co + (IF m.form = "none" THEN 0 ELSE IF m.form = "gzip" THEN 2 ELSE 1)
  <2>1. x.te = IF m.form = "chunked" THEN n ELSE 0
    BY DEF AskedIs, Text
  <2>2. m.form = "chunked" => n # 0
    OBVIOUS
  <2> HIDE DEF n
  <2> QED BY <2>1, <2>2
<1>3. u.e.reforming = e.reforming
  BY DEF Grasped
<1> HIDE DEF D, W, w, p, d
<1>4. CASE m.form # "chunked"
  <2>1. D = W /\ p = W /\ (D > p) = FALSE
    BY <1>1, <1>2, <1>4
  <2>2. rest = <<>>
    BY <1>1, <2>1, NoneOf DEF W
  <2> QED BY <1>1, <1>3, <1>4, <2>1, <2>2 DEF Leaves
<1>5. CASE m.form = "chunked"
  <2>1. x.te # 0 /\ p = W - 1
    BY <1>1, <1>2, <1>5
  <2>2. w[W] = "lf"
    <3> DEFINE n == x.c[Len(x.body) + 1]
    <3>1. Laid(x)
      BY DEF AskedIs
    <3>2. w[n + 3] = "lf" /\ W = n + 3
      BY <2>1, <3>1 DEF Laid, Follows, w, W
    <3> HIDE DEF n
    <3> QED BY <3>2
  <2>3. D = p \/ D = W
    BY <1>1, <2>1
  <2>4. CASE D = p
    <3>1. D = W - 1 /\ w[D + 1] = "lf" /\ (D > p) = FALSE
      BY <1>1, <2>1, <2>2, <2>4
    <3>2. SubSeq(w, D + 1, Len(w)) = <<"lf">>
      BY <1>1, <3>1, LastOf DEF W
    <3> QED BY <1>1, <1>3, <1>5, <3>1, <3>2 DEF Leaves, W
  <2>5. CASE D = W
    <3>1. (D > p) = TRUE /\ D - p = 1
      BY <1>1, <2>1, <2>5
    <3>2. rest = <<>>
      BY <1>1, <2>5, NoneOf DEF W
    <3>3. u.b = t
      BY <1>5 DEF Grasped
    <3>4. Unprocessed(b) = 1
      BY <3>1 DEF Unprocessed, D, d, p
    <3>5. Len(t.data) = Len(b.data) /\ t.process = b.process /\ t.data[b.process + 1] = "nul"
      BY <3>4 DEF Holds
    <3>6. Unprocessed(t) = 1
      BY <3>4, <3>5 DEF Unprocessed
    <3> QED BY <1>1, <1>3, <1>5, <3>1, <3>2, <3>3, <3>5, <3>6 DEF Leaves
  <2> QED BY <2>3, <2>4, <2>5
<1> QED BY <1>4, <1>5

LEMMA JoinNonempty ==
  ASSUME NEW t, IsSeq(t), t # <<>>, NEW u, IsSeq(u)
  PROVE  t \o u # <<>>
<1> DEFINE v == t \o u
           A == Len(t)
           B == Len(u)
<1>1. A \in Nat /\ B \in Nat /\ Len(v) = A + B /\ (A = 0 => t = <<>>)
  BY Joined, SeqLen, IsNone
<1> HIDE DEF v, A, B
<1>2. Len(v) # 0
  BY <1>1
<1>3. v # <<>>
  BY <1>2
<1> QED BY <1>3 DEF v

LEMMA TurnRoomy ==
  ASSUME NEW e, EnvOK(e), e.step # "DONE", NEW b, Roomy(b), Placed(b), NEW stream, IsSeq(stream),
         NEW r, r = ReceiveHttpBuffer(e, b, stream), NEW s, s = ParseHttpBuffer(r.e, r.b)
  PROVE  Roomy(s.b) /\ s.b.process \in 0 .. Len(s.b.data)
<1>1. Filled(e, b, r)
  BY ReceiveFilled
<1>2. r.b.process \in 0 .. Len(r.b.data) /\ EnvOK(r.e) /\ r.e.step # "DONE" /\ Data(r.b)
  <2>1. Len(r.b.data) \in Nat /\ Len(b.data) \in Nat
    BY <1>1, RoomyLen DEF Filled
  <2> QED BY <1>1, <2>1 DEF Filled, Placed, Roomy
<1>3. Returned(r.e, r.b, s)
  BY <1>2, ParseReturns
<1>4. Len(s.b.data) \in Nat
  BY <1>3, SeqLen DEF Returned, Data
<1> QED BY <1>1, <1>3, <1>4 DEF Filled, Returned, Roomy

(* What the server reads while it awaits a request: the next one, or what  *)
(* spoils it.                                                              *)
LEMMA ReadsWhat ==
  HttpInv /\ Talk /\ spc = "receive" /\ toSrv # <<>>
    => \/ Spoilt /\ Stuck(srv, srv.req, ToServer)
       \/ /\ ~Spoilt /\ Len(ans) = Len(got) /\ Len(got) < Len(conv) /\ cpc # "idle"
          /\ Clean("client", cli, cli.rsp)
          /\ Onway(Asking, srv, srv.req, ToServer)
<1> SUFFICES ASSUME HttpInv, Talk, spc = "receive", toSrv # <<>>
             PROVE  ToServer # <<>>
  BY DEF Talk, ServerReads
<1>1. IsSeq(toSrv) /\ Roomy(cli.req)
  BY DEF HttpInv, EnvRoomy
<1> DEFINE t == toSrv
           u == Unsent(cli.req)
<1>2. IsSeq(t) /\ IsSeq(u) /\ t # <<>>
  BY <1>1, UnsentIs
<1>3. ToServer = t \o u
  BY DEF ToServer
<1> HIDE DEF t, u
<1> QED BY <1>2, <1>3, JoinNonempty

(* The server, however its turn ends, leaves the client what it has.       *)
LEMMA ServerTurn ==
  /\ Talk /\ UNCHANGED <<conv, cli, toCli, cpc, got, made, ans>> /\ srv'.rsp = srv.rsp
  /\ spc' \notin {"process", "send"} /\ ServerReads'
  => Talk'
<1> SUFFICES ASSUME Talk, UNCHANGED <<conv, cli, toCli, cpc, got, made, ans>>, srv'.rsp = srv.rsp,
                    spc' \notin {"process", "send"}, ServerReads'
             PROVE  Talk'
  OBVIOUS
<1>1. Answering' = Answering /\ ToClient' = ToClient
  BY SameAnswering, SameStreams
<1>2. Counts' /\ ClientTalks'
  BY DEF Talk, Counts, ClientTalks
<1>3. AnswerTravels'
  BY <1>1 DEF Talk, AnswerTravels
<1>4. ServerAnswers'
  BY DEF ServerAnswers
<1> QED BY <1>2, <1>3, <1>4 DEF Talk

LEMMA ReceiveStuckTalks == HttpInv /\ Talk /\ ReceiveHttpRequestNonblock /\ Spoilt => Talk'
<1> SUFFICES ASSUME HttpInv, Talk, ReceiveHttpRequestNonblock, Spoilt PROVE Talk'
  OBVIOUS
<1> DEFINE r == ReceiveHttpBuffer(srv, srv.req, toSrv)
           s == ParseHttpBuffer(r.e, r.b)
           more == Unsent(cli.req)
<1>1. /\ toSrv' = r.rest
      /\ \/ /\ s.ret = "more"
            /\ srv' = [s.e EXCEPT !.req = s.b]
            /\ UNCHANGED <<spc, got>>
         \/ s.ret = "done"
         \/ /\ s.ret \in {"invalid", "lost"}
            /\ spc' = "refused"
            /\ UNCHANGED <<srv, got>>
  BY DEF ReceiveHttpRequestNonblock
<1>2. UNCHANGED <<conv, cli, toCli, cpc, made, ans>> /\ spc = "receive" /\ toSrv # <<>>
  BY DEF ReceiveHttpRequestNonblock
<1>3. EnvOK(srv) /\ Roomy(srv.req) /\ IsSeq(toSrv) /\ srv.step # "DONE" /\ Placed(srv.req) /\ Roomy(cli.req)
  BY <1>2 DEF HttpInv, EnvRoomy, Waiting
<1>4. Stuck(srv, srv.req, toSrv \o more)
  BY <1>2, ReadsWhat DEF ToServer
<1>5. IsSeq(more)
  BY <1>3, UnsentIs
<1> HIDE DEF more
<1>6. Sunk(srv, srv.req, more, r, s)
  <2> DEFINE e == srv
             b == srv.req
             t == toSrv
  <2>1. EnvOK(e) /\ e.step # "DONE" /\ Roomy(b) /\ Placed(b) /\ IsSeq(t) /\ Stuck(e, b, t \o more)
        /\ r = ReceiveHttpBuffer(e, b, t)
    BY <1>3, <1>4
  <2> HIDE DEF e, b, t, r, s
  <2>2. s = ParseHttpBuffer(r.e, r.b)
    BY DEF s
  <2>3. Sunk(e, b, more, r, s)
    BY <1>5, <2>1, <2>2, StuckTurn
  <2> QED BY <2>3 DEF e, b
<1> HIDE DEF r, s
<1>7. CASE s.ret = "more"
  <2>1. srv' = [s.e EXCEPT !.req = s.b] /\ UNCHANGED <<spc, got>> /\ toSrv' = r.rest
    BY <1>1, <1>7
  <2>2. EnvOK(s.e) /\ s.e.rsp = srv.rsp /\ Stuck(s.e, s.b, r.rest \o more)
    BY <1>6, <1>7 DEF Sunk
  <2> DEFINE f == s.e
             b == s.b
             g == srv'
  <2>3. EnvOK(f) /\ g = [f EXCEPT !.req = b] /\ Stuck(f, b, r.rest \o more)
    BY <2>1, <2>2
  <2> HIDE DEF f, b, g
  <2>4. g.req = b /\ g.rsp = f.rsp /\ Stuck(g, b, r.rest \o more)
    <3>1. /\ g.req = b /\ g.rsp = f.rsp /\ g.step = f.step /\ g.role = f.role /\ g.moved = f.moved
          /\ g.chunk_end = f.chunk_end /\ g.offset = f.offset
      BY <2>3 DEF EnvOK, EnvFields
    <3> QED BY <2>3, <3>1 DEF Stuck
  <2>5. ToServer' = r.rest \o more
    BY <1>2, <2>1 DEF ToServer, more
  <2>6. Stuck(srv', srv'.req, ToServer')
    BY <2>4, <2>5 DEF g
  <2>7. ServerReads'
    <3>1. Spoilt'
      BY <1>2, <2>1, SameSpoilt
    <3>2. Len(made) = Len(got)
      BY <1>2 DEF Talk, ServerReads
    <3> QED BY <1>2, <2>1, <2>6, <3>1, <3>2 DEF ServerReads
  <2>8. srv'.rsp = srv.rsp
    BY <2>2, <2>4 DEF f, g
  <2> QED BY <1>2, <2>1, <2>7, <2>8, ServerTurn
<1>8. CASE s.ret = "invalid"
  <2>1. spc' = "refused" /\ UNCHANGED <<srv, got>>
    BY <1>1, <1>8
  <2>2. ServerReads'
    BY <2>1 DEF ServerReads
  <2> QED BY <1>2, <2>1, <2>2, ServerTurn
<1> QED BY <1>6, <1>7, <1>8 DEF Sunk

(* A turn of the server's loop that meets the next request.                *)
Meets(r, s, u) ==
  LET m == conv[Len(got) + 1]
  IN  /\ ~Spoilt /\ Len(made) = Len(got) /\ Len(ans) = Len(got) /\ Len(got) < Len(conv)
      /\ cpc # "idle" /\ Clean("client", cli, cli.rsp) /\ AskedIs(m, Asking)
      /\ Heeds(Asking, srv, srv.req, Unsent(cli.req), r, s)
      /\ s.ret = "done" => Grasped(m, s.e, Terminate(s.b), u)
                           /\ Leaves(m, u, r.rest \o Unsent(cli.req))

LEMMA TurnMeets ==
  ASSUME HttpInv, Talk, spc = "receive", toSrv # <<>>, ~Spoilt,
         NEW r, r = ReceiveHttpBuffer(srv, srv.req, toSrv), NEW s, s = ParseHttpBuffer(r.e, r.b),
         NEW u, u = UncompressHttpBody(s.e, Terminate(s.b))
  PROVE  Meets(r, s, u)
<1> DEFINE m == conv[Len(got) + 1]
           x == Asking
           more == Unsent(cli.req)
           e == srv
           b == srv.req
           t == toSrv
           c == s.b
           f == s.e
           k == Terminate(c)
<1>1. /\ ~Spoilt /\ Len(made) = Len(got) /\ Len(ans) = Len(got) /\ Len(got) < Len(conv) /\ cpc # "idle"
      /\ Clean("client", cli, cli.rsp) /\ Onway(x, e, b, t \o more)
  BY ReadsWhat DEF ToServer, Talk, ServerReads
<1>2. AskedIs(m, x)
  BY <1>1, AskingIs
<1>3. /\ EnvOK(e) /\ e.step # "DONE" /\ Roomy(b) /\ Placed(b) /\ IsSeq(t) /\ IsSeq(more)
      /\ r = ReceiveHttpBuffer(e, b, t)
  BY UnsentIs DEF HttpInv, EnvRoomy, Waiting
<1>4. Onway(x, e, b, t \o more)
  BY <1>1
<1> HIDE DEF m, x, more, e, b, t
<1>5. Laid(x) /\ IsSeq(x.w)
  BY <1>2 DEF AskedIs
<1>6. Heeds(x, e, b, more, r, s)
  BY <1>3, <1>4, <1>5, Hears
<1>7. Roomy(c) /\ c.process \in 0 .. Len(c.data)
  BY <1>3, TurnRoomy
<1>8. ASSUME s.ret = "done" PROVE Grasped(m, f, k, u) /\ Leaves(m, u, r.rest \o more)
  <2> DEFINE rest == r.rest \o more
  <2>1. EnvOK(f) /\ Finished(x, f, c) /\ rest = SubSeq(x.w, Len(c.data) + 1, Len(x.w))
    BY <1>6, <1>8 DEF Heeds
  <2>2. Holds(c, k)
    BY <1>7, TerminateHolds
  <2>3. u = UncompressHttpBody(f, k)
    OBVIOUS
  <2> HIDE DEF f, c, k, rest
  <2>4. Grasped(m, f, k, u)
    BY <1>2, <1>7, <2>1, <2>2, <2>3, RequestWhole
  <2>5. Leaves(m, u, rest)
    BY <1>2, <1>7, <2>1, <2>2, <2>4, RequestLeaves
  <2> QED BY <2>4, <2>5 DEF rest
<1> QED BY <1>1, <1>2, <1>6, <1>8 DEF Meets, m, x, more, e, b, f, k, c

LEMMA ReadyKept ==
  ASSUME NEW x, NEW e, EnvOK(e), NEW b, NEW f, f = [e EXCEPT !.req = b], NEW d, NEW p, Ready(x, e, d, p)
  PROVE  Ready(x, f, d, p)
<1> DEFINE r == e.rsp
<1>1. DOMAIN e = EnvFields
  BY DEF EnvOK
<1>2. f = [e EXCEPT !.req = b, !.rsp = r]
  BY <1>1 DEF EnvFields
<1> HIDE DEF r
<1>3. Ready(x, f, d, p)
  BY <1>1, <1>2, ReadyStays
<1> QED BY <1>3

LEMMA ReceiveRequestTalks == HttpInv /\ Talk /\ ReceiveHttpRequestNonblock /\ Uncut' => Talk'
<1> SUFFICES ASSUME HttpInv, Talk, ReceiveHttpRequestNonblock, Uncut', ~Spoilt PROVE Talk'
  BY ReceiveStuckTalks
<1> DEFINE r == ReceiveHttpBuffer(srv, srv.req, toSrv)
           s == ParseHttpBuffer(r.e, r.b)
           u == UncompressHttpBody(s.e, Terminate(s.b))
           more == Unsent(cli.req)
           m == conv[Len(got) + 1]
           x == Asking
           said == [method |-> u.e.method, uri |-> u.e.uri, body |-> GetHttpBodyPtr(u.e, u.b),
                    keep |-> CheckHttpKeepAlive(u.e)]
<1>1. /\ toSrv' = r.rest
      /\ \/ /\ s.ret = "more"
            /\ srv' = [s.e EXCEPT !.req = s.b]
            /\ UNCHANGED <<spc, got>>
         \/ /\ s.ret = "done"
            /\ srv' = [u.e EXCEPT !.req = u.b]
            /\ got' = Append(got, said)
            /\ spc' = "process"
         \/ /\ s.ret \in {"invalid", "lost"}
            /\ spc' = "refused"
            /\ UNCHANGED <<srv, got>>
  BY DEF ReceiveHttpRequestNonblock
<1>2. UNCHANGED <<conv, cli, toCli, cpc, made, ans>> /\ spc = "receive" /\ toSrv # <<>>
  BY DEF ReceiveHttpRequestNonblock
<1>3. EnvOK(srv) /\ Roomy(srv.req) /\ Roomy(srv.rsp) /\ IsSeq(got) /\ Roomy(cli.req)
  BY DEF HttpInv, EnvRoomy
<1>4. Meets(r, s, u)
  <2> HIDE DEF r, s, u
  <2>1. r = ReceiveHttpBuffer(srv, srv.req, toSrv) /\ s = ParseHttpBuffer(r.e, r.b) /\ u = UncompressHttpBody(s.e, Terminate(s.b))
    BY DEF r, s, u
  <2> QED BY <1>2, <2>1, TurnMeets
<1> HIDE DEF r, s, u
<1>5. /\ Len(made) = Len(got) /\ Len(ans) = Len(got) /\ Len(got) < Len(conv)
      /\ cpc # "idle" /\ Clean("client", cli, cli.rsp) /\ Heeds(x, srv, srv.req, more, r, s)
      /\ s.ret = "done" => Grasped(m, s.e, Terminate(s.b), u) /\ Leaves(m, u, r.rest \o more)
  BY <1>4 DEF Meets
<1> HIDE DEF said, m, x, more
<1>6. EnvOK(s.e) /\ s.e.rsp = srv.rsp
  BY <1>5 DEF Heeds
<1>7. ToServer' = r.rest \o more
  BY <1>1, <1>2 DEF ToServer, more
<1>8. CASE s.ret = "more"
  <2>1. srv' = [s.e EXCEPT !.req = s.b] /\ UNCHANGED <<spc, got>>
    BY <1>1, <1>8
  <2> DEFINE f == s.e
             b == s.b
             d == b.data
             p == b.process
             q == f.rsp
             g == srv'
  <2>2. EnvOK(f) /\ g = [f EXCEPT !.req = b]
    BY <1>6, <2>1
  <2> HIDE DEF f, b, d, p, q, g
  <2>3. g.req = b /\ g.rsp = f.rsp /\ g.step = f.step
    BY <2>2, RequestKept
  <2>4. ~(Tear(f, b) /\ Cleft(x, Len(b.data)))
    <3>1. spc' = "receive" /\ ~Spoilt' /\ Len(ans') = Len(got') /\ Asking' = x /\ Len(got') < Len(conv')
      BY <1>2, <1>5, <2>1, SameSpoilt, SameAsking DEF x
    <3> QED BY <2>3, <3>1 DEF Uncut, Tear, g
  <2>5. Onway(x, f, b, r.rest \o more)
    BY <1>5, <1>8, <2>4 DEF Heeds, f, b
  <2>6. Ready(x, g, d, p)
    <3>1. EnvOK(f) /\ Ready(x, f, d, p) /\ g = [f EXCEPT !.req = b]
      BY <2>2, <2>5 DEF Onway, d, p
    <3> QED BY <3>1, ReadyKept
  <2>7. Onway(x, g, g.req, ToServer')
    BY <1>7, <2>3, <2>5, <2>6 DEF Onway, d, p
  <2>8. Onway(Asking', srv', srv'.req, ToServer')
    <3>1. Asking' = x
      BY <1>2, <2>1, SameAsking DEF x
    <3> QED BY <2>7, <3>1 DEF g
  <2>9. ServerReads'
    <3>1. ~Spoilt'
      BY <1>2, <2>1, SameSpoilt
    <3> QED BY <1>2, <1>5, <2>1, <2>8, <3>1 DEF ServerReads
  <2>10. srv'.rsp = srv.rsp
    BY <1>6, <2>3 DEF f, g
  <2> QED BY <1>2, <2>1, <2>9, <2>10, ServerTurn
<1>9. CASE s.ret \in {"invalid", "lost"}
  <2>1. spc' = "refused" /\ UNCHANGED <<srv, got>>
    BY <1>1, <1>9
  <2>2. ServerReads'
    BY <2>1 DEF ServerReads
  <2> QED BY <1>2, <2>1, <2>2, ServerTurn
<1>10. CASE s.ret = "done"
  <2>1. srv' = [u.e EXCEPT !.req = u.b] /\ spc' = "process" /\ got' = Append(got, said)
    BY <1>1, <1>10
  <2>2. Leaves(m, u, ToServer') /\ Grasped(m, s.e, Terminate(s.b), u)
    BY <1>5, <1>7, <1>10
  <2>3. /\ said = Meaning(m) /\ EnvOK(u.e) /\ u.e.version = m.version /\ u.e.keepalive = Connection(<<m.keep>>)
        /\ u.e.role = "server"
    BY <2>2 DEF Grasped, said
  <2>4. Len(got') = Len(got) + 1 /\ got'[Len(got) + 1] = Meaning(m) /\ \A k \in 1 .. Len(got) : got'[k] = got[k]
    BY <1>3, <2>1, <2>3, Appends
  <2>5. Len(got) \in Nat /\ Len(conv) \in Nat
    BY GotLen
  <2> DEFINE f == u.e
             b == u.b
             g == srv'
  <2>6. EnvOK(f) /\ g = [f EXCEPT !.req = b]
    BY <2>1, <2>3
  <2> HIDE DEF f, b, g
  <2>7. /\ g.req = b /\ g.rsp = f.rsp /\ g.role = f.role /\ g.reforming = f.reforming
        /\ g.version = f.version /\ g.keepalive = f.keepalive
    BY <2>6 DEF EnvOK, EnvFields
  <2>8. m = conv'[Len(got')]
    BY <1>2, <2>4 DEF m
  <2>9. got' # <<>>
    <3> DEFINE N == Len(got')
    <3>1. N # 0
      BY <2>4, <2>5
    <3> HIDE DEF N
    <3> QED BY <3>1 DEF N
  <2>10. Spoilt' <=> m.form = "chunked"
    BY <2>8, <2>9 DEF Spoilt
  <2>11. Left'
    <3>1. srv'.role = "server"
      BY <2>3, <2>7 DEF f, g
    <3>2. /\ srv'.reforming = u.e.reforming /\ srv'.req = u.b
      BY <2>7 DEF f, b, g
    <3> QED BY <2>2, <2>10, <3>1, <3>2 DEF Left, Leaves
  <2>12. Counts'
    <3> DEFINE n == Len(got)
               N == Len(got')
               C == Len(conv)
    <3>1. /\ n \in Nat /\ C \in Nat /\ N = n + 1 /\ n < C /\ Len(made) = n /\ Len(ans) = n
          /\ (\A i \in 1 .. n : got[i] = Meaning(conv[i]))
          /\ (\A i \in 1 .. n : got'[i] = got[i]) /\ got'[n + 1] = Meaning(conv[n + 1])
          /\ (\A i \in 1 .. n - 1 : conv[i].form # "chunked")
      BY <1>5, <2>4, <2>5 DEF Talk, Counts, m
    <3>2. n # 0 => conv[n].form # "chunked"
      <4>1. n # 0 => got # <<>>
        OBVIOUS
      <4> QED BY <4>1 DEF Spoilt
    <3> HIDE DEF n, N, C
    <3>4. \A i \in 1 .. N : got'[i] = Meaning(conv[i])
      BY <3>1
    <3>5. \A i \in 1 .. N - 1 : conv[i].form # "chunked"
      <4> TAKE i \in 1 .. N - 1
      <4>1. i \in 1 .. n
        BY <3>1
      <4>2. CASE i = n
        BY <3>1, <3>2, <4>2
      <4>3. CASE i # n
        <5>1. i \in 1 .. n - 1
          BY <3>1, <4>1, <4>3
        <5> QED BY <3>1, <5>1
      <4> QED BY <4>2, <4>3
    <3>6. N <= C /\ n <= N /\ N <= n + 1
      BY <3>1
    <3>7. /\ Len(got') <= Len(conv) /\ Len(made) <= Len(got') /\ Len(ans) <= Len(made) /\ Len(got') <= Len(ans) + 1
      BY <3>1, <3>6 DEF N, C, n
    <3> QED BY <1>2, <3>4, <3>5, <3>7 DEF Talk, Counts, N
  <2>13. ClientTalks'
    BY <1>2, <1>5 DEF Talk, ClientTalks
  <2>14. AnswerTravels'
    BY <1>2, <1>5 DEF Talk, AnswerTravels
  <2>15. ServerReads'
    BY <2>1 DEF ServerReads
  <2>16. ServerAnswers'
    <3>1. srv'.version = m.version /\ srv'.keepalive = Connection(<<m.keep>>)
      BY <2>3, <2>7 DEF f, g
    <3> QED BY <1>2, <1>5, <2>1, <2>4, <2>8, <2>11, <3>1 DEF ServerAnswers
  <2> QED BY <2>12, <2>13, <2>14, <2>15, <2>16 DEF Talk
<1> QED BY <1>1, <1>8, <1>9, <1>10

LEMMA TalkStep == HttpInv /\ Talk /\ [Next]_vars /\ Uncut' => Talk'
<1> SUFFICES ASSUME HttpInv, Talk, [Next]_vars, Uncut' PROVE Talk'
  OBVIOUS
<1>1. CASE Request
  BY <1>1, RequestTalks
<1>2. CASE SendHttpRequest
  BY <1>2, SendRequestTalks
<1>3. CASE ReceiveHttpResponse
  BY <1>3, ReceiveResponseTalks
<1>4. CASE Disconnect
  BY <1>4, StillTalks DEF Disconnect
<1>5. CASE TimeOut
  BY <1>5, StillTalks DEF TimeOut
<1>6. CASE ReceiveHttpRequestNonblock
  BY <1>6, ReceiveRequestTalks
<1>7. CASE Process
  BY <1>7, ProcessTalks
<1>8. CASE SendHttpResponseNonblock
  BY <1>8, SendResponseTalks
<1>9. CASE Close
  BY <1>9, StillTalks DEF Close
<1>10. CASE UNCHANGED vars
  BY <1>10, StillTalks DEF vars
<1> QED BY <1>1, <1>2, <1>3, <1>4, <1>5, <1>6, <1>7, <1>8, <1>9, <1>10 DEF Next, Client, Server

LEMMA TalkAlways == Spec /\ []Untorn => []Talk
<1>1. Init => Talk
  BY TalkInit
<1>2. HttpInv /\ Talk /\ [Next]_vars /\ Uncut' => Talk'
  BY TalkStep
<1>3. Untorn => Uncut
  BY DEF Untorn, Uncut, Tear
<1> QED BY <1>1, <1>2, <1>3, HttpInvAlways, PTL DEF Spec

(* What ParseHttpBuffer makes of the bytes that ReceiveHttpBuffer gets, in   *)
(* whatever portions, is what the client sent: method, URI, body and        *)
(* whether to keep the connection, request by request, as long as no        *)
(* receipt ends between the cr and the lf that end the headers.             *)
THEOREM HttpUnderstood == Spec /\ []Untorn => []Understood
<1>1. Talk => Understood
  BY DEF Talk, Counts, Understood
<1> QED BY <1>1, TalkAlways, PTL

LEMMA TalkMatches == HttpInv /\ Talk => AnswersMatch
<1> SUFFICES ASSUME HttpInv, Talk PROVE AnswersMatch
  OBVIOUS
<1>1. Len(ans) <= Len(made) /\ Len(made) <= Len(got) /\ \A i \in 1 .. Len(ans) : ans[i] = made[i]
  BY DEF Talk, Counts
<1>2. IsSeq(ans) /\ IsSeq(made)
  BY DEF HttpInv, Talk, Counts, IsSeq
<1> DEFINE n == Len(ans)
           z == SubSeq(made, 1, n)
           one == 1
<1>3. n \in Nat /\ n <= Len(made) /\ one \in Nat /\ one >= 1 /\ n = (IF one <= n THEN n - one + 1 ELSE 0)
      /\ \A k \in 1 .. n : one + k - 1 = k
  BY <1>1, <1>2, SeqLen
<1>4. z = SubSeq(made, one, n)
  OBVIOUS
<1> HIDE DEF n, z, one
<1>5. Slice(made, one, n, n)
  BY <1>2, <1>3, PartOf
<1>6. IsSeq(z) /\ Len(z) = n /\ \A k \in 1 .. n : z[k] = made[one + k - 1]
  BY <1>4, <1>5 DEF Slice
<1>7. \A k \in 1 .. Len(z) : z[k] = ans[k]
  <2>1. \A k \in 1 .. n : ans[k] = made[k]
    BY <1>1 DEF n
  <2> TAKE k \in 1 .. Len(z)
  <2>2. k \in 1 .. n
    BY <1>6
  <2>3. z[k] = made[one + k - 1] /\ one + k - 1 = k
    BY <1>3, <1>6, <2>2
  <2> QED BY <2>1, <2>2, <2>3
<1>8. z = ans
  BY <1>2, <1>6, <1>7, SameSeq DEF n
<1>9. IsPrefix(ans, made)
  BY <1>1, <1>8 DEF IsPrefix, z, n
<1> QED BY <1>1, <1>9 DEF AnswersMatch

(* What ParseHttpBuffer makes of what the client receives are the answers   *)
(* that the server made to its requests, in order, none of them  *)
(* lost, doubled or given to another request.                              *)
THEOREM HttpAnswersMatch == Spec /\ []Untorn => []AnswersMatch
BY TalkMatches, TalkAlways, HttpInvAlways, PTL

LEMMA ProcessAnswers == HttpInv /\ Talk /\ Process => spc' = "send"
<1> SUFFICES ASSUME HttpInv, Talk, Process PROVE spc' = "send"
  OBVIOUS
<1> DEFINE i == Len(got)
           m == conv[i]
<1>1. spc = "process"
  BY DEF Process
<1>2. srv.version = m.version /\ Len(got) = Len(ans) + 1 /\ Len(got) <= Len(conv)
  BY <1>1 DEF Talk, ServerAnswers, Counts
<1>3. i \in 1 .. Len(conv) /\ conv \in Conversations
  BY <1>2, GotLen
<1> HIDE DEF i
<1>4. Proper(m)
  BY <1>3, AskedProper
<1>5. srv.version \in Versions
  BY <1>2, <1>4 DEF Proper
<1>6. srv.version # ""
  BY <1>5, Zenon DEF Versions
<1> QED BY <1>6, Zenon DEF Process

LEMMA RefusesStep == HttpInv /\ Talk /\ Stays /\ RefusesInvalid /\ [Next]_vars /\ Talk' => RefusesInvalid'
<1> SUFFICES ASSUME HttpInv, Talk, Stays, RefusesInvalid, [Next]_vars, Talk', spc' = "refused"
             PROVE  (Remains \/ (Len(got) < Len(conv) /\ ~Valid(conv[Len(got) + 1])))'
  BY DEF RefusesInvalid, Talk, ClientTalks
<1>1. CASE spc = "refused"
  <2>1. UNCHANGED <<conv, got>>
    BY <1>1 DEF vars, Next, Client, Server, Request, SendHttpRequest, ReceiveHttpResponse, Disconnect, TimeOut,
                ReceiveHttpRequestNonblock, Process, SendHttpResponseNonblock, Close
  <2> QED BY <1>1, <2>1 DEF RefusesInvalid, Remains, Valid
<1>2. CASE spc # "refused"
  <2>1. ReceiveHttpRequestNonblock
    <3>1. ~Process
      BY ProcessAnswers
    <3> QED BY <1>2, <3>1 DEF vars, Next, Client, Server, Request, SendHttpRequest, ReceiveHttpResponse, Disconnect,
                TimeOut, SendHttpResponseNonblock, Close
  <2> DEFINE r == ReceiveHttpBuffer(srv, srv.req, toSrv)
             s == ParseHttpBuffer(r.e, r.b)
             u == UncompressHttpBody(s.e, Terminate(s.b))
  <2>2. spc = "receive" /\ toSrv # <<>> /\ conv' = conv
    BY <2>1 DEF ReceiveHttpRequestNonblock
  <2>3. s.ret \in {"invalid", "lost"} /\ got' = got
    BY <1>2, <2>1, <2>2 DEF ReceiveHttpRequestNonblock
  <2>4. CASE Spoilt
    BY <2>2, <2>3, <2>4 DEF Spoilt, Remains
  <2>5. CASE ~Spoilt
    <3>1. Meets(r, s, u)
      <4> HIDE DEF r, s, u
      <4>1. r = ReceiveHttpBuffer(srv, srv.req, toSrv) /\ s = ParseHttpBuffer(r.e, r.b)
            /\ u = UncompressHttpBody(s.e, Terminate(s.b))
        BY DEF r, s, u
      <4> QED BY <2>2, <2>5, <4>1, TurnMeets
    <3> HIDE DEF r, s, u
    <3> DEFINE m == conv[Len(got) + 1]
               x == Asking
    <3>2. AskedIs(m, x) /\ Len(got) < Len(conv) /\ Heeds(x, srv, srv.req, Unsent(cli.req), r, s)
      BY <3>1 DEF Meets
    <3>3. ~Moving(srv, srv.req)
      <4> DEFINE e == srv
                 b == srv.req
      <4>1. Roomy(b)
        BY DEF HttpInv, EnvRoomy
      <4>2. e.chunk_end > 0 => Len(b.data) + 1 <= b.size - 1
        BY <2>2 DEF Stays
      <4>3. CASE e.chunk_end > 0
        <5> HIDE DEF e, b
        <5>1. Len(b.data) + 1 <= b.size - 1
          BY <4>2, <4>3
        <5>2. ~Moving(e, b)
          BY <4>1, <5>1, RoomUnmoved
        <5> QED BY <5>2 DEF e, b
      <4>4. CASE ~(e.chunk_end > 0)
        BY <4>4 DEF Moving
      <4> QED BY <4>3, <4>4
    <3>4. s.ret = "invalid"
      BY <2>3, <3>2, <3>3 DEF Heeds
    <3>5. x.method \notin Methods /\ x.method = m.method
      BY <3>2, <3>4 DEF Heeds, AskedIs, Text
    <3>6. ~Valid(m)
      BY <3>5 DEF Valid
    <3> QED BY <2>2, <2>3, <3>2, <3>6
  <2> QED BY <2>4, <2>5
<1> QED BY <1>1, <1>2

(* ReceiveHttpRequestNonblock refuses a request only if that is not a valid *)
(* one, or if a chunked one before it left its last line behind, and        *)
(* ReceiveHttpResponse refuses no answer, as long as besides the buffer of  *)
(* a chunked request is not moved by realloc while it is parsed.            *)
THEOREM HttpRefusesInvalid == Spec /\ []Untorn /\ []Stays => []RefusesInvalid
<1>1. Init => RefusesInvalid
  BY DEF Init, RefusesInvalid
<1>2. HttpInv /\ Talk /\ Stays /\ RefusesInvalid /\ [Next]_vars /\ Talk' => RefusesInvalid'
  BY RefusesStep
<1> QED BY <1>1, <1>2, HttpInvAlways, TalkAlways, PTL DEF Spec

(* What fits a buffer is read whole, without moving it.                    *)
TakesWhole(b, stream, r) ==
  /\ r.b.size = b.size
  /\ Len(r.b.data) = Len(b.data) \/ Len(r.b.data) = Len(b.data) + Len(stream)
LEMMA TakesAll ==
  ASSUME NEW e, NEW b, Roomy(b), NEW stream, IsSeq(stream), stream # <<>>,
         Len(b.data) + Len(stream) <= b.size - 1, NEW r, r = ReceiveHttpBuffer(e, b, stream)
  PROVE  TakesWhole(b, stream, r)
<1> DEFINE need == Len(b.data) + 1
           size == ReallocHttpBuffer(b, need)
           room == size - 1 - Len(b.data)
           n == Min({room, Len(stream)})
           part == SubSeq(stream, 1, n)
           rest == SubSeq(stream, n + 1, Len(stream))
           f == [e EXCEPT !.moved = @ \/ (size # b.size /\ e.chunk_end > 0)]
           c == [b EXCEPT !.data = @ \o part, !.size = size]
           z == [e |-> f, b |-> c, rest |-> rest]
<1>1. Len(b.data) \in Nat /\ Len(stream) \in Nat /\ IsSeq(b.data) /\ b.size \in Nat \ {0} /\ Len(stream) >= 1
  <2>1. Len(stream) # 0
    BY IsNone
  <2> QED BY <2>1, RoomyLen, SeqLen DEF Roomy, Data
<1>2. CASE b.process = 0 /\ b.data # <<>>
  BY <1>2 DEF ReceiveHttpBuffer, TakesWhole
<1>3. CASE ~(b.process = 0 /\ b.data # <<>>)
  <2>1. size = b.size
    <3>1. Len(b.data) + 1 <= b.size - 1
      BY <1>1
    <3> QED BY <3>1, ReallocSame
  <2>2. r = z
    BY <1>3 DEF ReceiveHttpBuffer
  <2> HIDE DEF size
  <2>3. n = Len(stream)
    <3> DEFINE S == {room, Len(stream)}
    <3>1. room \in Nat /\ room >= Len(stream)
      BY <1>1, <2>1
    <3>2. S \subseteq Nat /\ S # {}
      BY <1>1, <3>1
    <3>3. Min(S) \in S /\ \A k \in S : Min(S) <= k
      <4> HIDE DEF S
      <4> QED BY <3>2, LeastOf
    <3>4. Min(S) <= Len(stream)
      BY <3>3
    <3> QED BY <1>1, <3>1, <3>3, <3>4
  <2> HIDE DEF n
  <2>4. IsSeq(part) /\ Len(part) = Len(stream)
    <3>1. IsSeq(part) /\ Len(part) = IF 1 <= n THEN n - 1 + 1 ELSE 0
      BY <1>1, <2>3, Part
    <3> QED BY <1>1, <2>3, <3>1
  <2>5. DOMAIN c = {"data", "process", "size"} /\ c.data = b.data \o part /\ c.size = size
    BY DEF Roomy, Data
  <2> HIDE DEF c, f, part, rest
  <2>6. r.b = c
    BY <2>2
  <2>7. Len(b.data \o part) = Len(b.data) + Len(part)
    BY <1>1, <2>4, Joined
  <2> QED BY <2>1, <2>4, <2>5, <2>6, <2>7 DEF TakesWhole
<1> QED BY <1>2, <1>3

(* An end that has read up to a place, and been sent up to another, neither *)
(* of them between that cr and lf, is at neither after a turn.             *)
Whole(x, b, s) == ~Cleft(x, Len(s.b.data)) /\ s.b.size = b.size
LEMMA WholeTurn ==
  ASSUME NEW x, Laid(x), IsSeq(x.w), NEW e, EnvOK(e), e.step # "DONE", NEW b, Roomy(b), Placed(b),
         NEW stream, IsSeq(stream), stream # <<>>, NEW more, IsSeq(more), Onway(x, e, b, stream \o more),
         NEW r, r = ReceiveHttpBuffer(e, b, stream), NEW s, s = ParseHttpBuffer(r.e, r.b),
         Len(x.w) < b.size, ~Cleft(x, Len(b.data)), ~Cleft(x, Len(x.w) - Len(more))
  PROVE  Whole(x, b, s)
<1> DEFINE D == Len(b.data)
           W == Len(x.w)
           S == Len(stream)
           M == Len(more)
<1>1. D \in Nat /\ W \in Nat /\ S \in Nat /\ M \in Nat /\ b.size \in Nat
  BY RoomyLen, SeqLen DEF Roomy
<1>2. D <= W /\ stream \o more = SubSeq(x.w, D + 1, W)
  BY ReadyStill DEF Onway
<1> HIDE DEF D, W, S, M
<1>3. S + M = W - D
  <2>1. Splits(x.w, D, stream, more)
    BY <1>1, <1>2, Ahead DEF W
  <2> QED BY <2>1 DEF Splits, S, M, W
<1>4. D + S <= b.size - 1 /\ W - M = D + S
  BY <1>1, <1>3 DEF W
<1>5. TakesWhole(b, stream, r)
  BY <1>4, TakesAll DEF D, S
<1>6. Filled(e, b, r)
  BY ReceiveFilled
<1>7. r.b.process \in 0 .. Len(r.b.data) /\ EnvOK(r.e) /\ r.e.step # "DONE" /\ Data(r.b)
  <2>1. Len(r.b.data) \in Nat /\ Len(b.data) \in Nat
    BY <1>6, RoomyLen DEF Filled
  <2> QED BY <1>6, <2>1 DEF Filled, Placed, Roomy
<1>8. Returned(r.e, r.b, s)
  BY <1>7, ParseReturns
<1>9. Len(s.b.data) = Len(r.b.data) /\ s.b.size = r.b.size
  BY <1>8 DEF Returned
<1> QED BY <1>4, <1>5, <1>9 DEF TakesWhole, Whole, D, S, W, M

(* The cr and lf that end the headers are within the message.              *)
LEMMA EndsApart ==
  ASSUME NEW x, Laid(x), IsSeq(x.w), NEW n, n \in {0, Len(x.w)}
  PROVE  ~Cleft(x, n)
<1> DEFINE h == x.h[x.n]
           B == Len(x.body)
           W == Len(x.w)
<1>1. h \in Nat /\ h >= 7 /\ x.eol \in {1, 2} /\ x.base = h + x.eol /\ B \in Nat /\ W \in Nat
  <2>1. x.n \in 0 .. x.n
    BY DEF Laid
  <2> QED BY <2>1, SeqLen DEF Laid, IsSeq
<1>2. W >= x.base
  <2>1. CASE x.te = 0
    <3>1. W = x.base + B
      BY <2>1 DEF Laid, Follows
    <3> HIDE DEF h, B, W
    <3> QED BY <1>1, <3>1
  <2>2. CASE x.te # 0
    <3> DEFINE j == B + 1
               end == x.c[j]
    <3>1. j \in 1 .. B + 1
      BY <1>1
    <3>2. W = end + 3 /\ end \in Nat /\ end >= x.base + j - 1
      BY <2>2, <3>1 DEF Laid, Follows
    <3> HIDE DEF h, B, W, end
    <3> QED BY <1>1, <3>2
  <2> QED BY <2>1, <2>2
<1>3. n \in {0, W}
  OBVIOUS
<1> HIDE DEF h, B, W
<1>4. n # x.base - 1
  BY <1>1, <1>2, <1>3
<1> QED BY <1>4 DEF Cleft

(* It is the place that the end of a segment may tear.                     *)
LEMMA LineEnds ==
  ASSUME NEW x, Laid(x), NEW n, Cleft(x, n)
  PROVE  Tears(x.w, n)
<1>1. x.eol = 2 /\ n = x.base - 1 /\ x.base = x.h[x.n] + x.eol /\ x.n \in Nat
  BY DEF Laid, Cleft
<1>2. x.h[x.n] \in Nat /\ x.h[x.n] >= 7
  <2>1. x.n \in 0 .. x.n
    BY <1>1
  <2> QED BY <2>1 DEF Laid
<1>3. x.w[n] = "cr"
  BY <1>1 DEF Laid
<1>4. x.w[x.h[x.n]] = "lf"
  <2>1. CASE x.n = 0
    <3>1. (x.h[0] = 7 /\ x.w[7] = "lf") \/ (x.h[0] = 6 + x.eol /\ x.w[6 + x.eol] = "lf")
      BY DEF Laid, Begins
    <3> QED BY <2>1, <3>1
  <2>2. CASE x.n # 0
    <3> DEFINE j == x.n - 1
    <3>1. j \in 0 .. x.n - 1 /\ j + 1 = x.n
      BY <1>1, <2>2
    <3> HIDE DEF j
    <3>2. Line(x, j)
      BY <3>1 DEF Laid
    <3>3. x.h[j + 1] = x.h[j] + 4 + x.eol /\ x.w[x.h[j] + 4 + x.eol] = "lf"
      BY <3>2 DEF Line
    <3> QED BY <3>1, <3>3
  <2> QED BY <2>1, <2>2
<1>5. n - 1 = x.h[x.n] /\ n > 1
  BY <1>1, <1>2
<1> QED BY <1>3, <1>4, <1>5 DEF Tears

LEMMA ApartSends ==
  ASSUME Torn = FALSE, NEW x, Laid(x), NEW b, Roomy(b), b.data = x.w, NEW k \in Sendable(b),
         NEW c, c = SendHttpBuffer(b, k)
  PROVE  ~Cleft(x, Len(x.w) - Len(Unsent(c)))
<1> DEFINE W == Len(x.w)
           p == b.process
           n == p + k
           U == Len(Unsent(c))
<1>1. W \in Nat /\ p \in Nat /\ k \in Nat /\ k <= W - p /\ ~Tears(x.w, n)
  BY RoomyLen DEF Sendable, Unprocessed, Roomy
<1>2. c.data = b.data /\ c.process = n
  BY DEF SendHttpBuffer, Roomy, Data
<1>3. U = W - n
  <2>1. Unsent(c) = SubSeq(x.w, n + 1, W)
    BY <1>2 DEF Unsent
  <2> HIDE DEF W, p
  <2>2. Len(SubSeq(x.w, n + 1, W)) = IF n + 1 <= W THEN W - (n + 1) + 1 ELSE 0
    <3>1. n + 1 \in Int /\ W \in Int
      BY <1>1
    <3> HIDE DEF n
    <3> QED BY <3>1, Part
  <2> QED BY <1>1, <2>1, <2>2
<1>4. ~Cleft(x, n)
  <2> HIDE DEF n
  <2> QED BY <1>1, LineEnds
<1>5. W - U = n
  <2> HIDE DEF U, W, p
  <2> QED BY <1>1, <1>3
<1> QED BY <1>4, <1>5

LEMMA UnsentNone == ASSUME NEW x, Laid(x), IsSeq(x.w), NEW u, u \in {<<>>, x.w} PROVE ~Cleft(x, Len(x.w) - Len(u))
<1> DEFINE W == Len(x.w)
           U == Len(u)
<1>1. W \in Nat /\ U \in {0, W}
  BY SeqLen
<1> HIDE DEF U
<1>2. W - U \in {0, W}
  <2> HIDE DEF W
  <2> QED BY <1>1
<1> DEFINE n == W - U
<1> HIDE DEF n
<1>3. n \in {0, Len(x.w)}
  BY <1>2 DEF n
<1>4. ~Cleft(x, n)
  BY <1>3, EndsApart
<1> QED BY <1>4 DEF n, U

LEMMA ApartStarts ==
  ASSUME NEW x, Laid(x), IsSeq(x.w), NEW b, Unsent(b) \in {<<>>, x.w}, NEW c, c.data = <<>>
  PROVE  Apart(x, b, c)
<1>1. Len(c.data) = 0
  OBVIOUS
<1> DEFINE n == Len(c.data)
<1>2. n \in {0, Len(x.w)}
  BY <1>1
<1> HIDE DEF n
<1>3. ~Cleft(x, n)
  BY <1>2, EndsApart
<1>4. ~Cleft(x, Len(x.w) - Len(Unsent(b)))
  BY UnsentNone
<1> QED BY <1>3, <1>4 DEF Apart, n

LEMMA FitType == ReqFit \in Nat /\ RspFit \in Nat /\ ReqFit <= ReqMax /\ RspFit <= RspMax
                 /\ ReqFit <= ReqSize /\ RspFit <= RspSize
BY ParserAssumption DEF ReqFit, RspFit, Lesser

LEMMA ReceiveGrows ==
  ASSUME NEW e, NEW b, Roomy(b), NEW stream, NEW r, r = ReceiveHttpBuffer(e, b, stream)
  PROVE  r.b.size \in Nat /\ r.b.size >= b.size
<1> DEFINE need == Len(b.data) + 1
           size == ReallocHttpBuffer(b, need)
           room == size - 1 - Len(b.data)
           n == Min({room, Len(stream)})
           part == SubSeq(stream, 1, n)
           f == [e EXCEPT !.moved = @ \/ (size # b.size /\ e.chunk_end > 0)]
           c == [b EXCEPT !.data = @ \o part, !.size = size]
           z == [e |-> f, b |-> c, rest |-> SubSeq(stream, n + 1, Len(stream))]
<1>1. b.size \in Nat /\ b.size >= b.size
  BY DEF Roomy
<1>2. CASE b.process = 0 /\ b.data # <<>>
  BY <1>1, <1>2 DEF ReceiveHttpBuffer
<1>3. CASE ~(b.process = 0 /\ b.data # <<>>)
  <2>1. size \in Nat /\ size >= b.size
    <3>1. need \in Nat /\ b.size \in Nat \ {0}
      BY RoomyLen DEF Roomy
    <3> HIDE DEF need
    <3> QED BY <3>1, ReallocFits
  <2>2. r = z
    BY <1>3 DEF ReceiveHttpBuffer
  <2> HIDE DEF size, part, f, n
  <2>3. c.size = size
    BY DEF Roomy, Data
  <2> HIDE DEF c
  <2> QED BY <2>1, <2>2, <2>3
<1> QED BY <1>2, <1>3

LEMMA UncompressGrows ==
  ASSUME NEW e, EnvOK(e), NEW b, Roomy(b), NEW u, u = UncompressHttpBody(e, b)
  PROVE  u.b.size >= b.size
<1> DEFINE out == Inflate(GetHttpBodyPtr(e, b))
           need == e.body + Len(out) + 1
           size == IF need > b.size THEN need ELSE b.size
           c == [b EXCEPT !.data = SubSeq(@, 1, e.body) \o out, !.size = size]
           f == [e EXCEPT !.content_length = Len(out)]
<1>1. b.size \in Nat
  BY DEF Roomy
<1>2. CASE e.encoding # <<"gzip">>
  BY <1>1, <1>2 DEF UncompressHttpBody
<1>3. CASE e.encoding = <<"gzip">>
  <2>1. u = [e |-> f, b |-> c]
    BY <1>3 DEF UncompressHttpBody
  <2>2. need \in Nat
    <3>1. IsSeq(Zipped)
      BY Tuples DEF Zipped
    <3>2. IsSeq(GetHttpBodyPtr(e, b))
      <4>1. e.body + 1 \in Int /\ e.body + e.content_length \in Int
        BY DEF EnvOK
      <4>2. IsSeq(SubSeq(b.data, e.body + 1, e.body + e.content_length))
        BY <4>1, Part
      <4>3. IsSeq(<<>>)
        BY Tuples
      <4> QED BY <4>2, <4>3 DEF GetHttpBodyPtr
    <3>3. Len(out) \in Nat
      <4>1. IsSeq(out)
        BY <3>1, <3>2 DEF Inflate
      <4> QED BY <4>1, SeqLen
    <3> HIDE DEF out
    <3> QED BY <3>3 DEF EnvOK
  <2> HIDE DEF need
  <2>3. size >= b.size
    BY <1>1, <2>2
  <2> HIDE DEF size, out
  <2>4. c.size = size
    BY DEF Roomy, Data
  <2> HIDE DEF c, f
  <2> QED BY <2>1, <2>3, <2>4
<1> QED BY <1>2, <1>3

LEMMA TerminateSame == ASSUME NEW b, Roomy(b) PROVE Terminate(b).size = b.size
BY DEF Terminate, Roomy, Data

Roomier(e, b, s, u) ==
  /\ EnvOK(s.e) /\ s.e.req = e.req /\ s.e.rsp = e.rsp /\ Roomy(s.b) /\ s.b.size >= b.size
  /\ EnvOK(u.e) /\ u.e.req = e.req /\ u.e.rsp = e.rsp /\ Roomy(u.b) /\ u.b.size >= b.size
LEMMA TurnGrows ==
  ASSUME NEW e, EnvOK(e), e.step # "DONE", NEW b, Roomy(b), Placed(b), NEW stream, IsSeq(stream),
         NEW r, r = ReceiveHttpBuffer(e, b, stream), NEW s, s = ParseHttpBuffer(r.e, r.b),
         NEW c, c \in {s.b, Terminate(s.b)}, NEW u, u = UncompressHttpBody(s.e, c)
  PROVE  Roomier(e, b, s, u)
<1>1. Filled(e, b, r) /\ Roomy(s.b)
  BY ReceiveFilled, TurnRoomy
<1>2. r.b.process \in 0 .. Len(r.b.data) /\ EnvOK(r.e) /\ r.e.step # "DONE" /\ Data(r.b)
  <2>1. Len(r.b.data) \in Nat /\ Len(b.data) \in Nat
    BY <1>1, RoomyLen DEF Filled
  <2> QED BY <1>1, <2>1 DEF Filled, Placed, Roomy
<1>3. Returned(r.e, r.b, s)
  BY <1>2, ParseReturns
<1>4. EnvOK(s.e) /\ s.e.req = e.req /\ s.e.rsp = e.rsp /\ s.b.size = r.b.size
  BY <1>1, <1>3 DEF Returned, Filled
<1>5. r.b.size \in Nat /\ r.b.size >= b.size
  BY ReceiveGrows
<1> DEFINE f == s.e
           d == s.b
           t == Terminate(d)
<1>6. EnvOK(f) /\ Roomy(d) /\ c \in {d, t} /\ u = UncompressHttpBody(f, c)
  BY <1>1, <1>4
<1> HIDE DEF f, d
<1>7. Roomy(t) /\ t.size = d.size
  BY <1>6, TerminateRoomy, TerminateSame
<1> HIDE DEF t
<1>8. Roomy(c) /\ c.size = d.size
  BY <1>6, <1>7
<1>9. EnvOK(u.e) /\ u.e.req = f.req /\ u.e.rsp = f.rsp /\ Roomy(u.b) /\ u.b.size >= c.size
  <2>1. EnvOK(f) /\ Roomy(c) /\ u = UncompressHttpBody(f, c)
    BY <1>6, <1>8
  <2>2. EnvOK(u.e) /\ u.e.req = f.req /\ u.e.rsp = f.rsp /\ Roomy(u.b)
    BY <2>1, UncompressRoomy
  <2>3. u.b.size >= c.size
    BY <2>1, UncompressGrows
  <2> QED BY <2>2, <2>3
<1>10. s.b.size >= b.size
  BY <1>4, <1>5
<1>11. u.b.size >= b.size
  <2>1. u.b.size \in Nat /\ c.size \in Nat /\ b.size \in Nat /\ c.size = r.b.size
    BY <1>4, <1>5, <1>8, <1>9 DEF Roomy, d
  <2> QED BY <1>5, <1>9, <2>1
<1> QED BY <1>1, <1>4, <1>9, <1>10, <1>11 DEF Roomier, f

LEMMA ResetSizes ==
  ASSUME NEW e, EnvRoomy(e), NEW f, f = ResetHttpEnv(e)
  PROVE  /\ e.req.size >= ReqFit => f.req.size >= ReqFit
         /\ e.rsp.size >= RspFit => f.rsp.size >= RspFit
<1> DEFINE c == CreateHttpEnv(e.role)
           reform(b) == e.reforming /\ Unprocessed(b) > 0
           q == IF reform(e.req) THEN ReformingHttpBuffer(e.req) ELSE ResetHttpBuffer(e.req, ReqMax)
           r == IF reform(e.rsp) /\ ~reform(e.req) THEN ReformingHttpBuffer(e.rsp)
                                                   ELSE ResetHttpBuffer(e.rsp, RspMax)
           m == e.reforming /\ ~reform(e.req) /\ ~reform(e.rsp)
<1>1. DOMAIN c = EnvFields
  BY DEF CreateHttpEnv, EnvFields
<1>2. f = [c EXCEPT !.req = q, !.rsp = r, !.reforming = m]
  BY DEF ResetHttpEnv
<1>3. ASSUME NEW b, Roomy(b), NEW max \in Nat, NEW fit \in Nat, fit <= max, b.size >= fit
      PROVE  ReformingHttpBuffer(b).size >= fit /\ ResetHttpBuffer(b, max).size >= fit
  <2>1. ReformingHttpBuffer(b).size = b.size
    BY <1>3 DEF ReformingHttpBuffer, Roomy, Data
  <2>2. ResetHttpBuffer(b, max).size = IF b.size > max THEN max ELSE b.size
    BY DEF ResetHttpBuffer, InitHttpBuffer
  <2> QED BY <1>3, <2>1, <2>2 DEF Roomy
<1>4. ReqMax \in Nat /\ RspMax \in Nat /\ ReqFit \in Nat /\ RspFit \in Nat /\ ReqFit <= ReqMax /\ RspFit <= RspMax
  BY ParserAssumption, FitType
<1>5. e.req.size >= ReqFit => q.size >= ReqFit
  BY <1>3, <1>4 DEF EnvRoomy
<1>6. e.rsp.size >= RspFit => r.size >= RspFit
  BY <1>3, <1>4 DEF EnvRoomy
<1> HIDE DEF c, q, r, m
<1>7. f.req = q /\ f.rsp = r
  BY <1>1, <1>2 DEF EnvFields
<1> QED BY <1>5, <1>6, <1>7

LEMMA AmpleStep == HttpInv /\ Ample /\ [Next]_vars => Ample'
<1> SUFFICES ASSUME HttpInv, Ample, [Next]_vars PROVE Ample'
  OBVIOUS
<1>1. EnvRoomy(cli) /\ EnvRoomy(srv) /\ EnvOK(cli) /\ EnvOK(srv)
  BY DEF HttpInv, EnvRoomy
<1>2. ReqFit \in Nat /\ RspFit \in Nat
  BY FitType
<1>3. CASE Request
  <2> DEFINE e == ResetHttpEnv(cli)
             b == StrcatfHttpBuffer(e.req, Wire(conv[Asked]))
  <2>1. cli' = [e EXCEPT !.req = b] /\ srv' = srv
    BY <1>3 DEF Request
  <2>2. EnvOK(e) /\ e.rsp.size >= RspFit
    <3> HIDE DEF e
    <3> QED BY <1>1, ResetFresh, ResetSizes DEF Ample, Fresh, EnvRoomy, e
  <2> HIDE DEF e, b
  <2>3. cli'.rsp = e.rsp
    BY <2>1, <2>2 DEF EnvOK, EnvFields
  <2> QED BY <2>1, <2>2, <2>3 DEF Ample
<1>4. CASE SendHttpRequest
  <2>1. srv' = srv /\ cli'.rsp = cli.rsp
    BY <1>1, <1>4 DEF SendHttpRequest, EnvOK, EnvFields
  <2> QED BY <2>1 DEF Ample
<1>5. CASE ReceiveHttpResponse
  <2> DEFINE r == ReceiveHttpBuffer(cli, cli.rsp, toCli)
             s == ParseHttpBuffer(r.e, r.b)
             u == UncompressHttpBody(s.e, s.b)
             b == cli.rsp
  <2>1. cli' \in {[s.e EXCEPT !.rsp = s.b], [u.e EXCEPT !.rsp = u.b], cli} /\ srv' = srv
        /\ cpc = "receive"
    BY <1>5 DEF ReceiveHttpResponse
  <2>2. Roomy(b) /\ Placed(b) /\ IsSeq(toCli) /\ cli.step # "DONE"
    BY <2>1 DEF HttpInv, EnvRoomy, Waiting
  <2>3. Roomier(cli, b, s, u)
    <3> DEFINE t == s.b
    <3>1. r = ReceiveHttpBuffer(cli, b, toCli) /\ s = ParseHttpBuffer(r.e, r.b)
          /\ t \in {s.b, Terminate(s.b)} /\ u = UncompressHttpBody(s.e, t)
      OBVIOUS
    <3> HIDE DEF r, s, u, t, b
    <3> QED BY <1>1, <2>2, <3>1, TurnGrows
  <2> HIDE DEF r, s, u
  <2>4. b.size \in Nat /\ s.b.size \in Nat /\ u.b.size \in Nat /\ s.b.size >= b.size /\ u.b.size >= b.size
        /\ EnvOK(s.e) /\ EnvOK(u.e) /\ b.size >= RspFit
    BY <2>2, <2>3 DEF Roomier, Roomy, Ample
  <2>5. cli'.rsp \in {s.b, u.b, b}
    BY <2>1, <2>4 DEF EnvOK, EnvFields
  <2>6. cli'.rsp.size \in {s.b.size, u.b.size, b.size}
    BY <2>5
  <2> HIDE DEF b
  <2> QED BY <1>2, <2>1, <2>4, <2>6 DEF Ample
<1>6. CASE ReceiveHttpRequestNonblock
  <2> DEFINE r == ReceiveHttpBuffer(srv, srv.req, toSrv)
             s == ParseHttpBuffer(r.e, r.b)
             u == UncompressHttpBody(s.e, Terminate(s.b))
             b == srv.req
  <2>1. srv' \in {[s.e EXCEPT !.req = s.b], [u.e EXCEPT !.req = u.b], srv} /\ cli' = cli
        /\ spc = "receive"
    BY <1>6 DEF ReceiveHttpRequestNonblock
  <2>2. Roomy(b) /\ Placed(b) /\ IsSeq(toSrv) /\ srv.step # "DONE"
    BY <2>1 DEF HttpInv, EnvRoomy, Waiting
  <2>3. Roomier(srv, b, s, u)
    <3> DEFINE t == Terminate(s.b)
    <3>1. r = ReceiveHttpBuffer(srv, b, toSrv) /\ s = ParseHttpBuffer(r.e, r.b)
          /\ t \in {s.b, Terminate(s.b)} /\ u = UncompressHttpBody(s.e, t)
      OBVIOUS
    <3> HIDE DEF r, s, u, t, b
    <3> QED BY <1>1, <2>2, <3>1, TurnGrows
  <2> HIDE DEF r, s, u
  <2>4. b.size \in Nat /\ s.b.size \in Nat /\ u.b.size \in Nat /\ s.b.size >= b.size /\ u.b.size >= b.size
        /\ EnvOK(s.e) /\ EnvOK(u.e) /\ b.size >= ReqFit
    BY <2>2, <2>3 DEF Roomier, Roomy, Ample
  <2>5. srv'.req \in {s.b, u.b, b}
    BY <2>1, <2>4 DEF EnvOK, EnvFields
  <2>6. srv'.req.size \in {s.b.size, u.b.size, b.size}
    BY <2>5
  <2> HIDE DEF b
  <2> QED BY <1>2, <2>1, <2>4, <2>6 DEF Ample
<1>7. CASE Process
  <2>1. cli' = cli /\ srv'.req = srv.req
    BY <1>1, <1>7, Zenon DEF Process, EnvOK, EnvFields
  <2> QED BY <2>1 DEF Ample
<1>8. CASE SendHttpResponseNonblock
  <2>1. PICK k \in Sendable(srv.rsp) :
          LET e == [srv EXCEPT !.rsp = SendHttpBuffer(@, k)]
          IN  srv' = IF k = Unprocessed(srv.rsp) THEN ResetHttpEnv(e) ELSE e
    BY <1>8 DEF SendHttpResponseNonblock
  <2> DEFINE b == SendHttpBuffer(srv.rsp, k)
             e == [srv EXCEPT !.rsp = b]
  <2>2. srv' \in {e, ResetHttpEnv(e)} /\ cli' = cli
    BY <1>8, <2>1 DEF SendHttpResponseNonblock
  <2>3. Roomy(b)
    BY <1>1, SendRoomy DEF EnvRoomy
  <2> HIDE DEF b
  <2>4. EnvRoomy(e) /\ e.req = srv.req
    BY <1>1, <2>3 DEF EnvRoomy, EnvOK, EnvFields
  <2> HIDE DEF e
  <2>5. srv'.req.size >= ReqFit
    BY <2>2, <2>4, ResetSizes DEF Ample
  <2> QED BY <2>2, <2>5 DEF Ample
<1>9. CASE Disconnect \/ TimeOut \/ Close \/ UNCHANGED vars
  BY <1>9 DEF Ample, Disconnect, TimeOut, Close, vars
<1> QED BY <1>3, <1>4, <1>5, <1>6, <1>7, <1>8, <1>9 DEF Next, Client, Server

LEMMA ReceivesSends ==
  /\ Sends /\ ReceiveHttpResponse => Sends'
  /\ Sends /\ ReceiveHttpRequestNonblock => Sends'
<1>1. ASSUME Sends, ReceiveHttpResponse PROVE Sends'
  <2>1. cpc' # "send" /\ spc' = spc /\ srv' = srv /\ Answering' = Answering
    BY <1>1, SameAnswering DEF ReceiveHttpResponse
  <2> QED BY <1>1, <2>1 DEF Sends
<1>2. ASSUME Sends, ReceiveHttpRequestNonblock PROVE Sends'
  <2>1. spc' # "send" /\ cpc' = cpc /\ cli' = cli /\ conv' = conv /\ ans' = ans
    BY <1>2 DEF ReceiveHttpRequestNonblock
  <2>2. Wire(conv[Asked])' = Wire(conv[Asked])
    BY <2>1 DEF Asked
  <2> QED BY <1>2, <2>1, <2>2 DEF Sends
<1> QED BY <1>1, <1>2

LEMMA RequestSends ==
  HttpInv /\ Talk /\ Request
    => /\ cli'.req.data = Wire(conv[Asked]) /\ cli'.req.process = 0 /\ cli'.rsp.data = <<>>
<1> SUFFICES ASSUME HttpInv, Talk, Request
             PROVE  cli'.req.data = Wire(conv[Asked]) /\ cli'.req.process = 0 /\ cli'.rsp.data = <<>>
  OBVIOUS
<1> DEFINE e == ResetHttpEnv(cli)
           w == Wire(conv[Asked])
           b == StrcatfHttpBuffer(e.req, w)
<1>1. cli' = [e EXCEPT !.req = b] /\ cpc = "idle" /\ Asked <= Len(conv)
  BY DEF Request
<1>2. cli.role = "client" /\ cli.reforming = FALSE
  BY <1>1 DEF Talk, ClientTalks
<1>3. e.req.data = <<>> /\ e.req.process = 0 /\ e.rsp.data = <<>>
  <2> DEFINE role == "client"
  <2>1. cli.role = role /\ cli.reforming = FALSE
    BY <1>2
  <2> HIDE DEF role, e
  <2> QED BY <2>1, ResetNew DEF role, e
<1>4. Fresh(e)
  <2> HIDE DEF e
  <2> QED BY ResetFresh DEF HttpInv, e
<1>5. IsSeq(w)
  <2>1. Asked \in 1 .. Len(conv) /\ conv \in Conversations
    BY <1>1, GotLen DEF Asked
  <2> QED BY <2>1, WireIs
<1> HIDE DEF e, w
<1>6. b.data = <<>> \o w /\ b.process = 0
  BY <1>3, <1>4 DEF StrcatfHttpBuffer, Fresh, EnvRoomy, Roomy, Data
<1> HIDE DEF b
<1>7. b.data = w
  BY <1>5, <1>6, JoinEmpty
<1>8. cli'.req = b /\ cli'.rsp = e.rsp
  BY <1>1, <1>4 DEF Fresh, EnvRoomy, EnvOK, EnvFields
<1> QED BY <1>3, <1>6, <1>7, <1>8 DEF w

Composed == /\ Laid(Answering') /\ IsSeq(Answering'.w)
            /\ srv'.rsp.data = Answering'.w /\ Unsent(srv'.rsp) = Answering'.w /\ cli'.rsp.data = <<>>
LEMMA ProcessSends == HttpInv /\ Talk /\ Process => Composed
<1> SUFFICES ASSUME HttpInv, Talk, Process PROVE Composed
  OBVIOUS
<1>1. HttpInv' /\ Talk' /\ spc' = "send"
  BY ProcessKeeps, ProcessTalks, ProcessAnswers
<1>2. UNCHANGED <<conv, cli, toSrv, toCli, cpc, got, ans>> /\ spc = "process"
  BY DEF Process
<1>3. Len(made) = Len(ans) /\ Clean("client", cli, cli.rsp) /\ toCli = <<>>
  BY <1>2 DEF Talk, ServerAnswers, AnswerTravels
<1>4. PICK a \in {Answers[((Len(got) - 1) % Len(Answers)) + 1]} :
        srv' = [srv EXCEPT !.rsp = FormatHttpResponse(srv, a), !.statuscode = a.code]
  BY <1>1, Zenon DEF Process
<1>5. IsSeq(a.body)
  <2> DEFINE n == ((Len(got) - 1) % Len(Answers)) + 1
  <2>1. Len(got) \in Nat /\ Len(got) - 1 \in Int
    BY GotLen
  <2>2. n \in 1 .. Len(Answers) /\ a = Answers[n]
    BY <2>1, HttpAssumption
  <2> HIDE DEF n
  <2> QED BY <2>2, HttpAssumption DEF IsSeq
<1>6. EnvOK(srv) /\ Roomy(srv.rsp) /\ srv.rsp.process = 0
  BY <1>2 DEF HttpInv, EnvRoomy
<1> DEFINE b == FormatHttpResponse(srv, a)
           c == a.code
<1>7. b.process = 0
  <2> HIDE DEF b
  <2> QED BY <1>5, <1>6, Formatted DEF b
<1>8. srv' = [srv EXCEPT !.rsp = b, !.statuscode = c]
  BY <1>4
<1> HIDE DEF b, c
<1>9. srv'.rsp = b
  BY <1>6, <1>8 DEF EnvOK, EnvFields
<1>10. Roomy(b)
  BY <1>1, <1>9 DEF HttpInv, EnvRoomy
<1>11. Unsent(b) = b.data /\ IsSeq(b.data)
  BY <1>7, <1>10, UnsentAll DEF Roomy, Data
<1>12. ToClient' = b.data
  <2>1. ToClient' = <<>> \o b.data
    BY <1>2, <1>3, <1>9, <1>11 DEF ToClient
  <2> QED BY <1>11, <2>1, JoinEmpty
<1> DEFINE x == Answering'
<1>13. Len(made') = Len(got') /\ Len(got') = Len(ans') + 1
  BY <1>1 DEF Talk, ServerAnswers
<1>14. Onway(x, cli', cli'.rsp, ToClient')
  <2>1. Len(ans') \in Nat /\ Len(got') \in Nat
    BY <1>2, GotLen
  <2>2. Len(ans') # Len(made')
    BY <1>13, <2>1
  <2> QED BY <1>1, <2>2 DEF Talk, AnswerTravels
<1>15. Laid(x) /\ IsSeq(x.w)
  <2> DEFINE y == Said(conv[Len(got)])
             a1 == made'[Len(got)]
  <2>1. Len(got) \in 1 .. Len(conv) /\ conv \in Conversations
    <3>1. Len(got) \in Nat /\ Len(ans) \in Nat /\ Len(got) <= Len(conv) /\ Len(conv) \in Nat /\ Len(got) = Len(ans) + 1
      BY <1>2, <1>13, GotLen DEF Talk, Counts
    <3>2. conv \in Conversations
      BY DEF HttpInv
    <3> QED BY <3>1, <3>2
  <2>2. y.version \in Versions
    BY <2>1, AskedProper, SaidIs DEF Proper
  <2>3. Pick(a1)
    <3> DEFINE T == {Answers[k] : k \in 1 .. Len(Answers)}
               n == Len(got)
    <3>1. made' \in Seq(T) /\ n \in 1 .. Len(made')
      BY <1>1, <1>2, <1>13, <2>1 DEF Talk, Counts
    <3> HIDE DEF T, n
    <3>2. made'[n] \in T
      BY <3>1
    <3> QED BY <3>2 DEF T, n, Pick
  <2>4. x = AnswerText(y, a1)
    BY <1>2 DEF Answering
  <2> HIDE DEF x, y, a1
  <2>5. AnsweredIs(y, a1, x)
    BY <2>2, <2>3, <2>4, AnswerIs
  <2> QED BY <2>5 DEF AnsweredIs
<1> HIDE DEF x
<1>16. cli'.rsp.data = <<>>
  BY <1>2, <1>3 DEF Clean
<1>17. b.data = x.w
  <2>1. Len(cli'.rsp.data) + 1 = 1
    BY <1>16
  <2> DEFINE i == Len(cli'.rsp.data) + 1
             w == x.w
  <2>2. b.data = SubSeq(w, i, Len(w)) /\ i = 1
    BY <1>12, <1>14, <2>1 DEF Onway
  <2>3. PICK S : w \in Seq(S)
    BY <1>15 DEF IsSeq
  <2> HIDE DEF i, w
  <2>4. b.data = w
    BY <2>2, <2>3
  <2> QED BY <2>4 DEF w
<1> QED BY <1>9, <1>11, <1>15, <1>16, <1>17 DEF Composed, x

LEMMA SendsStep == HttpInv /\ Talk /\ Sends /\ [Next]_vars => Sends'
<1> SUFFICES ASSUME HttpInv, Talk, Sends, [Next]_vars PROVE Sends'
  OBVIOUS
<1>1. conv' = conv
  BY DEF vars, Next, Client, Server, Request, SendHttpRequest, ReceiveHttpResponse, Disconnect, TimeOut,
         ReceiveHttpRequestNonblock, Process, SendHttpResponseNonblock, Close
<1>2. CASE Request
  <2>1. cli'.req.data = Wire(conv[Asked])
    BY <1>2, RequestSends
  <2>2. UNCHANGED <<srv, spc, got, made, ans>>
    BY <1>2 DEF Request
  <2> QED BY <1>1, <2>1, <2>2, SameAnswering DEF Sends, Asked
<1>3. CASE SendHttpRequest
  <2>1. cli'.req.data = cli.req.data
    BY <1>3 DEF SendHttpRequest, SendHttpBuffer, HttpInv, EnvRoomy, EnvOK, EnvFields, Roomy, Data
  <2>2. UNCHANGED <<srv, spc, got, made, ans>> /\ cpc = "send"
    BY <1>3 DEF SendHttpRequest
  <2> QED BY <1>1, <2>1, <2>2, SameAnswering DEF Sends, Asked
<1>4. CASE ReceiveHttpResponse \/ ReceiveHttpRequestNonblock
  BY <1>4, ReceivesSends
<1>5. CASE Process
  <2>1. srv'.rsp.data = Answering'.w
    BY <1>5, ProcessSends DEF Composed
  <2>2. UNCHANGED <<cli, cpc, ans>>
    BY <1>5 DEF Process
  <2> QED BY <1>1, <2>1, <2>2 DEF Sends, Asked
<1>6. CASE SendHttpResponseNonblock
  <2>1. PICK k \in Sendable(srv.rsp) :
          /\ srv' = IF k = Unprocessed(srv.rsp) THEN ResetHttpEnv([srv EXCEPT !.rsp = SendHttpBuffer(@, k)])
                    ELSE [srv EXCEPT !.rsp = SendHttpBuffer(@, k)]
          /\ spc' = IF k = Unprocessed(srv.rsp) THEN "receive" ELSE "send"
    BY <1>6 DEF SendHttpResponseNonblock
  <2>2. UNCHANGED <<cli, cpc, got, made, ans>> /\ spc = "send"
    BY <1>6 DEF SendHttpResponseNonblock
  <2>3. spc' = "send" => srv'.rsp.data = srv.rsp.data
    <3>1. spc' = "send" => srv' = [srv EXCEPT !.rsp = SendHttpBuffer(@, k)]
      BY <2>1
    <3> QED BY <3>1 DEF SendHttpBuffer, HttpInv, EnvRoomy, EnvOK, EnvFields, Roomy, Data
  <2> QED BY <1>1, <2>2, <2>3, SameAnswering DEF Sends, Asked
<1>7. CASE Disconnect \/ TimeOut \/ Close \/ UNCHANGED vars
  <2>1. UNCHANGED <<cli, srv, got, made, ans>> /\ cpc' \in {cpc, "closed"} /\ spc' \in {spc, "closed"}
    BY <1>7 DEF Disconnect, TimeOut, Close, vars
  <2> QED BY <1>1, <2>1, SameAnswering DEF Sends, Asked
<1> QED BY <1>2, <1>3, <1>4, <1>5, <1>6, <1>7 DEF Next, Client, Server

LEMMA AsksIs == HttpInv /\ Awaits => /\ AskedIs(conv[Len(got) + 1], Asking) /\ Laid(Asking) /\ IsSeq(Asking.w)
                                     /\ Asking.w = Wire(conv[Asked])
<1> SUFFICES ASSUME HttpInv, Awaits
             PROVE  AskedIs(conv[Len(got) + 1], Asking) /\ Asking.w = Wire(conv[Asked])
  BY DEF AskedIs
<1> DEFINE m == conv[Len(got) + 1]
           x == Asking
<1>1. AskedIs(m, x)
  BY AskingIs DEF Awaits
<1>2. Asked = Len(got) + 1
  BY DEF Awaits, Asked
<1>3. x = Text(m)
  BY <1>1 DEF AskedIs
<1> HIDE DEF x, m
<1>4. x.w = Wire(m)
  BY <1>3 DEF Text
<1> QED BY <1>1, <1>2, <1>4 DEF x, m

LEMMA SameAwaits == UNCHANGED <<conv, spc, got, ans>> => (Awaits' <=> Awaits) /\ Asking' = Asking
BY SameAsking, SameSpoilt DEF Awaits

LEMMA StillCut ==
  /\ Cut /\ Sends' /\ UNCHANGED <<conv, cli, srv, got, made, ans>> /\ spc' \in {spc, "closed", "refused"}
  => Cut'
<1> SUFFICES ASSUME Cut, Sends', UNCHANGED <<conv, cli, srv, got, made, ans>>,
                    spc' \in {spc, "closed", "refused"}
             PROVE  Cut'
  OBVIOUS
<1>1. Asking' = Asking /\ Answering' = Answering /\ (Spoilt' <=> Spoilt)
  BY SameAsking, SameAnswering, SameSpoilt
<1>2. Awaits' => Awaits
  BY <1>1 DEF Awaits
<1>3. ReqApart'
  BY <1>1, <1>2 DEF Cut, ReqApart, Apart, Unsent
<1>4. RspApart'
  BY <1>1 DEF Cut, RspApart, Apart, Unsent
<1> QED BY <1>3, <1>4 DEF Cut, Ample

LEMMA RequestApart == HttpInv /\ Talk /\ Cut /\ Request => ReqApart' /\ RspApart'
<1> SUFFICES ASSUME HttpInv, Talk, Cut, Request PROVE ReqApart' /\ RspApart'
  OBVIOUS
<1>1. UNCHANGED <<conv, srv, toSrv, toCli, spc, got, made, ans>> /\ cpc = "idle"
  BY DEF Request
<1>2. Len(ans) = Len(made)
  BY <1>1 DEF Talk, ClientTalks
<1>3. RspApart'
  BY <1>1, <1>2 DEF RspApart
<1>4. ReqApart'
  <2> SUFFICES ASSUME Awaits PROVE Apart(Asking, cli'.req, srv.req)
    BY <1>1, SameAwaits DEF ReqApart, Apart
  <2> DEFINE x == Asking
             b == cli'.req
             c == srv.req
  <2>1. Laid(x) /\ IsSeq(x.w) /\ b.data = x.w /\ b.process = 0
    BY AsksIs, RequestSends
  <2>2. ~Cleft(x, Len(c.data))
    BY DEF Cut, ReqApart, Apart
  <2> HIDE DEF x, b, c
  <2>3. Unsent(b) \in {<<>>, x.w}
    BY <2>1, UnsentAll
  <2> DEFINE u == Unsent(b)
  <2>4. u \in {<<>>, x.w}
    BY <2>3
  <2> HIDE DEF u
  <2>5. ~Cleft(x, Len(x.w) - Len(u))
    BY <2>1, <2>4, UnsentNone
  <2> QED BY <2>2, <2>5 DEF Apart, u, x, b, c
<1> QED BY <1>3, <1>4

LEMMA SendRequestApart == Torn = FALSE /\ HttpInv /\ Talk /\ Cut /\ SendHttpRequest => ReqApart' /\ RspApart'
<1> SUFFICES ASSUME Torn = FALSE, HttpInv, Talk, Cut, SendHttpRequest PROVE ReqApart' /\ RspApart'
  OBVIOUS
<1>1. PICK k \in Sendable(cli.req) : cli' = [cli EXCEPT !.req = SendHttpBuffer(@, k)]
  BY DEF SendHttpRequest
<1>2. UNCHANGED <<conv, srv, toCli, spc, got, made, ans>> /\ cpc = "send"
  BY DEF SendHttpRequest
<1>3. EnvOK(cli) /\ Roomy(cli.req)
  BY DEF HttpInv, EnvRoomy
<1> DEFINE b == cli.req
           c == SendHttpBuffer(b, k)
<1>4. cli' = [cli EXCEPT !.req = c]
  BY <1>1
<1> HIDE DEF c
<1>5. cli'.rsp = cli.rsp /\ cli'.req = c
  BY <1>3, <1>4 DEF EnvOK, EnvFields
<1>6. RspApart'
  <2>1. Answering' = Answering
    BY <1>2, SameAnswering
  <2> QED BY <1>2, <1>5, <2>1 DEF Cut, RspApart, Apart, Unsent
<1>7. ReqApart'
  <2> SUFFICES ASSUME Awaits PROVE Apart(Asking, c, srv.req)
    BY <1>2, <1>5, SameAwaits DEF ReqApart, Apart
  <2> DEFINE x == Asking
             d == srv.req
  <2>1. Laid(x) /\ IsSeq(x.w) /\ b.data = x.w
    BY <1>2, AsksIs DEF Cut, Sends
  <2>2. ~Cleft(x, Len(d.data))
    BY DEF Cut, ReqApart, Apart
  <2>3. Roomy(b) /\ k \in Sendable(b) /\ c = SendHttpBuffer(b, k)
    BY <1>3 DEF c
  <2> HIDE DEF x, b, d
  <2>4. ~Cleft(x, Len(x.w) - Len(Unsent(c)))
    BY <2>1, <2>3, ApartSends
  <2> QED BY <2>2, <2>4 DEF Apart, x, d
<1> QED BY <1>6, <1>7

LEMMA RepliesIs ==
  Fits /\ HttpInv /\ Counts /\ Len(made) = Len(got) /\ got # <<>>
    => Laid(Answering) /\ IsSeq(Answering.w) /\ Answering.te = 0 /\ Len(Answering.w) < RspFit
<1> SUFFICES ASSUME Fits, HttpInv, Counts, Len(made) = Len(got), got # <<>>
             PROVE  Laid(Answering) /\ IsSeq(Answering.w) /\ Answering.te = 0 /\ Len(Answering.w) < RspFit
  OBVIOUS
<1> DEFINE n == Len(got)
           x == Answering
           y == Said(conv[n])
           a == made[n]
<1>1. AnsweredIs(y, a, x)
  BY AnsweringIs
<1>2. n \in 1 .. Len(conv) /\ conv \in Conversations /\ n \in 1 .. Len(made)
  <2>1. n \in Nat /\ n <= Len(conv) /\ Len(conv) \in Nat /\ n # 0
    BY GotLen DEF Counts, HttpInv, IsSeq
  <2> QED BY <2>1 DEF HttpInv
<1>3. PICK k \in 1 .. Len(Answers) : a = Answers[k]
  <2> DEFINE T == {Answers[j] : j \in 1 .. Len(Answers)}
  <2>1. made \in Seq(T)
    BY DEF Counts
  <2> HIDE DEF T, n
  <2>2. made[n] \in T
    BY <1>2, <2>1
  <2> QED BY <2>2 DEF T
<1>4. Len(Reply(y, a)) < RspFit
  BY <1>2, <1>3 DEF Fits
<1> HIDE DEF x, y, a
<1>5. Laid(x) /\ IsSeq(x.w) /\ x.te = 0 /\ Len(x.w) < RspFit
  BY <1>1, <1>4 DEF AnsweredIs
<1> QED BY <1>5 DEF x

LEMMA AsksFit == Fits /\ HttpInv /\ Awaits => Len(Asking.w) < ReqFit
<1> SUFFICES ASSUME Fits, HttpInv, Awaits PROVE Len(Asking.w) < ReqFit
  OBVIOUS
<1>1. Asked \in 1 .. Len(conv) /\ conv \in Conversations
  BY GotLen DEF Awaits, Asked
<1>2. Asking.w = Wire(conv[Asked])
  BY AsksIs
<1> QED BY <1>1, <1>2 DEF Fits

LEMMA ProcessApart == HttpInv /\ Talk /\ Cut /\ Process => ReqApart' /\ RspApart'
<1> SUFFICES ASSUME HttpInv, Talk, Cut, Process PROVE ReqApart' /\ RspApart'
  OBVIOUS
<1>1. spc' = "send"
  BY ProcessAnswers
<1>2. ReqApart'
  BY <1>1 DEF ReqApart, Awaits
<1>3. Apart(Answering', srv'.rsp, cli'.rsp)
  <2> DEFINE x == Answering'
             b == srv'.rsp
             c == cli'.rsp
  <2>1. Laid(x) /\ IsSeq(x.w) /\ Unsent(b) \in {<<>>, x.w} /\ c.data = <<>>
    BY ProcessSends DEF Composed
  <2> HIDE DEF x, b, c
  <2>2. Apart(x, b, c)
    BY <2>1, ApartStarts
  <2> QED BY <2>2 DEF x, b, c
<1> QED BY <1>2, <1>3 DEF RspApart, Apart

LEMMA SendResponseApart == Fits /\ HttpInv /\ Talk /\ Cut /\ SendHttpResponseNonblock => ReqApart' /\ RspApart'
<1> SUFFICES ASSUME Fits, HttpInv, Talk, Cut, SendHttpResponseNonblock PROVE ReqApart' /\ RspApart'
  OBVIOUS
<1>1. PICK k \in Sendable(srv.rsp) :
        srv' = IF k = Unprocessed(srv.rsp) THEN ResetHttpEnv([srv EXCEPT !.rsp = SendHttpBuffer(@, k)])
               ELSE [srv EXCEPT !.rsp = SendHttpBuffer(@, k)]
  BY DEF SendHttpResponseNonblock
<1>2. UNCHANGED <<conv, cli, toSrv, cpc, got, made, ans>> /\ spc = "send"
  BY DEF SendHttpResponseNonblock
<1>3. Len(got) = Len(ans) + 1 /\ Len(got) \in Nat /\ Len(ans) \in Nat /\ Len(made) = Len(got) /\ Counts
  BY <1>2, GotLen DEF Talk, ServerAnswers
<1>4. ReqApart'
  BY <1>2, <1>3 DEF ReqApart, Awaits
<1> DEFINE x == Answering
           b == srv.rsp
           c == SendHttpBuffer(b, k)
           e == [srv EXCEPT !.rsp = c]
<1>5. Laid(x) /\ IsSeq(x.w)
  <2>1. got # <<>>
    <3>1. Len(got) # 0
      BY <1>3
    <3> QED BY <3>1
  <2> QED BY <1>3, <2>1, RepliesIs
<1>6. EnvRoomy(srv) /\ Roomy(b) /\ k \in Sendable(b) /\ b.data = x.w
  BY <1>2 DEF HttpInv, EnvRoomy, Cut, Sends
<1>7. srv' = IF k = Unprocessed(b) THEN ResetHttpEnv(e) ELSE e
  BY <1>1
<1> HIDE DEF x, b
<1>8. Roomy(c) /\ Unprocessed(c) = Unprocessed(b) - k /\ k \in Nat /\ Unprocessed(b) \in Int
  <2> HIDE DEF c
  <2>1. k \in Nat /\ Unprocessed(b) \in Int
    BY <1>6, RoomyLen DEF Sendable, Roomy, Unprocessed
  <2>2. Roomy(c)
    BY <1>6, SendRoomy DEF c
  <2>3. Unprocessed(c) = Unprocessed(b) - k
    BY <1>6, SendsOn DEF c
  <2> QED BY <2>1, <2>2, <2>3
<1>9. ~Cleft(x, Len(x.w) - Len(Unsent(c)))
  <2>1. Torn = FALSE
    BY DEF Fits
  <2> HIDE DEF c
  <2> QED BY <1>5, <1>6, <2>1, ApartSends DEF c
<1> HIDE DEF c
<1>10. EnvRoomy(e) /\ e.rsp = c
  BY <1>6, <1>8 DEF EnvRoomy, EnvOK, EnvFields
<1> HIDE DEF e
<1>11. ~Cleft(x, Len(x.w) - Len(Unsent(srv'.rsp)))
  <2>1. CASE k = Unprocessed(b)
    <3> DEFINE d == srv'.rsp
    <3>1. d.data = <<>> /\ d.process = 0
      <4>1. srv' = ResetHttpEnv(e) /\ Unprocessed(e.rsp) = 0
        BY <1>7, <1>8, <1>10, <2>1
      <4> QED BY <1>10, <4>1, ResetSent
    <3> DEFINE u == Unsent(d)
    <3>2. u \in {<<>>, x.w}
      <4> HIDE DEF d
      <4>1. IsSeq(d.data)
        BY <3>1, Tuples
      <4> QED BY <3>1, <4>1, UnsentAll
    <3> HIDE DEF u, d
    <3>3. ~Cleft(x, Len(x.w) - Len(u))
      BY <1>5, <3>2, UnsentNone
    <3> QED BY <3>3 DEF u, d
  <2>2. CASE k # Unprocessed(b)
    BY <1>7, <1>9, <1>10, <2>2
  <2> QED BY <2>1, <2>2
<1>12. RspApart'
  <2>1. Answering' = x /\ cli' = cli
    BY <1>2, SameAnswering DEF x
  <2>2. Len(ans) # Len(made)
    BY <1>3
  <2>3. ~Cleft(x, Len(cli.rsp.data))
    BY <2>2 DEF Cut, RspApart, Apart, x
  <2> QED BY <1>11, <2>1, <2>3 DEF RspApart, Apart
<1> QED BY <1>4, <1>12

LEMMA ReceiveResponseApart == Fits /\ HttpInv /\ Talk /\ Cut /\ ReceiveHttpResponse => ReqApart' /\ RspApart'
<1> SUFFICES ASSUME Fits, HttpInv, Talk, Cut, ReceiveHttpResponse PROVE ReqApart' /\ RspApart'
  OBVIOUS
<1> DEFINE r == ReceiveHttpBuffer(cli, cli.rsp, toCli)
           s == ParseHttpBuffer(r.e, r.b)
           u == UncompressHttpBody(s.e, s.b)
           x == Answering
           more == Unsent(srv.rsp)
           e == cli
           b == cli.rsp
           t == toCli
           a == [code |-> u.e.statuscode, body |-> GetHttpBodyPtr(u.e, u.b)]
<1>1. \/ s.ret = "more" /\ cli' = [s.e EXCEPT !.rsp = s.b] /\ UNCHANGED <<cpc, ans>>
      \/ s.ret = "done" /\ cli' = [u.e EXCEPT !.rsp = u.b] /\ ans' = Append(ans, a)
      \/ UNCHANGED <<cli, ans>>
  BY DEF ReceiveHttpResponse
<1>2. UNCHANGED <<conv, srv, toSrv, spc, got, made>> /\ cpc = "receive" /\ toCli # <<>>
  BY DEF ReceiveHttpResponse
<1>3. /\ EnvOK(e) /\ Roomy(b) /\ IsSeq(t) /\ IsSeq(ans) /\ Roomy(srv.rsp) /\ e.step # "DONE" /\ Placed(b)
      /\ Roomy(cli.req) /\ t # <<>>
  BY <1>2 DEF HttpInv, EnvRoomy, Waiting
<1>4. Len(ans) # Len(made) /\ Len(made) = Len(got) /\ Onway(x, e, b, t \o more) /\ Counts
  BY <1>2 DEF Talk, AnswerTravels, ToClient
<1>5. Len(got) \in Nat /\ Len(ans) \in Nat /\ Len(ans) + 1 = Len(got) /\ got # <<>> /\ Len(conv) \in Nat
  <2>1. Len(got) \in Nat /\ Len(ans) \in Nat /\ Len(ans) <= Len(made) /\ Len(got) <= Len(ans) + 1
    BY GotLen DEF Talk, Counts
  <2>2. Len(ans) + 1 = Len(got)
    BY <1>4, <2>1
  <2>3. got # <<>>
    <3>1. Len(got) # 0
      BY <2>1, <2>2
    <3> QED BY <3>1
  <2> QED BY <2>1, <2>2, <2>3, GotLen
<1>6. Laid(x) /\ IsSeq(x.w) /\ Len(x.w) < RspFit
  BY <1>4, <1>5, RepliesIs
<1>7. IsSeq(more)
  BY <1>3, UnsentIs
<1>8. ~Cleft(x, Len(x.w) - Len(more)) /\ ~Cleft(x, Len(b.data))
  BY <1>4 DEF Cut, RspApart, Apart
<1>9. Len(x.w) < b.size
  <2>1. Len(x.w) \in Nat /\ RspFit \in Nat /\ b.size \in Nat /\ b.size >= RspFit
    BY <1>3, <1>6, FitType, SeqLen DEF Cut, Ample, Roomy
  <2> QED BY <1>6, <2>1
<1>10. Asking' = Asking /\ Answering' = x
  BY <1>2, SameAsking, SameAnswering
<1>11. r = ReceiveHttpBuffer(e, b, t) /\ s = ParseHttpBuffer(r.e, r.b)
  OBVIOUS
<1>12. Roomier(e, b, s, u)
  <2> DEFINE c == s.b
  <2>1. c \in {s.b, Terminate(s.b)} /\ u = UncompressHttpBody(s.e, c)
    OBVIOUS
  <2> HIDE DEF r, s, u, c, e, b, t
  <2> QED BY <1>3, <1>11, <2>1, TurnGrows
<1>13. Whole(x, b, s)
  <2> HIDE DEF r, s, u, x, more, e, b, t
  <2> QED BY <1>3, <1>4, <1>6, <1>7, <1>8, <1>9, <1>11, WholeTurn
<1> HIDE DEF r, s, u, a
<1>14. UNCHANGED ans => ReqApart'
  BY <1>2, <1>5 DEF ReqApart, Awaits
<1>15. CASE s.ret = "more" /\ cli' = [s.e EXCEPT !.rsp = s.b] /\ UNCHANGED <<cpc, ans>>
  <2>1. cli'.rsp = s.b
    BY <1>12, <1>15 DEF Roomier, EnvOK, EnvFields
  <2>2. Unsent(srv'.rsp) = more
    BY <1>2
  <2>3. Apart(x, srv'.rsp, cli'.rsp)
    BY <1>8, <1>13, <2>1, <2>2 DEF Apart, Whole
  <2> QED BY <1>10, <1>14, <1>15, <2>3 DEF RspApart, Apart
<1>16. CASE s.ret = "done" /\ cli' = [u.e EXCEPT !.rsp = u.b] /\ ans' = Append(ans, a)
  <2>1. cli'.req = cli.req
    BY <1>12, <1>16 DEF Roomier, EnvOK, EnvFields
  <2>2. Len(ans') = Len(ans) + 1
    BY <1>3, <1>16, Appends
  <2>3. RspApart'
    BY <1>2, <1>4, <1>5, <2>2 DEF RspApart
  <2>4. ReqApart'
    <3> SUFFICES ASSUME spc = "receive", ~Spoilt, Len(got) < Len(conv)
                 PROVE  Apart(Asking, cli.req, srv.req)
      BY <1>2, <1>10, <2>1, SameSpoilt DEF ReqApart, Awaits, Apart
    <3>1. Clean("server", srv, srv.req)
      BY <1>5 DEF Talk, ServerReads
    <3>2. Unprocessed(cli.req) <= 0
      BY <1>2 DEF Talk, ClientTalks
    <3> DEFINE y == Asking
               c == cli.req
               d == srv.req
    <3>3. Laid(y) /\ IsSeq(y.w)
      BY AskingIs DEF AskedIs
    <3>4. Unsent(c) \in {<<>>, y.w} /\ d.data = <<>>
      BY <1>3, <3>1, <3>2, UnsentIs DEF Clean
    <3> HIDE DEF y, c, d
    <3>5. Apart(y, c, d)
      BY <3>3, <3>4, ApartStarts
    <3> QED BY <3>5 DEF y, c, d
  <2> QED BY <2>3, <2>4
<1>17. CASE UNCHANGED <<cli, ans>>
  <2>1. RspApart'
    BY <1>2, <1>10, <1>17 DEF Cut, RspApart, Apart, Unsent
  <2> QED BY <1>14, <1>17, <2>1
<1> QED BY <1>1, <1>15, <1>16, <1>17

LEMMA ReceiveRequestApart ==
  Fits /\ HttpInv /\ Talk /\ Cut /\ ReceiveHttpRequestNonblock => ReqApart' /\ RspApart'
<1> SUFFICES ASSUME Fits, HttpInv, Talk, Cut, ReceiveHttpRequestNonblock PROVE ReqApart' /\ RspApart'
  OBVIOUS
<1> DEFINE r == ReceiveHttpBuffer(srv, srv.req, toSrv)
           s == ParseHttpBuffer(r.e, r.b)
           u == UncompressHttpBody(s.e, Terminate(s.b))
           more == Unsent(cli.req)
           x == Asking
           e == srv
           b == srv.req
           t == toSrv
<1>1. \/ srv' = [s.e EXCEPT !.req = s.b] /\ UNCHANGED <<spc, got>>
      \/ s.ret = "done" /\ spc' = "process"
      \/ UNCHANGED <<srv, got>> /\ spc' = "refused"
  BY DEF ReceiveHttpRequestNonblock
<1>2. UNCHANGED <<conv, cli, toCli, cpc, made, ans>> /\ spc = "receive" /\ toSrv # <<>>
  BY DEF ReceiveHttpRequestNonblock
<1>3. /\ EnvOK(e) /\ Roomy(b) /\ IsSeq(t) /\ t # <<>> /\ e.step # "DONE" /\ Placed(b) /\ Roomy(cli.req)
  BY <1>2 DEF HttpInv, EnvRoomy, Waiting
<1>4. r = ReceiveHttpBuffer(e, b, t) /\ s = ParseHttpBuffer(r.e, r.b)
  OBVIOUS
<1>5. Roomier(e, b, s, u)
  <2> DEFINE c == Terminate(s.b)
  <2>1. c \in {s.b, Terminate(s.b)} /\ u = UncompressHttpBody(s.e, c)
    OBVIOUS
  <2> HIDE DEF r, s, u, c, e, b, t
  <2> QED BY <1>3, <1>4, <2>1, TurnGrows
<1>6. ~Spoilt => Meets(r, s, u)
  <2> HIDE DEF r, s, u
  <2>1. r = ReceiveHttpBuffer(srv, srv.req, toSrv) /\ s = ParseHttpBuffer(r.e, r.b) /\ u = UncompressHttpBody(s.e, Terminate(s.b))
    BY DEF r, s, u
  <2> QED BY <1>2, <2>1, TurnMeets
<1>7. Awaits => Whole(x, b, s)
  <2> SUFFICES ASSUME Awaits PROVE Whole(x, b, s)
    OBVIOUS
  <2>1. Onway(x, e, b, t \o more)
    BY <1>2, ReadsWhat DEF Awaits, ToServer
  <2>2. Laid(x) /\ IsSeq(x.w) /\ Len(x.w) < ReqFit
    BY AsksIs, AsksFit
  <2>3. ~Cleft(x, Len(x.w) - Len(more)) /\ ~Cleft(x, Len(b.data))
    BY DEF Cut, ReqApart, Apart
  <2>4. Len(x.w) < b.size
    <3>1. Len(x.w) \in Nat /\ ReqFit \in Nat /\ b.size \in Nat /\ b.size >= ReqFit
      BY <1>3, <2>2, FitType, SeqLen DEF Cut, Ample, Roomy
    <3> QED BY <2>2, <3>1
  <2>5. IsSeq(more)
    BY <1>3, UnsentIs
  <2> HIDE DEF r, s, x, more, e, b, t
  <2> QED BY <1>3, <1>4, <2>1, <2>2, <2>3, <2>4, <2>5, WholeTurn
<1> HIDE DEF r, s, u
<1>8. CASE srv' = [s.e EXCEPT !.req = s.b] /\ UNCHANGED <<spc, got>>
  <2>1. srv'.req = s.b /\ srv'.rsp = srv.rsp
    BY <1>5, <1>8 DEF Roomier, EnvOK, EnvFields
  <2>2. (Awaits' <=> Awaits) /\ Asking' = x /\ Answering' = Answering
    BY <1>2, <1>8, SameAwaits, SameAnswering
  <2>3. Awaits => Apart(x, cli.req, s.b)
    BY <1>7 DEF Cut, ReqApart, Apart, Whole
  <2>4. ReqApart'
    BY <1>2, <2>1, <2>2, <2>3 DEF ReqApart, Apart
  <2>5. RspApart'
    BY <1>2, <1>8, <2>1, <2>2 DEF Cut, RspApart, Apart, Unsent
  <2> QED BY <2>4, <2>5
<1>9. CASE s.ret = "done" /\ spc' = "process"
  <2>1. ReqApart'
    BY <1>9 DEF ReqApart, Awaits
  <2>2. Len(ans') = Len(made')
    <3>1. CASE ~Spoilt
      BY <1>2, <1>6, <3>1 DEF Meets
    <3>2. CASE Spoilt
      <4>1. Talk'
        BY <3>2, ReceiveStuckTalks
      <4> QED BY <1>9, <4>1 DEF Talk, ServerAnswers
    <3> QED BY <3>1, <3>2
  <2>3. RspApart'
    BY <2>2 DEF RspApart
  <2> QED BY <2>1, <2>3
<1>10. CASE UNCHANGED <<srv, got>> /\ spc' = "refused"
  <2>1. ReqApart'
    BY <1>10 DEF ReqApart, Awaits
  <2>2. Answering' = Answering
    BY <1>2, <1>10, SameAnswering
  <2>3. RspApart'
    BY <1>2, <1>10, <2>2 DEF Cut, RspApart, Apart, Unsent
  <2> QED BY <2>1, <2>3
<1> QED BY <1>1, <1>8, <1>9, <1>10

LEMMA CutInit == Fits /\ Init => Cut
<1> SUFFICES ASSUME Fits, Init PROVE Cut
  OBVIOUS
<1>1. HttpInv
  BY HttpInit
<1>2. cli.req = InitHttpBuffer(ReqSize) /\ srv.req = InitHttpBuffer(ReqSize) /\ cli.rsp = InitHttpBuffer(RspSize)
  BY Zenon DEF Init, CreateHttpEnv
<1>3. cli.req.data = <<>> /\ srv.req.data = <<>> /\ srv.req.size = ReqSize /\ cli.rsp.size = RspSize
      /\ cli.req.process = 0
  BY <1>2 DEF InitHttpBuffer
<1>4. Ample
  BY <1>3, FitType DEF Ample
<1>5. cpc = "idle" /\ spc = "receive" /\ ans = <<>> /\ made = <<>>
  BY Zenon DEF Init
<1>6. Sends /\ RspApart
  BY <1>5 DEF Sends, RspApart
<1>7. ReqApart
  <2> SUFFICES ASSUME Awaits PROVE Apart(Asking, cli.req, srv.req)
    BY DEF ReqApart
  <2> DEFINE x == Asking
             b == cli.req
             c == srv.req
  <2>1. Laid(x) /\ IsSeq(x.w)
    BY <1>1, AsksIs
  <2>2. b.data = <<>> /\ b.process = 0 /\ IsSeq(b.data) /\ c.data = <<>>
    BY <1>3, Tuples
  <2> HIDE DEF x, b, c
  <2>3. Unsent(b) \in {<<>>, x.w}
    BY <2>2, UnsentAll
  <2>4. Apart(x, b, c)
    BY <2>1, <2>2, <2>3, ApartStarts
  <2> QED BY <2>4 DEF x, b, c
<1> QED BY <1>4, <1>6, <1>7 DEF Cut

LEMMA CutStep == Fits /\ HttpInv /\ Talk /\ Cut /\ [Next]_vars => Cut' /\ Talk'
<1> SUFFICES ASSUME Fits, HttpInv, Talk, Cut, [Next]_vars PROVE Cut' /\ Talk'
  OBVIOUS
<1>1. Ample' /\ Sends'
  BY AmpleStep, SendsStep DEF Cut
<1>2. ReqApart' /\ RspApart'
  <2>1. CASE Request \/ SendHttpRequest
    BY <2>1, RequestApart, SendRequestApart DEF Fits
  <2>2. CASE ReceiveHttpResponse \/ ReceiveHttpRequestNonblock
    BY <2>2, ReceiveResponseApart, ReceiveRequestApart
  <2>3. CASE Process \/ SendHttpResponseNonblock
    BY <2>3, ProcessApart, SendResponseApart
  <2>4. CASE Disconnect \/ TimeOut \/ Close \/ UNCHANGED vars
    <3>1. UNCHANGED <<conv, cli, srv, got, made, ans>> /\ spc' \in {spc, "closed", "refused"}
      BY <2>4 DEF Disconnect, TimeOut, Close, vars
    <3> QED BY <1>1, <3>1, StillCut DEF Cut
  <2> QED BY <2>1, <2>2, <2>3, <2>4 DEF Next, Client, Server
<1>3. Cut'
  BY <1>1, <1>2 DEF Cut
<1>4. Uncut'
  BY <1>2 DEF ReqApart, RspApart, Awaits, Apart, Uncut
<1> QED BY <1>3, <1>4, TalkStep

LEMMA CutStays == Fits /\ HttpInv /\ Talk /\ Cut => Stays
<1> SUFFICES ASSUME Fits, HttpInv, Talk, Cut, spc = "receive", srv.chunk_end > 0, toSrv # <<>>
             PROVE  Len(srv.req.data) + 1 <= srv.req.size - 1
  BY DEF Stays
<1> DEFINE x == Asking
           b == srv.req
           t == toSrv
           more == Unsent(cli.req)
           D == Len(b.data)
           W == Len(x.w)
<1>1. ~Spoilt /\ Len(ans) = Len(got) /\ Len(got) < Len(conv) /\ Onway(x, srv, b, t \o more)
  <2>1. ~Stuck(srv, srv.req, ToServer)
    BY DEF Stuck
  <2> QED BY <2>1, ReadsWhat DEF ToServer
<1>2. Awaits
  BY <1>1 DEF Awaits
<1>3. Laid(x) /\ IsSeq(x.w) /\ W < ReqFit
  BY <1>2, AsksIs, AsksFit
<1>4. Roomy(b) /\ IsSeq(t) /\ IsSeq(more) /\ t # <<>> /\ b.size >= ReqFit
  BY UnsentIs DEF HttpInv, EnvRoomy, Cut, Ample
<1>5. D \in Nat /\ W \in Nat /\ ReqFit \in Nat /\ b.size \in Nat
  BY <1>3, <1>4, RoomyLen, SeqLen, FitType DEF Roomy
<1>6. D <= W /\ t \o more = SubSeq(x.w, D + 1, W)
  <2> HIDE DEF x, b, t, more
  <2> QED BY <1>1, ReadyStill DEF Onway
<1>7. Len(t) + Len(more) = W - D /\ Len(t) \in Nat /\ Len(more) \in Nat
  <2> HIDE DEF D, W, x, b, t, more
  <2>1. Splits(x.w, D, t, more)
    BY <1>3, <1>4, <1>5, <1>6, Ahead DEF W
  <2> QED BY <1>4, <2>1, SeqLen DEF Splits, W
<1>8. Len(t) # 0
  <2> HIDE DEF t
  <2> QED BY <1>4, IsNone
<1> HIDE DEF x, t, more, D, W
<1>9. D + 1 <= b.size - 1
  BY <1>3, <1>4, <1>5, <1>7, <1>8
<1> QED BY <1>9 DEF D, b

(* All three of every behaviour, where every message fits the buffer that   *)
(* CreateHttpEnv of fasterhttp.c makes for it: then neither a receipt that  *)
(* fills the buffer nor a realloc comes in between.                        *)
THEOREM HttpFits == ASSUME Fits PROVE Spec => [](Understood /\ AnswersMatch /\ RefusesInvalid)
<1> DEFINE Good == HttpInv /\ Talk /\ Cut /\ RefusesInvalid
<1>1. Init => Good
  BY HttpInit, TalkInit, CutInit DEF Init, RefusesInvalid
<1>2. Good /\ [Next]_vars => Good'
  <2> SUFFICES ASSUME HttpInv, Talk, Cut, RefusesInvalid, [Next]_vars
               PROVE  HttpInv' /\ Talk' /\ Cut' /\ RefusesInvalid'
    OBVIOUS
  <2>1. HttpInv'
    BY HttpStep
  <2>2. Cut' /\ Talk'
    BY CutStep
  <2>3. RefusesInvalid'
    BY <2>2, CutStays, RefusesStep
  <2> QED BY <2>1, <2>2, <2>3
<1>3. Good => Understood /\ AnswersMatch /\ RefusesInvalid
  BY TalkMatches DEF Talk, Counts, Understood
<1> QED BY <1>1, <1>2, <1>3, PTL DEF Spec

=============================================================================
