------------------------------- MODULE HttpParser -------------------------------
(***************************************************************************)
(* src/src/util/fasterhttp.c: the buffers of an HttpEnv and ParseHttpBuffer,*)
(* the parser both ends of a connection use.  It is called again each time *)
(* bytes arrive and goes on at parse_step, process_ptr.                    *)
(*                                                                         *)
(* A byte stream is a sequence of tokens: "sp", "cr", "lf", ":", "nul",    *)
(* and one token for each word, digit or byte of a body.  A position is an *)
(* offset from base, as in the code; the token there is data[p + 1].       *)
(***************************************************************************)
EXTENDS Integers, Sequences, SequencesExt

CONSTANTS
  Methods,         \* the words METHOD accepts
  ReqSize, RspSize,  \* FASTERHTTP_REQUEST_BUFSIZE_DEFAULT, ..RESPONSE..
  ReqMax, RspMax     \* FASTERHTTP_REQUEST_BUFSIZE_MAX, ..RESPONSE..

ASSUME ParserAssumption == {ReqSize, RspSize, ReqMax, RspMax} \subseteq Nat \ {0, 1}

Versions == {"HTTP/1.0", "HTTP/1.1"}
OtherVersions == {"HTTP/2.0"}           \* as long, but not HTTP/1: taken for none
Digits == [d0 |-> 0, d1 |-> 1, d2 |-> 2, d3 |-> 3, d4 |-> 4, xa |-> 10]

-----------------------------------------------------------------------------
(* struct HttpBuffer *)

InitHttpBuffer(size) == [data |-> <<>>, process |-> 0, size |-> size]

Unprocessed(b) == Len(b.data) - b.process

ReallocNever(b, need) == b.size          \* defect: writes past the end

(* A full buffer is doubled until what is needed and a final 0 fit.  (One   *)
(* of more than 100 MB grows by 100 MB.)                                   *)
ReallocHttpBuffer(b, need) ==
  LET size[k \in 0 .. need] == IF k = 0 THEN b.size ELSE 2 * size[k - 1]
      fits(k) == need <= size[k] - 1
  IN  size[CHOOSE k \in 0 .. need : fits(k) /\ \A j \in 0 .. k - 1 : ~fits(j)]

(* The formatted ones want one more byte.                                  *)
StrcatfHttpBuffer(b, str) ==
  [b EXCEPT !.data = @ \o str, !.size = ReallocHttpBuffer(b, Len(b.data) + Len(str) + 1)]

StrcpyfHttpBuffer(b, str) ==
  [b EXCEPT !.data = str, !.size = ReallocHttpBuffer(b, Len(str) + 1)]

ReformingHttpBuffer(b) ==
  [b EXCEPT !.data = SubSeq(@, b.process + 1, Len(@)), !.process = 0]

ResetHttpBuffer(b, max) ==
  InitHttpBuffer(IF b.size > max THEN max ELSE b.size)

-----------------------------------------------------------------------------
(* struct HttpEnv; role tells which buffer it parses.                      *)

CreateHttpEnv(role) ==
  [role |-> role, req |-> InitHttpBuffer(ReqSize), rsp |-> InitHttpBuffer(RspSize),
   step |-> "BEGIN", method |-> "", uri |-> "", version |-> "", statuscode |-> "",
   content_length |-> 0, chunked |-> FALSE, keepalive |-> 0, trailer |-> <<>>,
   encoding |-> <<>>, name |-> <<>>, offset |-> 0, body |-> 0,
   chunk |-> 0, chunk_body |-> 0, chunk_end |-> 0, moved |-> FALSE, reforming |-> FALSE]

(* defect: connection__keepalive outlives its request                      *)
ResetAllButKeepAlive(e) ==
  [CreateHttpEnv(e.role) EXCEPT !.req = ResetHttpBuffer(e.req, ReqMax),
     !.rsp = ResetHttpBuffer(e.rsp, RspMax), !.keepalive = e.keepalive]

(* The one flag is spent on the first of the two buffers that has a rest.  *)
ResetHttpEnv(e) ==
  LET reform(b) == e.reforming /\ Unprocessed(b) > 0
      fresh == CreateHttpEnv(e.role)
  IN  [fresh EXCEPT
        !.req = IF reform(e.req) THEN ReformingHttpBuffer(e.req)
                                 ELSE ResetHttpBuffer(e.req, ReqMax),
        !.rsp = IF reform(e.rsp) /\ ~reform(e.req) THEN ReformingHttpBuffer(e.rsp)
                                                   ELSE ResetHttpBuffer(e.rsp, RspMax),
        !.reforming = e.reforming /\ ~reform(e.req) /\ ~reform(e.rsp)]

CheckHttpKeepAlive(e) ==
  \/ e.version = "HTTP/1.0" /\ e.keepalive = 1
  \/ e.version = "HTTP/1.1" /\ e.keepalive # -1

GetHttpBodyPtr(e, b) ==
  IF e.body > 0 THEN SubSeq(b.data, e.body + 1, e.body + e.content_length) ELSE <<>>

-----------------------------------------------------------------------------
(* ParseHttpBuffer.  A parse is [e, b, p, ret]: the HttpEnv, the buffer, the*)
(* local p, and what is returned ("run" while it goes on).                 *)

Fill(s) == Len(s.b.data)
At(s, p) == s.b.data[p + 1]
Scan(s, stops) ==                       \* first position that holds one of stops
  Min({q \in s.p .. Fill(s) : q = Fill(s) \/ At(s, q) \in stops})
Blanks(s) ==                            \* first position that is not a blank
  Min({q \in s.p .. Fill(s) : q = Fill(s) \/ At(s, q) # "sp"})
Read(s, q) == SubSeq(s.b.data, s.e.offset + 1, q)

TrimRight(v) ==
  SubSeq(v, 1, Max({0} \cup {i \in 1 .. Len(v) : v[i] \notin {"sp", "cr"}}))

More(s, q) == [s EXCEPT !.b.process = q, !.ret = "more"]
Invalid(s) == [s EXCEPT !.ret = "invalid"]
Done(s, q) == [s EXCEPT !.b.process = q, !.ret = "done", !.e.step = "DONE"]
DoneReforming(s, q) == [Done(s, q) EXCEPT !.e.reforming = @ \/ Fill(s) > q]

(* A word ends at q: wait for more, refuse it, or go on behind it as e.    *)
Word(s, q, refused, e) ==
  IF q = Fill(s) THEN More(s, q)
  ELSE IF refused THEN Invalid(s) ELSE [s EXCEPT !.p = q + 1, !.e = e]

(* The blanks before a word.                                               *)
BeforeLate(s, next) ==                  \* defect: the word begins one too late
  LET q == Blanks(s)
  IN  Word(s, q, At(s, q) = "lf", [s.e EXCEPT !.offset = q + 1, !.step = next])

Before(s, next) ==
  LET q == Blanks(s)
  IN  Word(s, q, At(s, q) = "lf", [s.e EXCEPT !.offset = q, !.step = next])

METHOD0(s) == Before(s, "METHOD")
METHOD(s) ==
  LET q == Scan(s, {"sp", "lf"})
      w == Read(s, q)
  IN  Word(s, q, At(s, q) = "lf" \/ Len(w) # 1 \/ w[1] \notin Methods,
           [s.e EXCEPT !.method = w[1], !.step = "URI0"])

URI0(s) == Before(s, "URI")
URI(s) ==
  LET q == Scan(s, {"sp", "lf"})
  IN  Word(s, q, At(s, q) = "lf", [s.e EXCEPT !.uri = Read(s, q)[1], !.step = "VERSION0"])

(* The version w of a start line: refused, or kept if it is one.           *)
BadVersion(w) == Len(w) # 1 \/ w[1] \notin Versions \cup OtherVersions
Versioned(e, w) == [e EXCEPT !.version = IF w[1] \in Versions THEN w[1] ELSE @]

VERSION0(s) == Before(s, "VERSION")
VERSION(s) ==
  LET q == Scan(s, {"lf"})
      w == Read(s, IF At(s, q - 1) = "cr" THEN q - 1 ELSE q)
  IN  Word(s, q, BadVersion(w), [Versioned(s.e, w) EXCEPT !.step = "NAME0"])

RSPVERSION0(s) == Before(s, "RSPVERSION")
RSPVERSION(s) ==
  LET q == Scan(s, {"sp", "lf"})
      w == Read(s, q)
  IN  Word(s, q, At(s, q) = "lf" \/ BadVersion(w),
           [Versioned(s.e, w) EXCEPT !.step = "STATUSCODE0"])

STATUSCODE0(s) == Before(s, "STATUSCODE")
STATUSCODE(s) ==
  LET q == Scan(s, {"sp", "lf"})
  IN  Word(s, q, At(s, q) = "lf",
           [s.e EXCEPT !.statuscode = Read(s, q)[1], !.step = "REASONPHRASE0"])

REASONPHRASE0(s) == Before(s, "REASONPHRASE")
REASONPHRASE(s) ==
  LET q == Scan(s, {"lf"})
  IN  Word(s, q, FALSE, [s.e EXCEPT !.step = "NAME0"])

(* _IF_THEN_GO_PARSING_BODY, at the end of the headers.                    *)
GoParsingBody(s, q) ==
  LET at == [s EXCEPT !.p = q, !.e.body = q]
  IN  IF s.e.method = "HEAD" THEN Done(s, q)
      ELSE IF s.e.content_length > 0 THEN [at EXCEPT !.e.step = "BODY"]
      ELSE IF s.e.chunked THEN [at EXCEPT !.e.chunk_end = q, !.e.step = "CHUNKED_SIZE"]
      ELSE Done(s, q)

(* A "cr" at the end of what has arrived: returns without keeping its      *)
(* place, although parse_step may be new.                                  *)
NAME0(s) ==
  LET q == Blanks(s)
  IN  IF q = Fill(s) THEN More(s, q)
      ELSE IF At(s, q) = "cr"
           THEN IF q + 1 = Fill(s) THEN [s EXCEPT !.ret = "more"]
                ELSE GoParsingBody(s, IF At(s, q + 1) = "lf" THEN q + 2 ELSE q + 1)
      ELSE IF At(s, q) = "lf" THEN GoParsingBody(s, q + 1)
      ELSE [s EXCEPT !.p = q + 1, !.e.offset = q, !.e.step = "NAME"]

NAME(s) ==
  LET q == Scan(s, {"sp", ":", "lf"})
      colon == Scan([s EXCEPT !.p = q], {":", "lf"})
      named == [s EXCEPT !.e.name = Read(s, q)]
  IN  IF q = Fill(s) THEN More(s, q)
      ELSE Word(named, colon, At(s, colon) = "lf", [named.e EXCEPT !.step = "VALUE0"])

VALUE0(s) == Before(s, "VALUE")

(* The number n goes on with the digits among v, each of which counts ten.  *)
Counted(n, d) == IF d \in DOMAIN Digits THEN 10 * n + Digits[d] ELSE n
Number(n, v) ==
  LET sum[i \in 0 .. Len(v)] == IF i = 0 THEN n ELSE Counted(sum[i - 1], v[i])
  IN  sum[Len(v)]

Decimal(v) == Number(0, v)              \* strtol

Connection(v) == IF v = <<"keep-alive">> THEN 1 ELSE IF v = <<"close">> THEN -1 ELSE 0

(* What a header says to the parser.                                       *)
Header(e, v) ==
  LET n == e.name
  IN  [e EXCEPT !.content_length = IF n = <<"Content-Length">> THEN Decimal(v) ELSE @,
                !.chunked = @ \/ (n = <<"Transfer-Encoding">> /\ v = <<"chunked">>),
                !.trailer = IF n = <<"Trailer">> THEN v ELSE @,
                !.encoding = IF n = <<"Content-Encoding">> /\ @ = <<>> THEN v ELSE @,
                !.keepalive = IF n = <<"Connection">> THEN Connection(v) ELSE @,
                !.step = "NAME0"]

VALUE(s) ==
  LET q == Scan(s, {"lf"})
      e == Header(s.e, TrimRight(Read(s, q)))
  IN  IF q < Fill(s) /\ e.chunked /\ e.content_length > 0 /\ e.name = e.trailer
      THEN DoneReforming([s EXCEPT !.e = e], q + 1)
      ELSE Word(s, q, FALSE, e)

BODYOneMore(s) ==                       \* defect: > for >=
  LET end == s.e.body + s.e.content_length
  IN  IF Fill(s) > end THEN DoneReforming(s, end) ELSE More(s, Fill(s))

BODY(s) ==
  LET end == s.e.body + s.e.content_length
  IN  IF Fill(s) >= end THEN DoneReforming(s, end) ELSE More(s, Fill(s))

(* The digits, sixteen of them, count ten each.                            *)
CHUNKED_SIZE(s) ==
  LET q == Scan(s, {"lf"})
      size == Number(s.e.chunk, SubSeq(s.b.data, s.p + 1, q))
      t == [s EXCEPT !.p = q + 1, !.e.chunk = size]
  IN  IF q = Fill(s) THEN More([s EXCEPT !.e.chunk = size], q)
      ELSE IF size > 0 THEN [t EXCEPT !.e.chunk_body = q + 1, !.e.step = "CHUNKED_DATA"]
      ELSE IF s.e.trailer # <<>> THEN [t EXCEPT !.e.step = "NAME0"]
      ELSE DoneReforming(t, q + 1)

(* A chunk is moved to the end of those before it.                         *)
CHUNKED_DATA(s) ==
  LET n == s.e.chunk
      q == s.e.chunk_body + n
      newline == IF At(s, q) = "cr" /\ At(s, q + 1) = "lf" THEN 2
                 ELSE IF At(s, q) = "lf" THEN 1 ELSE 0
      moved == [i \in 1 .. Fill(s) |->
                  IF i - s.e.chunk_end \in 1 .. n
                  THEN s.b.data[i - s.e.chunk_end + s.e.chunk_body] ELSE s.b.data[i]]
  IN  IF Fill(s) >= q + 2
      THEN [s EXCEPT !.p = q + newline, !.b.data = moved,
                     !.e.chunk_end = @ + n, !.e.content_length = @ + n,
                     !.e.chunk = 0, !.e.step = "CHUNKED_SIZE"]
      ELSE More(s, Fill(s))

ParseStep(s) ==
  CASE s.e.step = "METHOD0" -> METHOD0(s)
    [] s.e.step = "METHOD" -> METHOD(s)
    [] s.e.step = "URI0" -> URI0(s)
    [] s.e.step = "URI" -> URI(s)
    [] s.e.step = "VERSION0" -> VERSION0(s)
    [] s.e.step = "VERSION" -> VERSION(s)
    [] s.e.step = "RSPVERSION0" -> RSPVERSION0(s)
    [] s.e.step = "RSPVERSION" -> RSPVERSION(s)
    [] s.e.step = "STATUSCODE0" -> STATUSCODE0(s)
    [] s.e.step = "STATUSCODE" -> STATUSCODE(s)
    [] s.e.step = "REASONPHRASE0" -> REASONPHRASE0(s)
    [] s.e.step = "REASONPHRASE" -> REASONPHRASE(s)
    [] s.e.step = "NAME0" -> NAME0(s)
    [] s.e.step = "NAME" -> NAME(s)
    [] s.e.step = "VALUE0" -> VALUE0(s)
    [] s.e.step = "VALUE" -> VALUE(s)
    [] s.e.step = "BODY" -> BODY(s)
    [] s.e.step = "CHUNKED_SIZE" -> CHUNKED_SIZE(s)
    [] s.e.step = "CHUNKED_DATA" -> CHUNKED_DATA(s)
    [] s.e.step = "DONE" -> [s EXCEPT !.ret = "done"]

(* The loop.  Each step but the last consumes a token (ParseReturns), so    *)
(* that there are not more turns than tokens, and one.  (Through a set of   *)
(* one, for TLC to compute each turn once.)                                *)
Turn(s) == IF s.ret = "run" THEN ParseStep(s) ELSE s
Parse(s) ==
  LET after[i \in 0 .. Fill(s) + 1] ==
        IF i = 0 THEN s ELSE CHOOSE t \in {Turn(u) : u \in {after[i - 1]}} : TRUE
  IN  after[Fill(s) + 1]

First(role) == IF role = "server" THEN "METHOD0" ELSE "RSPVERSION0"

(* The chunks are found by addresses, which a move of the buffer leaves    *)
(* behind: what is then read is not said.                                  *)
ParseHttpBuffer(e, b) ==
  LET begun == IF e.step # "BEGIN" THEN e
               ELSE [e EXCEPT !.step = First(e.role), !.body = 0, !.content_length = 0]
  IN  IF e.moved THEN [e |-> e, b |-> b, p |-> b.process, ret |-> "lost"]
      ELSE Parse([e |-> begun, b |-> b, p |-> b.process, ret |-> "run"])

=============================================================================
