------------------------------- MODULE HttpTalk -------------------------------
(***************************************************************************)
(* What two ends of a connection (Http) have in common while they talk: the *)
(* layout of the messages on the wire, where a parser of fasterhttp.c can   *)
(* stand in one, and the invariant that relates the buffers of both ends,   *)
(* what is between them and the histories.  Http_proofs proves it.          *)
(***************************************************************************)
EXTENDS Http

(* A message laid out.  w is what is sent; its start line has 6 tokens (a   *)
(* request's) or 5 and an end of line of eol tokens; header j begins at     *)
(* h[j - 1], the line that ends the headers at h[n], what follows at base. *)
(* co, ce, cl, te say which header is Connection, Content-Encoding,        *)
(* Content-Length, Transfer-Encoding (0: none).  The body is what is read  *)
(* before it is inflated; chunk i begins at c[i], the last one at the end. *)
Empty == ""
Text(m) ==
  LET eol == IF m.form = "chunked" THEN 1 ELSE 2
      co == IF m.keep = Empty THEN 0 ELSE 1
      n == co + (IF m.form = "none" THEN 0 ELSE IF m.form = "gzip" THEN 2 ELSE 1)
      base == IF m.form = "chunked" THEN 8 + 5 * n ELSE 10 + 6 * n
  IN  [role |-> "server", w |-> Wire(m), eol |-> eol, n |-> n,
       h |-> [j \in 0 .. n |-> IF m.form = "chunked" THEN 7 + 5 * j ELSE 8 + 6 * j], base |-> base,
       co |-> co, ce |-> IF m.form = "gzip" THEN co + 1 ELSE 0,
       cl |-> IF m.form \in {"length", "gzip"} THEN n ELSE 0,
       te |-> IF m.form = "chunked" THEN n ELSE 0,
       keep |-> m.keep, method |-> m.method, uri |-> m.uri, version |-> m.version, code |-> Empty,
       body |-> IF m.form = "gzip" THEN <<"zip">> ELSE m.body,
       c |-> [i \in 1 .. Len(m.body) + 1 |-> IF i = 1 THEN base ELSE base + 4 * i - 3]]

Reply(e, a) ==
  StartLine(e, a.code) \o (Field("Content-Type", <<"json">>, CrLf) \o Length(a.body) \o CrLf \o a.body)
AnswerText(e, a) ==
  LET co == IF CheckHttpKeepAlive(e) \/ e.version = "HTTP/1.1" THEN 1 ELSE 0
      n == co + 2
      base == 9 + n * 6
  IN  [role |-> "client", w |-> Reply(e, a), eol |-> 2, n |-> n,
       h |-> [j \in 0 .. n |-> 7 + j * 6], base |-> base, co |-> co, ce |-> 0, cl |-> n, te |-> 0,
       keep |-> IF CheckHttpKeepAlive(e) THEN "keep-alive" ELSE "close",
       method |-> Empty, uri |-> Empty, version |-> e.version, code |-> a.code, body |-> a.body,
       c |-> <<base>>]

(* Header j + 1 of a message.                                              *)
Line(x, j) ==
  /\ x.h[j + 1] = x.h[j] + 4 + x.eol
  /\ x.w[x.h[j] + 1] \notin Separators /\ x.w[x.h[j] + 2] = ":" /\ x.w[x.h[j] + 3] = "sp"
  /\ x.w[x.h[j] + 4] \notin Separators
  /\ x.w[x.h[j] + 4 + x.eol] = "lf" /\ (x.eol = 2 => x.w[x.h[j] + 5] = "cr")
  /\ x.w[x.h[j] + 1] # "Trailer"
  /\ x.w[x.h[j] + 1] = "Connection" <=> j + 1 = x.co
  /\ x.w[x.h[j] + 1] = "Content-Encoding" <=> j + 1 = x.ce
  /\ x.w[x.h[j] + 1] = "Content-Length" <=> j + 1 = x.cl
  /\ (x.w[x.h[j] + 1] = "Transfer-Encoding" /\ x.w[x.h[j] + 4] = "chunked") <=> j + 1 = x.te
  /\ j + 1 = x.co => x.w[x.h[j] + 4] = x.keep
  /\ j + 1 = x.ce => x.w[x.h[j] + 4] = "gzip"
  /\ j + 1 = x.cl => x.w[x.h[j] + 4] \in DOMAIN Digits /\ Digits[x.w[x.h[j] + 4]] = Len(x.body)

Begins(x) ==
  /\ x.role = "server" =>
       /\ x.h[0] = 6 + x.eol
       /\ x.w[1] = x.method /\ x.w[2] = "sp" /\ x.w[3] = x.uri /\ x.w[4] = "sp" /\ x.w[5] = "sp"
       /\ x.w[6] = x.version /\ x.w[6 + x.eol] = "lf" /\ (x.eol = 2 => x.w[7] = "cr")
       /\ x.method \notin Separators /\ x.uri \notin Separators /\ x.code = Empty
  /\ x.role = "client" =>
       /\ x.h[0] = 7 /\ x.eol = 2 /\ x.te = 0
       /\ x.w[1] = x.version /\ x.w[2] = "sp" /\ x.w[3] = x.code /\ x.w[4] = "sp"
       /\ x.w[5] = "reason" /\ x.w[6] = "cr" /\ x.w[7] = "lf"
       /\ x.code \notin Separators /\ x.method = Empty /\ x.uri = Empty
  /\ x.version \in Versions

Chunk(x, i) ==
  /\ x.c[i + 1] = x.c[i] + (IF i = 1 THEN 5 ELSE 4)
  /\ x.w[x.c[i] + 1] = "d1" /\ x.w[x.c[i] + 2] = "lf" /\ x.w[x.c[i] + 3] = x.body[i]
  /\ IF i = 1 THEN x.w[x.c[i] + 4] = "cr" /\ x.w[x.c[i] + 5] = "lf" ELSE x.w[x.c[i] + 4] = "lf"

Follows(x) ==
  IF x.te = 0
  THEN /\ Len(x.w) = x.base + Len(x.body)
       /\ \A k \in 1 .. Len(x.body) : x.w[x.base + k] = x.body[k]
  ELSE LET end == x.c[Len(x.body) + 1]
       IN  /\ x.c[1] = x.base
           /\ \A i \in 1 .. Len(x.body) + 1 : x.c[i] \in Nat /\ x.c[i] >= x.base + i - 1
           /\ \A i \in 1 .. Len(x.body) : Chunk(x, i)
           /\ x.w[end + 1] = "d0" /\ x.w[end + 2] = "lf" /\ x.w[end + 3] = "lf" /\ Len(x.w) = end + 3

Laid(x) ==
  /\ x.role \in {"server", "client"} /\ x.eol \in {1, 2} /\ x.n \in Nat
  /\ {x.co, x.ce, x.cl, x.te} \subseteq 0 .. x.n
  /\ \A j \in 0 .. x.n : x.h[j] \in Nat /\ x.h[j] >= 7
  /\ \A j \in 0 .. x.n - 1 : Line(x, j)
  /\ Begins(x)
  /\ x.base = x.h[x.n] + x.eol /\ x.w[x.base] = "lf" /\ (x.eol = 2 => x.w[x.base - 1] = "cr")
  /\ x.body \in Seq({x.body[i] : i \in 1 .. Len(x.body)})
  /\ x.cl = 0 \/ x.te = 0
  /\ Len(x.body) > 0 => x.cl # 0 \/ x.te # 0
  /\ x.method = "HEAD" => Len(x.body) = 0 /\ x.te = 0
  /\ Follows(x)

(* What is known of a message: its start line, its first j headers, its    *)
(* chunks before chunk i.                                                  *)
Exact(x, d) == \A k \in 1 .. Len(d) : d[k] = x.w[k]
Blank(e) == /\ e.content_length = 0 /\ e.chunked = FALSE /\ e.keepalive = 0 /\ e.encoding = <<>>
            /\ e.body = 0 /\ e.chunk = 0 /\ e.chunk_end = 0
Began(x, e) == e.version = x.version /\ e.method = x.method /\ e.uri = x.uri /\ e.statuscode = x.code
Heard(x, e, j) ==
  /\ e.chunked = (x.te \in 1 .. j)
  /\ e.keepalive = (IF x.co \in 1 .. j THEN Connection(<<x.keep>>) ELSE 0)
  /\ e.encoding = (IF x.ce \in 1 .. j THEN <<"gzip">> ELSE <<>>)
Known(x, e, j) ==
  /\ Began(x, e) /\ Heard(x, e, j)
  /\ e.content_length = (IF x.cl \in 1 .. j THEN Len(x.body) ELSE 0)
  /\ e.body = 0 /\ e.chunk = 0 /\ e.chunk_end = 0
Joint(x, e, d, i) ==
  /\ Began(x, e) /\ Heard(x, e, x.n) /\ x.te # 0
  /\ e.body = x.base /\ e.chunk_end = x.base + i - 1 /\ e.content_length = i - 1
  /\ \A k \in 1 .. Len(d) : k > x.c[i] => d[k] = x.w[k]
  /\ \A k \in 1 .. i - 1 : d[x.base + k] = x.body[k]

(* Where a parser of the message stands: behind place p of the data d.     *)
InStart(x, e, p) ==
  /\ Blank(e)
  /\ e.step \in {"METHOD0", "METHOD", "URI0", "URI", "VERSION0", "VERSION"} =>
       x.role = "server" /\ e.statuscode = x.code
  /\ e.step \in {"RSPVERSION0", "RSPVERSION", "STATUSCODE0", "STATUSCODE",
                 "REASONPHRASE0", "REASONPHRASE"} =>
       x.role = "client" /\ e.method = x.method /\ e.uri = x.uri
  /\ e.step = "METHOD0" => p = 0
  /\ e.step = "METHOD" => p = 1 /\ e.offset = 0
  /\ e.step = "URI0" => p = 2 /\ e.method = x.method
  /\ e.step = "URI" => p = 3 /\ e.offset = 2 /\ e.method = x.method
  /\ e.step = "VERSION0" => p \in {4, 5} /\ e.method = x.method /\ e.uri = x.uri
  /\ e.step = "VERSION" =>
       p \in 6 .. 5 + x.eol /\ e.offset = 5 /\ e.method = x.method /\ e.uri = x.uri
  /\ e.step = "RSPVERSION0" => p = 0
  /\ e.step = "RSPVERSION" => p = 1 /\ e.offset = 0
  /\ e.step = "STATUSCODE0" => p = 2 /\ e.version = x.version
  /\ e.step = "STATUSCODE" => p = 3 /\ e.offset = 2 /\ e.version = x.version
  /\ e.step = "REASONPHRASE0" => p = 4 /\ e.version = x.version /\ e.statuscode = x.code
  /\ e.step = "REASONPHRASE" => p \in {5, 6} /\ e.version = x.version /\ e.statuscode = x.code
InHeader(x, e, p) ==
  IF e.step = "NAME0" THEN \E j \in 0 .. x.n : p = x.h[j] /\ Known(x, e, j)
  ELSE \E j \in 0 .. x.n - 1 :
         /\ Known(x, e, j)
         /\ e.step = "NAME" => p = x.h[j] + 1 /\ e.offset = x.h[j]
         /\ e.step = "VALUE0" => p \in {x.h[j] + 2, x.h[j] + 3} /\ e.name = <<x.w[x.h[j] + 1]>>
         /\ e.step = "VALUE" => /\ p \in x.h[j] + 4 .. x.h[j] + 3 + x.eol /\ e.offset = x.h[j] + 3
                                /\ e.name = <<x.w[x.h[j] + 1]>>
InChunks(x, e, d, p) ==
  \/ /\ e.step = "CHUNKED_SIZE"
     /\ \E i \in 1 .. Len(x.body) + 1 :
          /\ Joint(x, e, d, i)
          /\ \/ p = x.c[i] /\ e.chunk = 0
             \/ p = x.c[i] + 1 /\ e.chunk = (IF i <= Len(x.body) THEN 1 ELSE 0)
  \/ /\ e.step = "CHUNKED_DATA"
     /\ \E i \in 1 .. Len(x.body) :
          Joint(x, e, d, i) /\ e.chunk = 1 /\ e.chunk_body = x.c[i] + 2 /\ p >= x.c[i] + 2
InBody(x, e) ==
  /\ Began(x, e) /\ Heard(x, e, x.n) /\ x.te = 0
  /\ e.body = x.base /\ e.content_length = Len(x.body) /\ e.chunk_end = 0

Startings == {"METHOD0", "METHOD", "URI0", "URI", "VERSION0", "VERSION", "RSPVERSION0", "RSPVERSION",
              "STATUSCODE0", "STATUSCODE", "REASONPHRASE0", "REASONPHRASE"}
Headings == {"NAME0", "NAME", "VALUE0", "VALUE"}
Common(x, e, d) ==
  /\ e.role = x.role /\ e.moved = FALSE /\ e.reforming = FALSE /\ e.trailer = <<>>
  /\ Len(d) <= Len(x.w)
Stand(x, e, d, p) ==
  /\ Common(x, e, d)
  /\ \/ e.step \in Startings /\ Exact(x, d) /\ InStart(x, e, p)
     \/ e.step \in Headings /\ Exact(x, d) /\ InHeader(x, e, p)
     \/ e.step = "BODY" /\ Exact(x, d) /\ InBody(x, e)
     \/ InChunks(x, e, d, p)

(* A parser that has not begun, or stands there.                           *)
New(role, e) == e = [CreateHttpEnv(role) EXCEPT !.req = e.req, !.rsp = e.rsp]
Ready(x, e, d, p) ==
  \/ New(x.role, e) /\ p = 0 /\ Exact(x, d) /\ Len(d) <= Len(x.w)
  \/ Stand(x, e, d, p)
Onway(x, e, b, rest) == Ready(x, e, b.data, b.process) /\ rest = SubSeq(x.w, Len(b.data) + 1, Len(x.w))
Clean(role, e, b) == New(role, e) /\ b.data = <<>> /\ b.process = 0

(* The end: all is known.                                                  *)
Finished(x, e, b) ==
  /\ e.role = x.role /\ e.moved = FALSE /\ e.step = "DONE"
  /\ Began(x, e) /\ Heard(x, e, x.n)
  /\ Len(b.data) <= Len(x.w)
  /\ b.process = Len(x.w) - (IF x.te = 0 THEN 0 ELSE 1) /\ b.process <= Len(b.data)
  /\ e.reforming = (Len(b.data) > b.process)
  /\ x.te = 0 => Len(b.data) = Len(x.w)
  /\ b.data # <<>>
  /\ IF e.body = 0 THEN x.body = <<>>
     ELSE /\ e.body = x.base /\ e.content_length = Len(x.body)
          /\ e.body + Len(x.body) <= b.process
          /\ \A k \in 1 .. Len(x.body) : b.data[x.base + k] = x.body[k]

-----------------------------------------------------------------------------
(* What one end has not sent, and with what is on the way, all that the     *)
(* other has yet to receive.                                               *)
Unsent(b) == SubSeq(b.data, b.process + 1, Len(b.data))
ToServer == toSrv \o Unsent(cli.req)
ToClient == toCli \o Unsent(srv.rsp)
(* A chunked request leaves the lf that ends it unparsed: it may come with  *)
(* the request, and then ResetHttpEnv keeps it (as the nul it was made), or *)
(* later.  The server takes it for the start of the next request, which it  *)
(* never gets beyond.                                                      *)
Spoilt == got # <<>> /\ conv[Len(got)].form = "chunked"
Foul(d) == /\ d # <<>>
           /\ \/ d[1] = "lf"
              \/ d[1] = "nul" /\ (Len(d) >= 2 => d[2] \notin {"sp", "lf"})
Stuck(e, b, rest) ==
  /\ e.moved = FALSE /\ e.role = "server" /\ e.chunk_end = 0
  /\ Foul(b.data \o rest)
  /\ \/ e.step \in {"BEGIN", "METHOD0"} /\ b.process = 0
     \/ e.step = "METHOD" /\ b.process >= 1 /\ e.offset = 0 /\ b.data # <<>> /\ b.data[1] = "nul"
Left ==
  /\ srv.role = "server"
  /\ \/ ~Spoilt /\ srv.reforming = FALSE /\ ToServer = <<>>
     \/ Spoilt /\ srv.reforming = FALSE /\ ToServer = <<"lf">>
     \/ /\ Spoilt /\ srv.reforming = TRUE /\ ToServer = <<>>
        /\ Unprocessed(srv.req) = 1 /\ srv.req.data[srv.req.process + 1] = "nul"
(* The next request, what the client's answer depends on, and the answer.   *)
Asking == Text(conv[Len(got) + 1])
Said(m) == [version |-> m.version, keepalive |-> Connection(<<m.keep>>)]
Answering == AnswerText(Said(conv[Len(got)]), made[Len(got)])

(* The invariant.  The histories agree: what the server understood is what  *)
(* the client asked, it has answered at most that, the client has read at   *)
(* most that and leaves at most one request unanswered.                    *)
Counts ==
  /\ Len(got) <= Len(conv) /\ Len(made) <= Len(got) /\ Len(ans) <= Len(made) /\ Len(got) <= Len(ans) + 1
  /\ \A i \in 1 .. Len(got) : got[i] = Meaning(conv[i])
  /\ made \in Seq({Answers[k] : k \in 1 .. Len(Answers)})
  /\ \A i \in 1 .. Len(ans) : ans[i] = made[i]
  /\ \A i \in 1 .. Len(got) - 1 : conv[i].form # "chunked"
(* What the client has to send, and when it is idle.                       *)
ClientTalks ==
  /\ cpc = "idle" => Len(ans) = Len(got) /\ Len(made) = Len(got) /\ cli.role = "client" /\ cli.reforming = FALSE
  /\ cpc \in {"idle", "receive"} => Unprocessed(cli.req) = 0
  /\ cpc # "refused"
(* An answer that is not yet read is with the client's parser, on the way   *)
(* and with the server, in this order.                                     *)
AnswerTravels ==
  IF Len(ans) = Len(made) THEN toCli = <<>>
  ELSE Len(made) = Len(got) /\ Onway(Answering, cli, cli.rsp, ToClient)
(* So is a request, unless the server is stuck or has nothing to read.      *)
ServerReads ==
  spc = "receive" =>
    /\ Len(made) = Len(got)
    /\ \/ Spoilt /\ Stuck(srv, srv.req, ToServer)
       \/ ~Spoilt /\ Clean("server", srv, srv.req) /\ ToServer = <<>>
       \/ /\ ~Spoilt /\ Len(ans) = Len(got) /\ Len(got) < Len(conv) /\ cpc # "idle"
          /\ Clean("client", cli, cli.rsp)
          /\ Onway(Asking, srv, srv.req, ToServer)
(* While the server answers, all of the request has been received.         *)
ServerAnswers ==
  /\ spc \in {"process", "send"} => Len(got) = Len(ans) + 1 /\ Left
  /\ spc = "process" => /\ Len(made) = Len(ans) /\ Clean("client", cli, cli.rsp)
                        /\ srv.version = conv[Len(got)].version
                        /\ srv.keepalive = Connection(<<conv[Len(got)].keep>>)
  /\ spc = "send" => Len(made) = Len(got) /\ Unprocessed(srv.rsp) > 0
Talk == Counts /\ ClientTalks /\ AnswerTravels /\ ServerReads /\ ServerAnswers

(* No receipt ends between the cr and the lf that end the headers, with the *)
(* parser waiting for a header's name: it then returns without its place,   *)
(* and goes on as for a header at the place it had before.                 *)
Tear(e, b) == e.step = "NAME0" /\ b.data # <<>> /\ b.data[Len(b.data)] = "cr"
Untorn == ~Tear(srv, srv.req) /\ ~Tear(cli, cli.rsp)
(* The buffer of a request whose chunks are being parsed does not have to   *)
(* grow, which would move it under the addresses kept of its chunks.       *)
Stays == spc = "receive" /\ srv.chunk_end > 0 /\ toSrv # <<>> => Len(srv.req.data) + 1 <= srv.req.size - 1

(* Neither end is left with a receipt that ends there in the message it     *)
(* reads: n tokens of x end between them.                                  *)
Cleft(x, n) == x.eol = 2 /\ n = x.base - 1
Uncut ==
  /\ spc = "receive" /\ ~Spoilt /\ Len(ans) = Len(got) /\ Len(got) < Len(conv) =>
       ~(Tear(srv, srv.req) /\ Cleft(Asking, Len(srv.req.data)))
  /\ Len(ans) # Len(made) => ~(Tear(cli, cli.rsp) /\ Cleft(Answering, Len(cli.rsp.data)))

(* The size that a buffer is given at first, if that survives a reset: none *)
(* that is read into is ever smaller.                                      *)
Lesser(m, n) == IF m <= n THEN m ELSE n
ReqFit == Lesser(ReqSize, ReqMax)
RspFit == Lesser(RspSize, RspMax)
Ample == srv.req.size >= ReqFit /\ cli.rsp.size >= RspFit
(* What either end sends is the message it means to send.                  *)
Sends ==
  /\ cpc = "send" => cli.req.data = Wire(conv[Asked])
  /\ spc = "send" => srv.rsp.data = Answering.w
(* Neither what b has sent of a message nor what c has received of it ends  *)
(* between that cr and lf: so of the next request, and of its answer.       *)
Apart(x, b, c) == ~Cleft(x, Len(x.w) - Len(Unsent(b))) /\ ~Cleft(x, Len(c.data))
Awaits == spc = "receive" /\ ~Spoilt /\ Len(ans) = Len(got) /\ Len(got) < Len(conv)
ReqApart == Awaits => Apart(Asking, cli.req, srv.req)
RspApart == Len(ans) # Len(made) => Apart(Answering, srv.rsp, cli.rsp)
Cut == Ample /\ Sends /\ ReqApart /\ RspApart

(* Segments do not tear the end of the headers, and every message fits the  *)
(* buffer it is read into as that was made.                                *)
Fits ==
  /\ Torn = FALSE
  /\ \A c \in Conversations : \A i \in 1 .. Len(c) :
       /\ Len(Wire(c[i])) < ReqFit
       /\ \A k \in 1 .. Len(Answers) : Len(Reply(Said(c[i]), Answers[k])) < RspFit
=============================================================================
